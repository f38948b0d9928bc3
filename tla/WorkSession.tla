---------------------------- MODULE WorkSession ----------------------------
(***************************************************************************)
(* One conversation with the model, over the processes that carry it on:   *)
(* the turn loop of lilith_cli/agent.py, the checkpoints that              *)
(* lilith_cli/work_session.py takes around its events, and the saved file  *)
(* from which a later process resumes.                                     *)
(*                                                                         *)
(* Everything a process knows is volatile but the file: the history, the   *)
(* tools whose result is pending, the namespace from which the ids of its  *)
(* delegations are made and the receipts of its writes.  Tools run in      *)
(* threads that nothing stops but the death of the process: a call that    *)
(* times out, or whose turn is interrupted, goes on.                       *)
(*                                                                         *)
(* The calls of the model are numbered; every write is the same write of   *)
(* one file and every delegation the same one, so that what is asked for   *)
(* again can be told from what is asked for once.  One process at a time.  *)
(***************************************************************************)
EXTENDS Integers, Sequences, SequencesExt, FiniteSets

CONSTANTS
    MaxIterations,  \* max_iterations of a turn
    MaxTries,       \* retry_count + 1 of a tool that may be retried
    MaxCalls,       \* bound: tool calls of the model in this conversation
    MaxInputs,      \* bound: messages in the user's name, notes included
    MaxCrashes      \* bound: processes that are killed

ASSUME SessionConstants ==
    /\ MaxIterations \in Nat \ {0}
    /\ MaxTries \in Nat \ {0}
    /\ MaxCalls \in Nat
    /\ MaxInputs \in Nat
    /\ MaxCrashes \in Nat

VARIABLES
    pc,         \* where the process is
    mode,       \* how it was started
    serial,     \* its calls are executed one by one
    history,    \* session.history
    iter,       \* rounds of the turn so far
    todo,       \* calls of the round that are not declared to the user yet
    waiting,    \* calls declared whose result is not in the history yet
    awaited,    \* those with a thread somebody waits for
    got,        \* those with a result
    pending,    \* _run_progress["pending"]
    namespace,  \* _delegation_namespace, 0 when there is none
    receipt,    \* _tool_receipts has the write
    replay,     \* _replay_receipts has the write
    saved,      \* the file of the conversation

    kind,       \* the kind of every call asked for so far
    tries,      \* attempts to execute a call
    threads,    \* threads that execute it
    file,       \* who wrote the file last
    launched,   \* the namespaces under which the delegation was launched
    restored,   \* messages this process was resumed with
    succeeded,  \* writes that reported success to a process with checkpoints
    owed,       \* calls such a process began to execute, but for those that were
                \* interrupted before the eyes of somebody who then went on
    inputs, crashes

processVars == <<pc, mode, serial, history, iter, todo, waiting, awaited, got,
                 pending, namespace, receipt, replay>>
worldVars == <<kind, tries, threads, file, launched>>
ghosts == <<restored, succeeded, owed, inputs, crashes>>
sessionVars == <<processVars, saved, worldVars, ghosts>>

Calls == 1..MaxCalls
Asked == Len(kind)

\* A saga (`lilith task', which ends with an interruption and guards its
\* writes when it is resumed), the console of the project (hearth.py) and the
\* plain REPL, which takes no checkpoints.
Modes == {"task", "console", "repl"}
Tracked == mode # "repl"

User == [role |-> "user", calls |-> {}, text |-> TRUE]
Assistant(calls, text) == [role |-> "assistant", calls |-> calls, text |-> text]
Result(c) == [role |-> "tool", calls |-> {c}, text |-> TRUE]
Messages == [role : {"user", "assistant", "tool"}, calls : SUBSET Calls,
             text : BOOLEAN]

NoFile == [exists |-> FALSE, history |-> <<>>, pending |-> {}, namespace |-> 0,
           receipt |-> FALSE]

SessionInit ==
    /\ pc = "off" /\ mode = "repl" /\ serial = FALSE
    /\ history = <<>> /\ iter = 0
    /\ todo = {} /\ waiting = {} /\ awaited = {} /\ got = {} /\ pending = {}
    /\ namespace = 0 /\ receipt = FALSE /\ replay = FALSE
    /\ saved = NoFile
    /\ kind = <<>>
    /\ tries = [c \in Calls |-> 0]
    /\ threads = [c \in Calls |-> 0]
    /\ file = "base"
    /\ restored = 0 /\ succeeded = {} /\ launched = {} /\ owed = {}
    /\ inputs = 0 /\ crashes = 0

-----------------------------------------------------------------------------
(* The request: what _build_messages makes of the end of a history.        *)
Resulted(h) == UNION {h[i].calls : i \in {j \in DOMAIN h : h[j].role = "tool"}}
Declares(m) == m.role = "assistant" /\ m.calls # {}

\* Mutant: a group with some of its results is kept.
WholeEnough(h, m) == m.calls \cap Resulted(h) # {}

Whole(h, m) == m.calls \subseteq Resulted(h)

Kept(h) == UNION {h[i].calls : i \in {j \in DOMAIN h :
                                        Declares(h[j]) /\ Whole(h, h[j])}}

\* The n-th of the positions P of a sequence.
Nth(P, n) == CHOOSE i \in P : Cardinality({j \in P : j <= i}) = n

\* _drop_orphan_tool_messages: results without their call go, and of a group
\* that lacks a result only the text stays; the order is kept.
Repaired(h) ==
    LET keeps(m) == CASE m.role = "tool" -> m.calls \subseteq Kept(h)
                      [] Declares(m)     -> Whole(h, m) \/ m.text
                      [] OTHER           -> TRUE
        mended(m) == IF Declares(m) /\ ~Whole(h, m)
                       THEN [m EXCEPT !.calls = {}] ELSE m
        left == {i \in DOMAIN h : keeps(h[i])}
    IN  [n \in 1..Cardinality(left) |-> mended(h[Nth(left, n)])]

\* The history is cut to its last messages, by number and then by size; how
\* many are left is data.  /compact cuts it in the same way.
Request(n) == Repaired(SubSeq(history, n + 1, Len(history)))

-----------------------------------------------------------------------------
\* _auto_save_conversation replaces the file at once, or fails and leaves it.
Snapshot == [exists |-> TRUE, history |-> history, pending |-> pending,
             namespace |-> namespace, receipt |-> receipt]
SaveOrFail == saved' = Snapshot' \/ saved' = saved

\* The turn is over: a saga that was interrupted ends, everybody else waits
\* for the next message.
EndTurn(interrupted) ==
    /\ pc' = IF mode = "task" /\ interrupted THEN "leaving" ELSE "prompt"
    /\ todo' = {} /\ waiting' = {} /\ awaited' = {} /\ got' = {}

\* Nothing of a process outlives it.
Gone ==
    /\ pc' = "off" /\ mode' = "repl" /\ serial' = FALSE
    /\ history' = <<>> /\ iter' = 0
    /\ todo' = {} /\ waiting' = {} /\ awaited' = {} /\ got' = {} /\ pending' = {}
    /\ namespace' = 0 /\ receipt' = FALSE /\ replay' = FALSE
    /\ restored' = 0

\* The turn ends as it should, with a checkpoint, or else the session is
\* interrupted; either way the last save may fail.
Done == \/ EndTurn(FALSE) /\ saved' = Snapshot'
        \/ EndTurn(TRUE) /\ SaveOrFail

\* An event of the stream reaches track_stream, which takes a checkpoint; the
\* stream goes on to `next' if that succeeds, and ends if it does not (after
\* another attempt) or if a pause is due.  The plain REPL passes it on.
Tell(next, mayPause) ==
    \/ next /\ saved' = IF Tracked THEN Snapshot' ELSE saved
    \/ Tracked /\ EndTurn(TRUE) /\ saved' = saved
    \/ Tracked /\ mayPause /\ EndTurn(TRUE) /\ saved' = Snapshot'

\* A process starts a conversation.
Start ==
    /\ pc = "off" /\ ~saved.exists
    /\ mode' \in Modes /\ serial' \in BOOLEAN
    /\ mode' = "task" => serial'
    /\ mode' = "repl" => ~serial'
    /\ pc' = "prompt"
    /\ UNCHANGED <<history, iter, todo, waiting, awaited, got, pending, namespace,
                   receipt, replay, saved, worldVars, ghosts>>

\* Mutant: the pending tools are not looked at.
MayRestoreAny == saved.exists

\* restore_session, which refuses a file with pending tools.
MayRestore == saved.exists /\ saved.pending = {}

Resume ==
    /\ pc = "off" /\ MayRestore
    /\ mode' \in {"task", "console"} /\ serial' \in BOOLEAN
    /\ mode' = "task" => serial'
    /\ pc' = "prompt"
    /\ history' = saved.history /\ namespace' = saved.namespace
    /\ receipt' = saved.receipt
    /\ replay' = (mode' = "task" /\ saved.receipt)
    /\ restored' = Len(saved.history)
    /\ UNCHANGED <<iter, todo, waiting, awaited, got, pending, saved, worldVars,
                   succeeded, owed, inputs, crashes>>

\* A message of the user (of the saga: its text, or the output of a failed
\* verification) begins a turn with a new progress record.
Ask ==
    /\ pc = "prompt" /\ inputs < MaxInputs
    /\ inputs' = inputs + 1
    /\ history' = Append(history, User)
    /\ iter' = 0
    /\ owed' = owed \ pending
    /\ pending' = {}
    /\ pc' = "stream"
    /\ UNCHANGED <<mode, serial, todo, waiting, awaited, got, namespace, receipt,
                   replay, saved, worldVars, restored, succeeded, crashes>>

\* The process ends, when its threads have.
Leave ==
    /\ pc \in {"prompt", "leaving"}
    /\ \A c \in Calls : threads[c] = 0
    /\ saved' \in {saved, IF history = <<>> THEN saved ELSE Snapshot}
    /\ Gone
    /\ UNCHANGED <<worldVars, succeeded, owed, inputs, crashes>>

-----------------------------------------------------------------------------
(* A turn.                                                                  *)
InTurn == pc \in {"stream", "noted", "declare", "execute"}

\* The model answers without a tool, or, in the closing summary after the
\* last round, cannot ask for one: the turn is done.
Answer ==
    /\ pc = "stream"
    /\ history' = Append(history, Assistant({}, TRUE))
    /\ UNCHANGED <<mode, serial, iter, pending, namespace, receipt, replay,
                   worldVars, ghosts>>
    /\ Done

\* The model asks for up to two tools; what a provider sends with arguments
\* that are not JSON is answered by a note in the user's name.  In a serial
\* session the turn's own message declares no call.
AskTools ==
    /\ pc = "stream" /\ iter < MaxIterations
    /\ \E kinds \in UNION {[1..n -> {"write", "delegate"}] : n \in 0..2},
          notes \in {<<>>, <<User>>}, text \in BOOLEAN :
        LET new == {Asked + i : i \in DOMAIN kinds}
            turn == IF serial THEN Assistant({}, TRUE) ELSE Assistant(new, text)
        IN  /\ new # {} \/ notes # <<>>
            /\ new \subseteq Calls
            /\ inputs' = inputs + Len(notes) /\ inputs' <= MaxInputs
            /\ kind' = kind \o kinds
            /\ history' = Append(history, turn) \o notes
            /\ todo' = new
            /\ pc' = IF notes # <<>> THEN "noted" ELSE "declare"
    /\ UNCHANGED <<mode, serial, iter, waiting, awaited, got, pending, namespace,
                   receipt, replay, saved, tries, threads, file, launched,
                   restored, succeeded, owed, crashes>>

\* The note is an event like a result, before any call is declared.
TellNote ==
    /\ pc = "noted"
    /\ iter' = IF todo = {} THEN iter + 1 ELSE iter
    /\ UNCHANGED <<mode, serial, history, pending, namespace, receipt, replay,
                   worldVars, ghosts>>
    /\ Tell(/\ pc' = IF todo = {} THEN "stream" ELSE "declare"
            /\ UNCHANGED <<todo, waiting, awaited, got>>, TRUE)

\* A call is declared, and the checkpoint says so, before it is executed; a
\* serial session does so for one call, the others for all of the round.
Declare ==
    /\ pc = "declare"
    /\ UNCHANGED <<mode, serial, iter, namespace, receipt, replay, worldVars, ghosts>>
    /\ \E c \in todo :
        /\ history' = IF serial THEN Append(history, Assistant({c}, FALSE)) ELSE history
        /\ pending' = IF Tracked THEN pending \cup {c} ELSE pending
        /\ Tell(/\ todo' = todo \ {c}
                /\ waiting' = waiting \cup {c}
                /\ pc' = IF serial \/ todo = {c} THEN "execute" ELSE "declare"
                /\ UNCHANGED <<awaited, got>>, FALSE)

\* execute_tool has not been called for c, or not gone on to its thread.
Ready(c) == pc = "execute" /\ c \in waiting \ (awaited \cup got)

\* A call is answered without being executed: it is not allowed, its
\* arguments are wrong, or the write has a receipt from before the restart
\* (and is refused if the file has changed since).
Refuse(c) ==
    /\ Ready(c)
    /\ got' = got \cup {c}
    /\ UNCHANGED <<pc, mode, serial, history, iter, todo, waiting, awaited, pending,
                   namespace, receipt, replay, saved, worldVars, ghosts>>

\* execute_tool hands the call to a thread.
Execute(c) ==
    /\ awaited' = awaited \cup {c}
    /\ threads' = [threads EXCEPT ![c] = @ + 1]
    /\ tries' = [tries EXCEPT ![c] = @ + 1]
    /\ owed' = IF Tracked THEN owed \cup {c} ELSE owed
    /\ UNCHANGED <<pc, mode, serial, history, iter, todo, waiting, got, pending,
                   receipt, replay, kind, file, restored, succeeded, inputs, crashes>>

\* Mutant: the receipts of the process before are not kept.
WriteAgain(c) ==
    /\ Ready(c) /\ kind[c] = "write"
    /\ Execute(c)
    /\ UNCHANGED <<namespace, saved, launched>>

Write(c) ==
    /\ Ready(c) /\ kind[c] = "write"
    /\ ~replay
    /\ Execute(c)
    /\ UNCHANGED <<namespace, saved, launched>>

Fresh == Cardinality(launched) + 1

\* Mutant: the identity of the delegation is saved with the next checkpoint.
DelegateFirst(c) ==
    /\ Ready(c) /\ kind[c] = "delegate"
    /\ namespace' = IF namespace = 0 THEN Fresh ELSE namespace
    /\ launched' = launched \cup {namespace'}
    /\ Execute(c)
    /\ UNCHANGED saved

\* A delegation is launched under a request id made from the namespace of
\* the conversation, once the file has that namespace; no delegation without.
Delegate(c) ==
    /\ Ready(c) /\ kind[c] = "delegate"
    /\ namespace' = IF namespace = 0 THEN Fresh ELSE namespace
    /\ launched' = launched \cup {namespace'}
    /\ Execute(c)
    /\ saved' = Snapshot'

\* The thread that is waited for returns.  A write that says it succeeded
\* leaves a receipt in a session with checkpoints.
Return(c) ==
    /\ pc = "execute" /\ c \in awaited
    /\ awaited' = awaited \ {c} /\ got' = got \cup {c}
    /\ threads' = [threads EXCEPT ![c] = @ - 1]
    /\ tries' = [tries EXCEPT ![c] = 0]
    /\ \/ /\ kind[c] = "write" => file' = "mine" /\ receipt' = (receipt \/ Tracked)
          /\ kind[c] = "delegate" => UNCHANGED <<file, receipt>>
          /\ succeeded' = IF kind[c] = "write" /\ Tracked THEN succeeded \cup {c}
                                                         ELSE succeeded
       \/ UNCHANGED <<file, receipt, succeeded>>
    /\ UNCHANGED <<pc, mode, serial, history, iter, todo, waiting, pending, namespace,
                   replay, saved, kind, launched, restored, owed, inputs, crashes>>

\* A thread nobody waits for any more ends; what it did it did.
ThreadEnds(c) ==
    /\ threads[c] > IF c \in awaited THEN 1 ELSE 0
    /\ threads' = [threads EXCEPT ![c] = @ - 1]
    /\ \/ kind[c] = "write" /\ file' = "mine"
       \/ UNCHANGED file
    /\ UNCHANGED <<processVars, saved, kind, tries, launched, ghosts>>

\* Mutant: one attempt more than configured.
MayRetryOnceMore(c) == kind[c] # "delegate" /\ tries[c] <= MaxTries

\* Delegations are never tried again (allow_automatic_retry).
MayRetry(c) == kind[c] # "delegate" /\ tries[c] < MaxTries

\* Mutant: the last timeout is not answered.
TimeoutWithoutAnswer(c) ==
    /\ pc = "execute" /\ c \in awaited
    /\ MayRetry(c)
    /\ threads' = [threads EXCEPT ![c] = @ + 1]
    /\ tries' = [tries EXCEPT ![c] = @ + 1]
    /\ UNCHANGED <<pc, mode, serial, history, iter, todo, waiting, awaited, got, pending,
                   namespace, receipt, replay, saved, kind, file, launched, ghosts>>

\* Nobody waits longer for the thread: another one is started, or the call
\* is answered with the timeout.  (An attempt that returns a transient error
\* is followed by another one too: as if it had timed out, and then ended.)
Timeout(c) ==
    /\ pc = "execute" /\ c \in awaited
    /\ IF MayRetry(c)
         THEN /\ threads' = [threads EXCEPT ![c] = @ + 1]
              /\ tries' = [tries EXCEPT ![c] = @ + 1]
              /\ UNCHANGED <<awaited, got>>
         ELSE /\ awaited' = awaited \ {c} /\ got' = got \cup {c}
              /\ tries' = [tries EXCEPT ![c] = 0]
              /\ UNCHANGED threads
    /\ UNCHANGED <<pc, mode, serial, history, iter, todo, waiting, pending, namespace,
                   receipt, replay, saved, kind, file, launched, ghosts>>

\* The result of a call enters the history, in the order of the calls; all
\* the calls of a round that is not serial have one by then.
Collect(c) ==
    /\ pc = "execute" /\ c \in got
    /\ waiting \subseteq got
    /\ \A d \in waiting : c <= d
    /\ history' = Append(history, Result(c))
    /\ pending' = pending \ {c}
    /\ iter' = IF waiting \cup todo = {c} THEN iter + 1 ELSE iter
    /\ UNCHANGED <<mode, serial, namespace, receipt, replay, worldVars, ghosts>>
    /\ Tell(/\ pc' = IF waiting # {c} THEN "execute"
                     ELSE IF todo # {} THEN "declare" ELSE "stream"
            /\ waiting' = waiting \ {c} /\ got' = got \ {c}
            /\ UNCHANGED <<todo, awaited>>,
            pending' = {})

\* The user cancels, the provider fails, or the task that runs the turn is
\* cancelled: the turn ends wherever it is, and its threads go on.
Interrupt ==
    /\ InTurn
    /\ EndTurn(TRUE)
    /\ tries' = [c \in Calls |-> 0]
    /\ UNCHANGED <<mode, serial, history, iter, pending, namespace, receipt, replay,
                   kind, threads, file, launched, ghosts>>
    /\ SaveOrFail

\* The process is killed, and its threads with it.
Crash ==
    /\ pc # "off" /\ crashes < MaxCrashes
    /\ crashes' = crashes + 1
    /\ Gone
    /\ tries' = [c \in Calls |-> 0]
    /\ threads' = [c \in Calls |-> 0]
    /\ UNCHANGED <<saved, kind, file, launched, succeeded, owed, inputs>>

\* Somebody changes the file while the conversation rests.
Edit ==
    /\ pc = "off" /\ file = "mine"
    /\ file' = "edited"
    /\ UNCHANGED <<processVars, saved, kind, tries, threads, launched, ghosts>>

-----------------------------------------------------------------------------
\* What the process does by itself; that a tool returns is up to the tool.
TurnStep ==
    \/ Answer \/ AskTools \/ TellNote \/ Declare
    \/ \E c \in Calls : Refuse(c) \/ Write(c) \/ Delegate(c) \/ Timeout(c) \/ Collect(c)

SessionNext ==
    \/ Start \/ Resume \/ Ask \/ Leave
    \/ TurnStep
    \/ \E c \in Calls : Return(c) \/ ThreadEnds(c)
    \/ Interrupt
    \/ Crash
    \/ Edit

\* The event loop runs, the provider answers or its request times out, and so
\* does every tool.
SessionSpec ==
    SessionInit /\ [][SessionNext]_sessionVars /\ WF_sessionVars(TurnStep)

-----------------------------------------------------------------------------
\* The process, the file and the world have the shape of the code's.
SessionTypeOK ==
    /\ pc \in {"off", "prompt", "leaving", "stream", "noted", "declare", "execute"}
    /\ mode \in Modes /\ serial \in BOOLEAN
    /\ history \in Seq(Messages) /\ iter \in 0..MaxIterations
    /\ \A s \in {todo, waiting, awaited, got, pending, succeeded, owed} :
          s \subseteq 1..Asked
    /\ awaited \cap got = {} /\ awaited \cup got \subseteq waiting
    /\ namespace \in Nat /\ receipt \in BOOLEAN /\ replay \in BOOLEAN
    /\ saved \in [exists : BOOLEAN, history : Seq(Messages), pending : SUBSET Calls,
                  namespace : Nat, receipt : BOOLEAN]
    /\ kind \in Seq({"write", "delegate"})
    /\ tries \in [Calls -> 0..MaxTries] /\ threads \in [Calls -> 0..MaxTries]
    /\ file \in {"base", "mine", "edited"}
    /\ launched \subseteq Nat
    /\ restored \in 0..Len(history)
    /\ inputs \in 0..MaxInputs /\ crashes \in 0..MaxCrashes

\* A request the provider accepts: every result follows the assistant message
\* that declares it, every call declared is followed by its result, and the
\* model does not speak between them.
Paired(r) ==
    /\ \A i \in DOMAIN r : r[i].role = "tool" =>
          \E j \in 1..(i - 1) :
             /\ Declares(r[j]) /\ r[i].calls \subseteq r[j].calls
             /\ \A k \in (j + 1)..(i - 1) : r[k].role # "assistant"
    /\ \A j \in DOMAIN r : Declares(r[j]) =>
          \A c \in r[j].calls : \E i \in (j + 1)..Len(r) : r[i] = Result(c)

\* Whatever interrupted the turns before, wherever the history is cut, and
\* whichever process went on with it, the provider accepts the request
\* (_drop_orphan_tool_messages: it answers 400 otherwise and the session
\* crashes).
RequestPaired == \A n \in 0..Len(history) : Paired(Request(n))

\* No effect is lost to the conversation: of every call that was begun the
\* file has the result, or says that it is unknown, unless somebody who saw
\* the interruption went on in spite of it.  It holds through kills, failed
\* saves, timeouts and pauses (restore_session: they are not repeated
\* automatically).
EffectsAccounted ==
    \A c \in owed :
        c \in saved.pending \cup Resulted(saved.history)

\* The same delegation has the same identity in every process of the
\* conversation, so that the journal of the collaborators (CliDelegate) runs
\* it once however often the model asks for it: the namespace is in the file
\* before the first launch.
OneDelegationIdentity == Cardinality(launched) <= 1

\* A saga never overwrites what somebody changed while it rested by a write
\* that its history already reports as done (the receipts are saved together
\* with the results).
Reported == succeeded \cap Resulted(SubSeq(history, 1, restored))
EditsKept ==
    [][(mode = "task" /\ file = "edited" /\ file' = "mine") => Reported = {}]_sessionVars

\* Every turn ends, with an answer, an interruption or the process, also if
\* no tool ever returns and the model never stops to ask for one.
TurnsEnd == InTurn ~> ~InTurn
=============================================================================
