---------------------------- MODULE CliDelegate -----------------------------
(***************************************************************************)
(* Delegation to a command-line collaborator: _run_tracked of              *)
(* lilith_tools/cli_delegate.py over the SQLite journal of                 *)
(* lilith_tools/cli_job_journal.py.                                        *)
(*                                                                         *)
(* A call saves its intent (reserve), starts the operator's wrapper, waits *)
(* for it with a timeout and saves what it saw (finish).  Each journal     *)
(* operation is one transaction; everything else interleaves with other    *)
(* callers, which may be threads of one agent or other processes, and a    *)
(* caller may die between any two steps.  The job the wrapper starts       *)
(* outlives the caller: a timeout ends the observation, not the job.       *)
(*                                                                         *)
(* Not modelled: a wrapper that is not configured (the call returns before *)
(* the journal is touched), the recovery context copied out of the output, *)
(* and the read-only views recent and lookup.                              *)
(***************************************************************************)
EXTENDS Naturals

CONSTANTS
    Callers,        \* whoever may be inside _run_tracked
    Requests,       \* request ids
    NoRequest,      \* request_id is None: the call goes through begin
    Intents,        \* agent, task, timeout and context, as hashed by reserve
    References,     \* uuids a call may draw: the bound on calls that launch
    NoReference,
    NoBinding       \* no row for that request id in table requests

VARIABLES
    attempts,       \* table attempts: reference -> observation column
    requests,       \* table requests: request id -> intent and reference
    calls,          \* caller -> where its call of _run_tracked is
    workers,        \* reference -> the external job started for it
    launches        \* history: request id -> jobs started under it

journalVars == <<attempts, requests>>
cliVars     == <<attempts, requests, calls, workers, launches>>

\* The statuses finish accepts ("failed" stands for needs_prime too);
\* "unlaunched" is the result without a status
\* that _run_wrapper returns when the launcher could not be started.
Observations == {"ok", "failed", "unconfirmed", "timeout", "unlaunched"}
Refusals     == {"existing", "rejected", "unavailable", "unsaved"}

Binding == [intent : Intents, reference : References]
Call    == [pc        : {"idle", "reserved", "running", "observed", "answered"},
            request   : Requests \cup {NoRequest},
            reference : References \cup {NoReference},
            said      : Observations \cup Refusals \cup {"nothing"}]

Idle == [pc |-> "idle", request |-> NoRequest, reference |-> NoReference,
         said |-> "nothing"]

ASSUME CliConstants ==
    /\ NoRequest \notin Requests
    /\ NoReference \notin References
    /\ NoBinding \notin Binding

At(c, pc) == calls[c].pc = pc

CliInit ==
    /\ attempts = [r \in References |-> "unsaved"]
    /\ requests = [q \in Requests |-> NoBinding]
    /\ calls = [c \in Callers |-> Idle]
    /\ workers = [r \in References |-> "none"]
    /\ launches = [q \in Requests |-> 0]

-----------------------------------------------------------------------------
Answer(c, q, r, what) ==
    calls' = [calls EXCEPT ![c] =
        [pc |-> "answered", request |-> q, reference |-> r, said |-> what]]

\* Mutant: the row of the request id is not looked up.
NeverBound(q) == FALSE

Bound(q) == q \in Requests /\ requests[q] # NoBinding

\* reserve, of a request id that is new or absent: both rows in one
\* transaction, and the caller goes on to launch.
Reserve(c, q, i, r) ==
    /\ At(c, "idle")
    /\ ~Bound(q)
    /\ attempts[r] = "unsaved"
    /\ attempts' = [attempts EXCEPT ![r] = "unknown"]
    /\ requests' = [p \in Requests |->
            IF p = q THEN [intent |-> i, reference |-> r] ELSE requests[p]]
    /\ calls' = [calls EXCEPT ![c] = [pc |-> "reserved", request |-> q,
                                      reference |-> r, said |-> "nothing"]]
    /\ UNCHANGED <<workers, launches>>

\* Mutant: the caller that finds its request recorded joins the attempt.
RepeatJoins(c, q, i) ==
    /\ At(c, "idle")
    /\ Bound(q)
    /\ requests[q].intent = i
    /\ calls' = [calls EXCEPT ![c] = [pc |-> "reserved", request |-> q,
                    reference |-> requests[q].reference, said |-> "nothing"]]
    /\ UNCHANGED <<journalVars, workers, launches>>

\* reserve, of a request id already recorded for the same intent.
Repeat(c, q, i) ==
    /\ At(c, "idle")
    /\ Bound(q)
    /\ requests[q].intent = i
    /\ Answer(c, q, requests[q].reference, "existing")
    /\ UNCHANGED <<journalVars, workers, launches>>

\* reserve, of a request id recorded for something else.
Reject(c, q, i) ==
    /\ At(c, "idle")
    /\ Bound(q)
    /\ requests[q].intent # i
    /\ Answer(c, q, NoReference, "rejected")
    /\ UNCHANGED <<journalVars, workers, launches>>

\* Mutant: the call goes on under a reference that could not be saved.
UnavailableLaunches(c, q) ==
    /\ At(c, "idle")
    /\ \E r \in References :
        /\ attempts[r] = "unsaved"
        /\ calls' = [calls EXCEPT ![c] = [pc |-> "reserved", request |-> q,
                                          reference |-> r, said |-> "nothing"]]
    /\ UNCHANGED <<journalVars, workers, launches>>

\* reserve raises: the intent is not saved and no worker is launched.
Unavailable(c, q) ==
    /\ At(c, "idle")
    /\ Answer(c, q, NoReference, "unavailable")
    /\ UNCHANGED <<journalVars, workers, launches>>

Launch(c) ==
    LET q == calls[c].request
        r == calls[c].reference
    IN  /\ At(c, "reserved")
        /\ calls' = [calls EXCEPT ![c].pc = "running"]
        /\ workers' = [workers EXCEPT ![r] = "running"]
        /\ launches' = [p \in Requests |->
                IF p = q THEN launches[p] + 1 ELSE launches[p]]
        /\ UNCHANGED journalVars

See(c, what) ==
    calls' = [calls EXCEPT ![c].pc = "observed", ![c].said = what]

\* The launcher raises OSError: there is no job.
LaunchFails(c) ==
    /\ At(c, "reserved")
    /\ See(c, "unlaunched")
    /\ UNCHANGED <<journalVars, workers, launches>>

\* Mutant: the exit status of the launcher is taken for that of the job.
ObserveLauncher(c, what) ==
    /\ At(c, "running")
    /\ See(c, what)
    /\ UNCHANGED <<journalVars, workers, launches>>

\* _run_wrapper returns.  Success takes the completion marker of the job
\* with exit 0; every other result says nothing certain about the job: the
\* launcher may fail, lose the marker or time out whatever the job does.
Observe(c, what) ==
    /\ At(c, "running")
    /\ what = "ok" => workers[calls[c].reference] = "done"
    /\ See(c, what)
    /\ UNCHANGED <<journalVars, workers, launches>>

Unobserved(r) == attempts[r] = "unknown"

\* finish: writes the observation unless the row has one already.
Finish(c) ==
    LET r == calls[c].reference
    IN  /\ At(c, "observed")
        /\ IF Unobserved(r)
             THEN /\ attempts' = [attempts EXCEPT ![r] = calls[c].said]
                  /\ calls' = [calls EXCEPT ![c].pc = "answered"]
             ELSE /\ calls' = [calls EXCEPT ![c].pc = "answered",
                                            ![c].said = "unsaved"]
                  /\ UNCHANGED attempts
        /\ UNCHANGED <<requests, workers, launches>>

\* finish raises: the reference keeps an empty observation.
FinishFails(c) ==
    /\ At(c, "observed")
    /\ calls' = [calls EXCEPT ![c].pc = "answered", ![c].said = "unsaved"]
    /\ UNCHANGED <<journalVars, workers, launches>>

Return(c) ==
    /\ At(c, "answered")
    /\ calls' = [calls EXCEPT ![c] = Idle]
    /\ UNCHANGED <<journalVars, workers, launches>>

\* The caller's process dies.
CallerDies(c) ==
    /\ ~At(c, "idle")
    /\ calls' = [calls EXCEPT ![c] = Idle]
    /\ UNCHANGED <<journalVars, workers, launches>>

WorkerEnds(r, how) ==
    /\ workers[r] = "running"
    /\ workers' = [workers EXCEPT ![r] = how]
    /\ UNCHANGED <<journalVars, calls, launches>>

-----------------------------------------------------------------------------
Ask(c) ==
    \E q \in Requests \cup {NoRequest} :
        \/ Unavailable(c, q)
        \/ \E i \in Intents :
            \/ \E r \in References : Reserve(c, q, i, r)
            \/ Repeat(c, q, i)
            \/ Reject(c, q, i)

\* The rest of a call, once it has asked the journal.
Work(c) ==
    \/ Launch(c)
    \/ LaunchFails(c)
    \/ \E s \in Observations \ {"unlaunched"} : Observe(c, s)
    \/ Finish(c)
    \/ FinishFails(c)

World == \E r \in References, how \in {"done", "failed"} : WorkerEnds(r, how)

CliNext ==
    \/ \E c \in Callers : Ask(c) \/ Work(c) \/ Return(c) \/ CallerDies(c)
    \/ World

CliSpec == CliInit /\ [][CliNext]_cliVars

-----------------------------------------------------------------------------
\* The two tables, the calls and the jobs have the shape of the code's.
CliTypeOK ==
    /\ attempts \in [References -> Observations \cup {"unsaved", "unknown"}]
    /\ requests \in [Requests -> Binding \cup {NoBinding}]
    /\ calls \in [Callers -> Call]
    /\ workers \in [References -> {"none", "running", "done", "failed"}]
    /\ launches \in [Requests -> Nat]

\* However callers with one request id overlap, die and come back, at most
\* one job is ever started for it (README: reusing it "returns the existing
\* reference without dispatch").
RequestRunsOnce == \A q \in Requests : launches[q] <= 1

\* No job exists whose reference was not saved first (README: "failure to
\* save intent blocks launch"), so a job is always findable after a crash.
LaunchSaved == \A r \in References : workers[r] # "none" => attempts[r] # "unsaved"

\* The journal says "ok" only of a job that did end well: no timeout, lost
\* marker or dead launcher is recorded as success.
ObservationTrue == \A r \in References : attempts[r] = "ok" => workers[r] = "done"

\* Each reference has one caller that may still write its observation:
\* finish never finds the row written by somebody else.
OneWriter ==
    \A c, d \in Callers :
        (/\ c # d
         /\ calls[c].pc \in {"reserved", "running", "observed"}
         /\ calls[d].pc \in {"reserved", "running", "observed"})
            => calls[c].reference # calls[d].reference

\* The journal can be trusted after any crash: no job is missing from it, no
\* success in it is wrong, no row of it has two writers.
JournalSound == LaunchSaved /\ ObservationTrue /\ OneWriter

\* The journal implements a request id that works at most once.
Phase(q) ==
    IF requests[q] = NoBinding THEN "free"
    ELSE IF attempts[requests[q].reference] # "unknown" THEN "settled"
    ELSE IF launches[q] > 0 THEN "started" ELSE "taken"

Verdict(q) ==
    IF Phase(q) = "settled" THEN attempts[requests[q].reference] ELSE "none"

Once == INSTANCE AtMostOnce WITH
            Verdicts  <- Observations,
            NoVerdict <- "none",
            phase     <- [q \in Requests |-> Phase(q)],
            verdict   <- [q \in Requests |-> Verdict(q)]

\* Every behaviour of the callers and of the journal is one that AtMostOnce
\* allows.
WorksAtMostOnce == Once!Spec
=============================================================================
