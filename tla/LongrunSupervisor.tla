-------------------------- MODULE LongrunSupervisor --------------------------
(***************************************************************************)
(* A guarded run of lilith_cli/longrun: supervise of supervisor.py starts   *)
(* one leg of the mission after the other, each a process that goes on with *)
(* the session of the one before, until it is verified or must stop.        *)
(*                                                                         *)
(* It is meant to outlive its own process.  What it knows is in three files *)
(* that it writes one after the other: consumed.json (the budget spent),    *)
(* state.json (session, causes of failure, parking, the verdict) and the    *)
(* journal, to which a death in the middle of a line leaves a torn tail.    *)
(* The leg is a child that the death of the supervisor does not end.        *)
(*                                                                         *)
(* One supervisor at a time.  Time is counted in parking chunks; the budget *)
(* of tokens and the one of money are one here, spent or not.               *)
(***************************************************************************)
EXTENDS Integers

CONSTANTS
    MaxLegs,        \* budget.max_legs
    Deadline,       \* budget.max_wall_seconds
    Causes,         \* signatures of failures
    MaxCrashes      \* bound: supervisors that die

ASSUME LongrunConstants ==
    /\ MaxLegs \in Nat \ {0} /\ Deadline \in Nat \ {0} /\ MaxCrashes \in Nat
    /\ "none" \notin Causes

VARIABLES
    pc,         \* where supervise is
    now,
    cancel,     \* control.json asks to stop
    state,      \* the supervisor's copy of state.json
    consumed,   \* and of consumed.json
    leg,        \* what the last leg reported
    stateFile, consumedFile,
    journal,    \* how many entries of each kind can be read, and its tail
    unknown,    \* sessions whose file has tools with an unknown result
    orphans,    \* sessions of legs whose supervisor is dead

    launched,   \* legs started
    late,       \* those started after the request to stop
    failed,     \* cause -> legs that failed of it
    dropped,    \* sessions given up
    crashes

memory == <<state, consumed, leg>>
files == <<stateFile, consumedFile, journal>>
ledger == <<launched, late, failed, dropped, crashes>>
longrunVars == <<pc, now, cancel, memory, files, unknown, orphans, ledger>>

Sessions == 1..(MaxLegs + MaxCrashes)
Verdicts == {"presupuesto", "parada_solicitada", "terminado", "decision_ajena",
             "irreversible", "misma_causa_dos_veces"}
NoCause == "none"
Times == 0..(Deadline + 1)

NoState == [session |-> 0, signatures |-> {}, park_until |-> 0, stopped |-> "no"]
NoLeg == [kind |-> "ok", session |-> 0, cause |-> NoCause]

LongrunInit ==
    /\ pc = "down" /\ now = 0 /\ cancel = FALSE
    /\ state = NoState /\ stateFile = NoState
    /\ consumed = [legs |-> 0, spent |-> FALSE]
    /\ consumedFile = [legs |-> 0, spent |-> FALSE]
    /\ leg = NoLeg
    /\ journal = [leg |-> 0, failure |-> 0, escalation |-> 0, torn |-> FALSE]
    /\ unknown = {} /\ orphans = {}
    /\ launched = 0 /\ late = 0 /\ dropped = 0 /\ crashes = 0
    /\ failed = [c \in Causes |-> 0]

-----------------------------------------------------------------------------
\* Mutant: one leg more.
ExhaustedByLegs == now >= Deadline \/ consumed.legs > MaxLegs

exhausted == now >= Deadline \/ consumed.legs >= MaxLegs \/ consumed.spent

\* Journal.append opens the file to add a line at its end: after a torn tail
\* both are one line, which nobody can read.
Appended(kind) == IF journal.torn THEN [journal EXCEPT !.torn = FALSE]
                                  ELSE [journal EXCEPT ![kind] = @ + 1]
append(kind) == journal' = Appended(kind)

Save(s) == state' = s /\ stateFile' = s

\* A verdict is saved before anybody hears of it.
Stop(code) ==
    /\ Save([state EXCEPT !.stopped = code])
    /\ pc' = IF code = "terminado" THEN "down" ELSE "announce"

\* Mutant: the verdict is not looked at.
RestartAnyhow ==
    /\ pc = "down"
    /\ pc' = "top"
    /\ now' \in {t \in Times : t >= now}
    /\ state' = stateFile /\ consumed' = consumedFile
    /\ UNCHANGED <<cancel, leg, files, unknown, orphans, ledger>>

\* supervise is called, for the first time or again; a run that is stopped
\* stays so.
Restart ==
    /\ pc = "down" /\ stateFile.stopped = "no"
    /\ pc' = "top"
    /\ now' \in {t \in Times : t >= now}
    /\ state' = stateFile /\ consumed' = consumedFile
    /\ UNCHANGED <<cancel, leg, files, unknown, orphans, ledger>>

Top ==
    /\ pc = "top"
    /\ CASE cancel    -> Stop("parada_solicitada")
         [] ~cancel /\ exhausted -> Stop("presupuesto")
         [] OTHER     -> pc' = "park" /\ UNCHANGED <<state, stateFile>>
    /\ UNCHANGED <<now, cancel, consumed, leg, consumedFile, journal, unknown,
                   orphans, ledger>>

Parked == state.park_until > now /\ now < Deadline

\* It sleeps in chunks, and asks for the operator's request after each.
Sleep ==
    /\ pc = "park" /\ Parked
    /\ now' = now + 1
    /\ IF cancel THEN Stop("parada_solicitada")
                 ELSE UNCHANGED <<pc, state, stateFile>>
    /\ UNCHANGED <<cancel, consumed, leg, consumedFile, journal, unknown, orphans, ledger>>

\* The end of the parking is not saved.
Unpark ==
    /\ pc = "park" /\ ~Parked
    /\ state' = [state EXCEPT !.park_until = 0]
    /\ pc' = "check"
    /\ UNCHANGED <<now, cancel, consumed, leg, files, unknown, orphans, ledger>>

\* The budget again; then, with the provider's circuit open, back to park: if
\* its deadline is past (now stands for all of those) there is nothing to wait
\* for, and the loop turns without a rest until a while later.
Check ==
    /\ pc = "check"
    /\ \/ exhausted /\ Stop("presupuesto") /\ UNCHANGED now
       \/ /\ ~exhausted
          /\ \E until \in now..(Deadline + 1) :
                /\ Save([state EXCEPT !.park_until = until])
                /\ now' = IF until > now THEN now ELSE now + 1
          /\ pc' = "top"
       \/ /\ ~exhausted
          /\ pc' = "ready" /\ UNCHANGED <<now, state, stateFile>>
    /\ UNCHANGED <<cancel, consumed, leg, consumedFile, journal, unknown,
                   orphans, ledger>>

\* A session with unknown results is recorded as a failure ...
Inspect ==
    /\ pc = "ready"
    /\ IF state.session \in unknown
         THEN append("failure") /\ pc' = "drop"
         ELSE UNCHANGED journal /\ pc' = "launch"
    /\ UNCHANGED <<now, cancel, memory, stateFile, consumedFile, unknown, orphans, ledger>>

\* ... and given up.
Drop ==
    /\ pc = "drop"
    /\ Save([state EXCEPT !.session = 0])
    /\ dropped' = dropped + 1
    /\ pc' = "launch"
    /\ UNCHANGED <<now, cancel, consumed, leg, consumedFile, journal, unknown, orphans,
                   launched, late, failed, crashes>>

\* run_leg starts the process and waits for it.
Launch ==
    /\ pc = "launch"
    /\ launched' = launched + 1
    /\ late' = IF cancel THEN late + 1 ELSE late
    /\ pc' = "leg"
    /\ UNCHANGED <<now, cancel, memory, files, unknown, orphans, failed, dropped, crashes>>

\* The session of the leg that runs: a leg without one begins its own.
Current == IF state.session # 0 THEN state.session ELSE launched

\* What classify makes of the leg's last line.  A leg that crashes, or that
\* refuses the session because an orphan has begun a tool since, has none.
Reports ==
    LET failures == {[kind |-> "transient", session |-> s, cause |-> c] :
                        s \in {0, Current}, c \in Causes}
        others == [kind : {"ok", "quota", "decision", "irreversible"},
                   session : {Current}, cause : {NoCause}]
    IN  IF Current \in unknown THEN {r \in failures : r.session = 0}
                               ELSE failures \cup others

LegEnds ==
    /\ pc = "leg"
    /\ leg' \in Reports
    /\ now' \in {t \in Times : t >= now}
    /\ unknown' \in {unknown, unknown \cup {Current}}
    /\ failed' = IF leg'.cause = NoCause THEN failed
                                         ELSE [failed EXCEPT ![leg'.cause] = @ + 1]
    /\ \E more \in {consumed.spent, TRUE} :
            consumed' = [legs |-> consumed.legs + 1, spent |-> more]
    /\ pc' = "ended"
    /\ UNCHANGED <<cancel, state, files, orphans, launched, late, dropped, crashes>>

\* Mutant: the budget is saved with the verdict.
SaveNothing ==
    /\ pc = "ended"
    /\ pc' = "log"
    /\ UNCHANGED <<now, cancel, memory, files, unknown, orphans, ledger>>

SaveConsumed ==
    /\ pc = "ended"
    /\ consumedFile' = consumed
    /\ pc' = "log"
    /\ UNCHANGED <<now, cancel, memory, stateFile, journal, unknown, orphans, ledger>>

\* The session is in memory; it is saved with what is decided.
Log ==
    /\ pc = "log"
    /\ state' = [state EXCEPT !.session = IF leg.session # 0 THEN leg.session ELSE @]
    /\ append("leg")
    /\ pc' = "decide"
    /\ UNCHANGED <<now, cancel, consumed, leg, stateFile, consumedFile, unknown, orphans,
                   ledger>>

Decide ==
    /\ pc = "decide"
    /\ CASE leg.kind = "ok"           -> Stop("terminado")
         [] leg.kind = "decision"     -> Stop("decision_ajena")
         [] leg.kind = "irreversible" -> Stop("irreversible")
         [] leg.kind = "quota" ->
               /\ \E until \in {t \in Times : t >= now} :
                     Save([state EXCEPT !.park_until = until])
               /\ pc' = "top"
         [] leg.kind = "transient" ->
               IF leg.cause \in state.signatures
                 THEN Stop("misma_causa_dos_veces")
                 ELSE /\ Save([state EXCEPT !.signatures = @ \cup {leg.cause}])
                      /\ pc' = "top"
    /\ leg' = NoLeg
    /\ UNCHANGED <<now, cancel, consumed, consumedFile, journal, unknown, orphans,
                   ledger>>

\* The journal, the report and the hook hear of the verdict.
Announce ==
    /\ pc = "announce"
    /\ append("escalation")
    /\ pc' = "down"
    /\ UNCHANGED <<now, cancel, memory, stateFile, consumedFile, unknown, orphans, ledger>>

-----------------------------------------------------------------------------
\* The operator asks to stop, through control.json, at any time.
Cancel ==
    /\ ~cancel /\ cancel' = TRUE
    /\ UNCHANGED <<pc, now, memory, files, unknown, orphans, ledger>>

\* The entry that is being written, if any.
Writing == CASE pc = "log"      -> {"leg"}
             [] pc = "announce" -> {"escalation"}
             [] pc = "ready"    -> IF state.session \in unknown THEN {"failure"} ELSE {}
             [] OTHER           -> {}

\* The supervisor dies, perhaps before, in the middle of or after a line.
Crash ==
    /\ pc # "down" /\ crashes < MaxCrashes
    /\ crashes' = crashes + 1
    /\ pc' = "down"
    /\ state' = NoState /\ leg' = NoLeg /\ consumed' = [legs |-> 0, spent |-> FALSE]
    /\ orphans' = IF pc = "leg" THEN orphans \cup {Current} ELSE orphans
    /\ journal' \in {journal} \cup UNION {{[journal EXCEPT !.torn = TRUE], Appended(k)} :
                                           k \in Writing}
    /\ UNCHANGED <<now, cancel, stateFile, consumedFile, unknown, launched, late, failed,
                   dropped>>

\* A leg that nobody waits for begins a tool, has its result, or ends.
Orphan(s) ==
    /\ s \in orphans
    /\ \/ unknown' \in {unknown \cup {s}, unknown \ {s}} /\ UNCHANGED orphans
       \/ orphans' = orphans \ {s} /\ UNCHANGED unknown
    /\ UNCHANGED <<pc, now, cancel, memory, files, ledger>>

-----------------------------------------------------------------------------
Supervise ==
    \/ Top \/ Sleep \/ Unpark \/ Check \/ Inspect \/ Drop \/ Launch
    \/ LegEnds \/ SaveConsumed \/ Log \/ Decide \/ Announce

LongrunNext ==
    \/ Restart \/ Supervise \/ Cancel \/ Crash
    \/ \E s \in orphans : Orphan(s)

\* The loop goes on, and a leg ends: it is a process with a bounded number of
\* iterations and timeouts of its own.
LongrunSpec == LongrunInit /\ [][LongrunNext]_longrunVars /\ WF_longrunVars(Supervise)

-----------------------------------------------------------------------------
InFlight(where) == IF pc \in where THEN 1 ELSE 0

\* The budget outlives the process, but for one leg with each death; a leg is
\* not started twice after the operator asked to stop; and a cause that has
\* come twice stops the run, unless a death made it forget the first time.
LegsBounded ==
    /\ launched <= MaxLegs + crashes
    /\ late <= 1 + crashes
    /\ \A c \in Causes : failed[c] <= 2 + crashes

\* The files agree with each other, and with what happened, but for what a
\* death takes with it: one leg between its launch and consumed.json, and two
\* entries of the journal, the one in the making and the one that is joined
\* to its torn line.  A session is not given up, and a run not stopped,
\* without an entry.
RecordKept ==
    /\ launched - consumedFile.legs <= crashes + InFlight({"leg", "ended"})
    /\ consumedFile.legs - journal.leg <= 2 * crashes + InFlight({"log"})
    /\ dropped - journal.failure <= crashes
    /\ (pc = "down" /\ stateFile.stopped \notin {"no", "terminado"})
            => journal.escalation + crashes >= 1

\* A verdict is final: nobody restarts a run that is stopped, and no verdict
\* replaces another; and the supervisor returns in the end, also with a
\* provider that is always out, or refuses every leg.
VerdictStands ==
    stateFile.stopped # "no" => launched' = launched /\ stateFile' = stateFile
RunEnds ==
    /\ [][VerdictStands]_longrunVars
    /\ (pc # "down") ~> (pc = "down")
=============================================================================
