--------------------------- MODULE DispatchProofs ---------------------------
(***************************************************************************)
(* Proofs about the collaborators' journal and about the dispatches to the *)
(* court that go through it, for any finite number of callers, any request *)
(* ids, keys, intents and references, and any limit of calls.              *)
(*                                                                         *)
(* First the journal: a request id starts at most one job, and the journal *)
(* with its callers implements AtMostOnce.  RequestRunsOnce is not         *)
(* inductive: nothing in it says that the caller about to launch is the    *)
(* one that wrote the binding.  JournalInv adds what reserve establishes   *)
(* and every later step keeps: an active caller owns its reference alone,  *)
(* the row of the reference is still empty, and the binding of its request *)
(* leads to that reference and to no other.                                *)
(*                                                                         *)
(* Then the dispatcher, which drives the same calls and dies in places of  *)
(* its own, over the guarantees of the store and of the journal.           *)
(***************************************************************************)
EXTENDS CourtDispatch, OrchestrationStoreProofs, FiniteSetTheorems, TLAPS

Active(c) == calls[c].pc \in {"reserved", "running", "observed"}

\* What is true of a caller between reserve and finish.
Writing(c) ==
    Active(c) =>
        LET q == calls[c].request
            r == calls[c].reference
        IN  /\ r \in References
            /\ attempts[r] = "unknown"
            /\ q \in Requests =>
                    requests[q] # NoBinding /\ requests[q].reference = r
            /\ \A p \in Requests :
                    (requests[p] # NoBinding /\ requests[p].reference = r) => p = q
            /\ calls[c].pc = "reserved" /\ q \in Requests => launches[q] = 0
            /\ calls[c].pc = "running" =>
                    workers[r] # "none" /\ (q \in Requests => launches[q] = 1)
            /\ calls[c].pc = "observed" => calls[c].said \in Observations
            /\ calls[c].pc = "observed" /\ calls[c].said = "ok" =>
                    workers[r] = "done" /\ (q \in Requests => launches[q] = 1)

\* What is true of a request id.
Binds(q) ==
    /\ launches[q] \in {0, 1}
    /\ launches[q] = 1 => requests[q] # NoBinding
    /\ requests[q] # NoBinding => attempts[requests[q].reference] # "unsaved"
    /\ \A p \in Requests :
        (/\ requests[p] # NoBinding
         /\ requests[q] # NoBinding
         /\ requests[p].reference = requests[q].reference) => p = q

JournalInv ==
    /\ CliTypeOK
    /\ \A c \in Callers : Writing(c)
    /\ OneWriter
    /\ \A q \in Requests : Binds(q)
    /\ LaunchSaved
    /\ ObservationTrue

-----------------------------------------------------------------------------
(* The steps that only move a caller out of the active part of its call:   *)
(* Repeat, Reject, Unavailable, FinishFails, Return and CallerDies.        *)

\* A caller that stops being active disturbs nothing that JournalInv says.
LEMMA Leaves ==
    ASSUME JournalInv, NEW c \in Callers, NEW x \in Call,
           x.pc \in {"idle", "answered"},
           calls' = [calls EXCEPT ![c] = x],
           UNCHANGED <<journalVars, workers, launches>>
    PROVE  JournalInv'
<1> USE DEF JournalInv, journalVars
<1>1. CliTypeOK'
  BY DEF CliTypeOK
<1>2. ASSUME NEW d \in Callers PROVE Writing(d)' /\ (Active(d)' => Active(d) /\ calls'[d] = calls[d])
  BY <1>2 DEF CliTypeOK, Writing, Active
<1>3. (\A d \in Callers : Writing(d))'
  BY <1>2
<1>4. OneWriter'
  BY <1>2 DEF OneWriter, Active
<1>5. (\A q \in Requests : Binds(q))' /\ LaunchSaved' /\ ObservationTrue'
  BY DEF Binds, LaunchSaved, ObservationTrue
<1> QED
  BY <1>1, <1>3, <1>4, <1>5

LEMMA CallShape ==
    ASSUME CliTypeOK, NEW c \in Callers
    PROVE  /\ Idle \in Call
           /\ \A q \in Requests \cup {NoRequest},
                 r \in References \cup {NoReference},
                 w \in Observations \cup Refusals :
                [pc |-> "answered", request |-> q, reference |-> r, said |-> w] \in Call
           /\ \A w \in Observations \cup Refusals :
                [calls[c] EXCEPT !.pc = "answered", !.said = w] \in Call
  BY DEF CliTypeOK, Idle, Call

\* The initial tables are empty and every caller is idle.
LEMMA CliInitInv == CliInit => JournalInv
  BY CliConstants DEF CliInit, JournalInv, CliTypeOK, Writing, Active, OneWriter, Binds,
     LaunchSaved, ObservationTrue, Idle, Call, Observations

\* reserve of a request that is new or absent: the reference drawn is saved
\* by nobody, so no caller uses it and no request is bound to it.
LEMMA ReserveStep ==
    ASSUME JournalInv, NEW c \in Callers, NEW q \in Requests \cup {NoRequest},
           NEW i \in Intents, NEW r \in References, Reserve(c, q, i, r)
    PROVE  JournalInv'
<1> DEFINE x == [pc |-> "reserved", request |-> q, reference |-> r, said |-> "nothing"]
           b == [intent |-> i, reference |-> r]
<1> USE DEF JournalInv
<1>1. /\ x \in Call /\ b \in Binding /\ b # NoBinding
      /\ attempts[r] = "unsaved" /\ ~Bound(q)
      /\ calls' = [calls EXCEPT ![c] = x]
      /\ attempts' = [attempts EXCEPT ![r] = "unknown"]
      /\ requests' = [p \in Requests |-> IF p = q THEN b ELSE requests[p]]
      /\ workers' = workers /\ launches' = launches
  BY CliConstants DEF Reserve, Call, Binding
<1>2. workers[r] = "none"
  BY <1>1 DEF LaunchSaved
<1>3. \A p \in Requests : requests[p] # NoBinding =>
            p # q /\ requests[p].reference # r
  BY <1>1 DEF Binds, Bound
<1>4. \A d \in Callers : Active(d) => calls[d].reference # r
  BY <1>1 DEF Writing
<1>5. q \in Requests => launches[q] = 0
  BY <1>3 DEF Binds
<1>6. CliTypeOK'
  BY <1>1 DEF CliTypeOK
<1>7. ASSUME NEW d \in Callers PROVE Writing(d)'
  <2>1. CASE d = c
    BY <1>1, <1>3, <1>5, <2>1 DEF Writing, CliTypeOK, Active
  <2>2. CASE d # c
    <3>1. calls'[d] = calls[d]
      BY <1>1, <2>2 DEF CliTypeOK
    <3>2. SUFFICES ASSUME Active(d) PROVE Writing(d)'
      BY <3>1 DEF Active, Writing
    <3>3. calls[d].reference # r /\ calls[d].reference \in References
      BY <1>4, <3>2 DEF Writing
    <3>4. attempts'[calls[d].reference] = attempts[calls[d].reference]
      BY <1>1, <3>3 DEF CliTypeOK
    <3>5. calls[d].request \in Requests => calls[d].request # q
      BY <1>3, <3>2 DEF Writing
    <3> QED
      BY <1>1, <3>1, <3>2, <3>3, <3>4, <3>5 DEF Writing, Active
  <2> QED
    BY <2>1, <2>2
<1>8. OneWriter'
  BY <1>1, <1>4 DEF OneWriter, Active, CliTypeOK
<1>9. ASSUME NEW p \in Requests PROVE Binds(p)'
  BY <1>1, <1>3, <1>5 DEF Binds, CliTypeOK
<1>10. LaunchSaved' /\ ObservationTrue'
  BY <1>1 DEF LaunchSaved, ObservationTrue, CliTypeOK
<1> QED
  BY <1>6, <1>7, <1>8, <1>9, <1>10

\* Launch: the caller is the only one of its request and of its reference.
LEMMA LaunchStep ==
    ASSUME JournalInv, NEW c \in Callers, Launch(c)
    PROVE  JournalInv'
<1> DEFINE q == calls[c].request
           r == calls[c].reference
<1> USE DEF JournalInv
<1>1. /\ Active(c) /\ calls[c].pc = "reserved"
      /\ r \in References /\ attempts[r] = "unknown"
      /\ q \in Requests => launches[q] = 0 /\ requests[q] # NoBinding
                              /\ requests[q].reference = r
      /\ calls' = [calls EXCEPT ![c].pc = "running"]
      /\ workers' = [workers EXCEPT ![r] = "running"]
      /\ launches' = [p \in Requests |->
                IF p = q THEN launches[p] + 1 ELSE launches[p]]
      /\ attempts' = attempts /\ requests' = requests
  BY DEF Launch, Writing, At, Active, journalVars
<1>2. CliTypeOK'
  BY <1>1 DEF CliTypeOK, Call
<1>3. \A d \in Callers : d # c /\ Active(d) =>
            /\ calls[d].reference # r
            /\ calls[d].request \in Requests => calls[d].request # q
  BY <1>1 DEF OneWriter, Active, Writing
<1>4. ASSUME NEW d \in Callers PROVE Writing(d)'
  <2>1. CASE d = c
    BY <1>1, <2>1 DEF Writing, CliTypeOK, Active, Call
  <2>2. CASE d # c
    <3>1. calls'[d] = calls[d]
      BY <1>1, <2>2 DEF CliTypeOK
    <3>2. SUFFICES ASSUME Active(d) PROVE Writing(d)'
      BY <3>1 DEF Active, Writing
    <3> QED
      BY <1>1, <1>3, <2>2, <3>1, <3>2 DEF Writing, Active, CliTypeOK
  <2> QED
    BY <2>1, <2>2
<1>5. OneWriter'
  BY <1>1 DEF OneWriter, Active, CliTypeOK
<1>6. ASSUME NEW p \in Requests PROVE Binds(p)'
  BY <1>1 DEF Binds, CliTypeOK
<1>7. LaunchSaved' /\ ObservationTrue'
  BY <1>1 DEF LaunchSaved, ObservationTrue, CliTypeOK
<1> QED
  BY <1>2, <1>4, <1>5, <1>6, <1>7

\* _run_wrapper returns, with or without a job: only the caller moves.
LEMMA SeeStep ==
    ASSUME JournalInv, NEW c \in Callers, NEW w \in Observations, Active(c),
           w = "ok" => calls[c].pc = "running" /\ workers[calls[c].reference] = "done",
           See(c, w), UNCHANGED <<journalVars, workers, launches>>
    PROVE  JournalInv'
<1> USE DEF JournalInv, journalVars
<1>1. calls' = [calls EXCEPT ![c].pc = "observed", ![c].said = w]
  BY DEF See
<1>2. CliTypeOK'
  <2>1. calls[c] \in Call
    BY DEF CliTypeOK
  <2>2. [calls[c] EXCEPT !.pc = "observed", !.said = w] \in Call
    BY <2>1 DEF Call
  <2>3. calls' = [calls EXCEPT ![c] = [calls[c] EXCEPT !.pc = "observed", !.said = w]]
    BY <1>1, <2>1 DEF Call
  <2> QED
    BY <2>2, <2>3 DEF CliTypeOK
<1>3. ASSUME NEW d \in Callers PROVE Writing(d)'
  <2>1. CASE d = c
    BY <1>1, <2>1 DEF Writing, CliTypeOK, Active, Call
  <2>2. CASE d # c
    BY <1>1, <2>2 DEF Writing, CliTypeOK, Active
  <2> QED
    BY <2>1, <2>2
<1>4. OneWriter'
  BY <1>1 DEF OneWriter, Active, CliTypeOK
<1>5. (\A q \in Requests : Binds(q))' /\ LaunchSaved' /\ ObservationTrue'
  BY DEF Binds, LaunchSaved, ObservationTrue
<1> QED
  BY <1>2, <1>3, <1>4, <1>5

\* finish: the row is still empty, because the caller is its only writer.
LEMMA FinishStep ==
    ASSUME JournalInv, NEW c \in Callers, Finish(c)
    PROVE  JournalInv'
<1> DEFINE r == calls[c].reference
<1> USE DEF JournalInv
<1>1. /\ Active(c) /\ r \in References /\ attempts[r] = "unknown"
      /\ calls[c].said \in Observations
      /\ calls[c].said = "ok" => workers[r] = "done"
      /\ calls' = [calls EXCEPT ![c].pc = "answered"]
      /\ attempts' = [attempts EXCEPT ![r] = calls[c].said]
      /\ requests' = requests /\ workers' = workers /\ launches' = launches
  BY DEF Finish, Unobserved, At, Active, Writing
<1>2. CliTypeOK'
  BY <1>1 DEF CliTypeOK, Call
<1>3. ASSUME NEW d \in Callers PROVE Writing(d)'
  <2>1. CASE d = c
    BY <1>1, <2>1 DEF Writing, CliTypeOK, Active, Call
  <2>2. CASE d # c
    <3>1. calls'[d] = calls[d]
      BY <1>1, <2>2 DEF CliTypeOK
    <3>2. SUFFICES ASSUME Active(d) PROVE Writing(d)'
      BY <3>1 DEF Active, Writing
    <3>3. calls[d].reference # r /\ calls[d].reference \in References
      BY <1>1, <2>2, <3>2 DEF OneWriter, Active, Writing
    <3>4. attempts'[calls[d].reference] = attempts[calls[d].reference]
      BY <1>1, <3>3 DEF CliTypeOK
    <3> QED
      BY <1>1, <3>1, <3>2, <3>4 DEF Writing, Active
  <2> QED
    BY <2>1, <2>2
<1>4. OneWriter'
  BY <1>1 DEF OneWriter, Active, CliTypeOK
<1>5. ASSUME NEW p \in Requests PROVE Binds(p)'
  BY <1>1 DEF Binds, CliTypeOK, Observations
<1>6. LaunchSaved' /\ ObservationTrue'
  BY <1>1 DEF LaunchSaved, ObservationTrue, CliTypeOK, Observations
<1> QED
  BY <1>2, <1>3, <1>4, <1>5, <1>6

\* A job ends on its own: nobody has seen it end well before.
LEMMA WorkerStep ==
    ASSUME JournalInv, NEW r \in References, NEW how \in {"done", "failed"},
           WorkerEnds(r, how)
    PROVE  JournalInv'
<1> USE DEF JournalInv, journalVars
<1>1. /\ workers[r] = "running"
      /\ workers' = [workers EXCEPT ![r] = how]
      /\ attempts' = attempts /\ requests' = requests
      /\ calls' = calls /\ launches' = launches
  BY DEF WorkerEnds
<1>2. CliTypeOK'
  BY <1>1 DEF CliTypeOK
<1>3. ASSUME NEW d \in Callers PROVE Writing(d)'
  BY <1>1 DEF Writing, Active, CliTypeOK
<1>4. OneWriter'
  BY <1>1 DEF OneWriter
<1>5. (\A q \in Requests : Binds(q))'
  BY <1>1 DEF Binds
<1>6. LaunchSaved' /\ ObservationTrue'
  BY <1>1 DEF LaunchSaved, ObservationTrue, CliTypeOK
<1> QED
  BY <1>2, <1>3, <1>4, <1>5, <1>6

-----------------------------------------------------------------------------
LEMMA CliNextInv == JournalInv /\ [CliNext]_cliVars => JournalInv'
<1> SUFFICES ASSUME JournalInv, [CliNext]_cliVars PROVE JournalInv'
  OBVIOUS
<1>0. CliTypeOK
  BY DEF JournalInv
<1>1. ASSUME NEW c \in Callers, Ask(c) PROVE JournalInv'
  <2>1. PICK q \in Requests \cup {NoRequest} :
            \/ Unavailable(c, q)
            \/ \E i \in Intents :
                \/ \E r \in References : Reserve(c, q, i, r)
                \/ Repeat(c, q, i)
                \/ Reject(c, q, i)
    BY <1>1 DEF Ask
  <2>2. CASE \E i \in Intents : \E r \in References : Reserve(c, q, i, r)
    BY <2>2, ReserveStep
  <2>3. CASE Unavailable(c, q)
    BY <1>0, <2>3, CallShape, Leaves DEF Unavailable, Answer, Refusals
  <2>4. ASSUME NEW i \in Intents, Repeat(c, q, i) PROVE JournalInv'
    <3>1. requests[q].reference \in References
      BY <1>0, <2>4 DEF Repeat, Bound, CliTypeOK, Binding
    <3> QED
      BY <1>0, <2>4, <3>1, CallShape, Leaves DEF Repeat, Answer, Refusals
  <2>5. ASSUME NEW i \in Intents, Reject(c, q, i) PROVE JournalInv'
    BY <1>0, <2>5, CallShape, Leaves DEF Reject, Answer, Refusals
  <2> QED
    BY <2>1, <2>2, <2>3, <2>4, <2>5
<1>2. ASSUME NEW c \in Callers, Work(c) PROVE JournalInv'
  <2>1. CASE Launch(c)
    BY <2>1, LaunchStep
  <2>2. CASE LaunchFails(c)
    BY <2>2, SeeStep DEF LaunchFails, At, Active, Observations
  <2>3. ASSUME NEW s \in Observations \ {"unlaunched"}, Observe(c, s) PROVE JournalInv'
    BY <2>3, SeeStep DEF Observe, At, Active
  <2>4. CASE Finish(c)
    BY <2>4, FinishStep
  <2>5. CASE FinishFails(c)
    <3> DEFINE x == [calls[c] EXCEPT !.pc = "answered", !.said = "unsaved"]
    <3>1. x \in Call
      BY <1>0, CallShape DEF Refusals
    <3>2. calls[c] \in Call
      BY <1>0 DEF CliTypeOK
    <3>3. x.pc = "answered"
      BY <3>2 DEF Call
    <3>4. calls' = [calls EXCEPT ![c] = x]
      BY <2>5, <3>2 DEF FinishFails, Call
    <3> HIDE DEF x
    <3> QED
      BY <2>5, <3>1, <3>3, <3>4, Leaves DEF FinishFails
  <2> QED
    BY <1>2, <2>1, <2>2, <2>3, <2>4, <2>5 DEF Work
<1>3. ASSUME NEW c \in Callers, Return(c) \/ CallerDies(c) PROVE JournalInv'
  BY <1>0, <1>3, CallShape, Leaves DEF Return, CallerDies, Idle
<1>4. CASE World
  BY <1>4, WorkerStep DEF World
<1>5. CASE UNCHANGED cliVars
  BY <1>5 DEF cliVars, JournalInv, CliTypeOK, Writing, Active, OneWriter, Binds,
     LaunchSaved, ObservationTrue
<1> QED
  BY <1>1, <1>2, <1>3, <1>4, <1>5 DEF CliNext

LEMMA JournalInvHolds == CliSpec => []JournalInv
  BY CliInitInv, CliNextInv, PTL DEF CliSpec

\* Every table and every call keeps its shape.
THEOREM CliTypeCorrect == CliSpec => []CliTypeOK
<1>1. JournalInv => CliTypeOK
  BY DEF JournalInv
<1> QED
  BY <1>1, JournalInvHolds, PTL

\* A request id starts at most one job, for any number of callers that use
\* it together, crash and come back.
THEOREM CliRunsOnce == CliSpec => []RequestRunsOnce
<1>1. JournalInv => RequestRunsOnce
  BY DEF JournalInv, Binds, RequestRunsOnce
<1> QED
  BY <1>1, JournalInvHolds, PTL

\* No job is missing from the journal, no success in it is wrong, and no two
\* callers may write one observation.
THEOREM CliJournalSound == CliSpec => []JournalSound
<1>1. JournalInv => JournalSound
  BY DEF JournalInv, JournalSound
<1> QED
  BY <1>1, JournalInvHolds, PTL

-----------------------------------------------------------------------------
(* The journal implements AtMostOnce: reserve of a request id takes it,    *)
(* Launch starts it, finish settles it, and every other step stutters.     *)

OnceVars == <<[q \in Requests |-> Phase(q)], [q \in Requests |-> Verdict(q)]>>

LEMMA OnceInit == CliInit => Once!Init
  BY DEF CliInit, Once!Init, Phase, Verdict

\* A step that leaves the tables and the history alone is invisible.
LEMMA Invisible ==
    ASSUME UNCHANGED <<attempts, requests, launches>>
    PROVE  UNCHANGED OnceVars
  BY DEF OnceVars, Phase, Verdict

LEMMA ReserveTakes ==
    ASSUME JournalInv, NEW c \in Callers, NEW q \in Requests \cup {NoRequest},
           NEW i \in Intents, NEW r \in References, Reserve(c, q, i, r)
    PROVE  [Once!Next]_OnceVars
<1>1. /\ attempts[r] = "unsaved" /\ ~Bound(q)
      /\ attempts' = [attempts EXCEPT ![r] = "unknown"]
      /\ requests' = [p \in Requests |->
            IF p = q THEN [intent |-> i, reference |-> r] ELSE requests[p]]
      /\ launches' = launches
  BY DEF Reserve
<1>2. ASSUME NEW p \in Requests, p # q
      PROVE  Phase(p)' = Phase(p) /\ Verdict(p)' = Verdict(p)
  <2>1. requests'[p] = requests[p]
    BY <1>1, <1>2
  <2>2. requests[p] # NoBinding =>
            attempts'[requests[p].reference] = attempts[requests[p].reference]
    BY <1>1, <1>2 DEF JournalInv, Binds, CliTypeOK, Binding
  <2> QED
    BY <1>1, <2>1, <2>2 DEF Phase, Verdict
<1>3. CASE q \in Requests
  <2>1. requests'[q] # NoBinding /\ requests'[q].reference = r
    BY <1>1, <1>3, CliConstants DEF Binding
  <2>2. attempts'[r] = "unknown"
    BY <1>1 DEF JournalInv, CliTypeOK
  <2>3. requests[q] = NoBinding /\ launches'[q] = 0
    BY <1>1, <1>3 DEF JournalInv, Binds, Bound
  <2>4. Phase(q) = "free" /\ Phase(q)' = "taken"
    BY <2>1, <2>2, <2>3 DEF Phase
  <2>5. Verdict(q) = "none" /\ Verdict(q)' = "none"
    BY <2>4 DEF Verdict
  <2>6. Once!Take(q)
    BY <1>2, <1>3, <2>4, <2>5 DEF Once!Take, Once!Advance
  <2> QED
    BY <1>3, <2>6 DEF Once!Next
<1>4. CASE q \notin Requests
  BY <1>2, <1>4 DEF OnceVars
<1> QED
  BY <1>3, <1>4

LEMMA LaunchStarts ==
    ASSUME JournalInv, NEW c \in Callers, Launch(c)
    PROVE  [Once!Next]_OnceVars
<1>0. PICK q : q = calls[c].request
  OBVIOUS
<1>1. /\ launches' = [p \in Requests |->
            IF p = q THEN launches[p] + 1 ELSE launches[p]]
      /\ attempts' = attempts /\ requests' = requests
      /\ calls[c].pc = "reserved"
  BY <1>0 DEF Launch, At, journalVars
<1>2. ASSUME NEW p \in Requests, p # q
      PROVE  Phase(p)' = Phase(p) /\ Verdict(p)' = Verdict(p)
  BY <1>1, <1>2 DEF Phase, Verdict
<1>3. CASE q \in Requests
  <2>1. /\ requests[q] # NoBinding /\ attempts[requests[q].reference] = "unknown"
        /\ launches[q] = 0 /\ launches'[q] = 1
    BY <1>0, <1>1, <1>3 DEF JournalInv, Writing, Active
  <2>2. Phase(q) = "taken" /\ Phase(q)' = "started"
    BY <1>1, <2>1 DEF Phase
  <2>3. Verdict(q) = "none" /\ Verdict(q)' = "none"
    BY <2>2 DEF Verdict
  <2>4. Once!Start(q)
    BY <1>2, <1>3, <2>2, <2>3 DEF Once!Start, Once!Advance
  <2> QED
    BY <1>3, <2>4 DEF Once!Next
<1>4. CASE q \notin Requests
  BY <1>2, <1>4 DEF OnceVars
<1> QED
  BY <1>3, <1>4

LEMMA FinishSettles ==
    ASSUME JournalInv, NEW c \in Callers, Finish(c)
    PROVE  [Once!Next]_OnceVars
<1>0. PICK q, r, w :
        q = calls[c].request /\ r = calls[c].reference /\ w = calls[c].said
  OBVIOUS
<1>1. /\ calls[c].pc = "observed" /\ r \in References /\ attempts[r] = "unknown"
      /\ w \in Observations
      /\ attempts' = [attempts EXCEPT ![r] = w]
      /\ requests' = requests /\ launches' = launches
  BY <1>0 DEF JournalInv, Finish, Unobserved, At, Active, Writing
<1>2. ASSUME NEW p \in Requests, p # q
      PROVE  Phase(p)' = Phase(p) /\ Verdict(p)' = Verdict(p)
  <2>1. requests[p] # NoBinding => requests[p].reference # r
    BY <1>0, <1>1, <1>2 DEF JournalInv, Writing, Active
  <2>2. requests[p] # NoBinding =>
            attempts'[requests[p].reference] = attempts[requests[p].reference]
    BY <1>1, <2>1 DEF JournalInv, CliTypeOK, Binding
  <2> QED
    BY <1>1, <2>2 DEF Phase, Verdict
<1>3. CASE q \in Requests
  <2>1. /\ requests[q] # NoBinding /\ requests[q].reference = r
        /\ w = "ok" => launches[q] = 1
    BY <1>0, <1>1, <1>3 DEF JournalInv, Writing, Active
  <2>2. attempts'[r] = w /\ w # "unknown"
    BY <1>1 DEF JournalInv, CliTypeOK, Observations
  <2>3. /\ Phase(q) \in {"taken", "started"} /\ Phase(q)' = "settled"
        /\ w = "ok" => Phase(q) = "started"
    BY <1>1, <2>1, <2>2 DEF Phase
  <2>4. Verdict(q)' = w
    BY <1>1, <2>1, <2>2, <2>3 DEF Verdict
  <2>5. Once!Settle(q, w)
    BY <1>2, <1>3, <2>3, <2>4 DEF Once!Settle, Once!Advance
  <2> QED
    BY <1>1, <1>3, <2>5 DEF Once!Next
<1>4. CASE q \notin Requests
  BY <1>2, <1>4 DEF OnceVars
<1> QED
  BY <1>3, <1>4

LEMMA OnceStep == JournalInv /\ [CliNext]_cliVars => [Once!Next]_OnceVars
<1> SUFFICES ASSUME JournalInv, [CliNext]_cliVars PROVE [Once!Next]_OnceVars
  OBVIOUS
<1>1. ASSUME NEW c \in Callers, Ask(c) PROVE [Once!Next]_OnceVars
  <2>1. CASE \E q \in Requests \cup {NoRequest}, i \in Intents, r \in References :
                Reserve(c, q, i, r)
    BY <2>1, ReserveTakes
  <2>2. CASE \E q \in Requests \cup {NoRequest} :
                \/ Unavailable(c, q)
                \/ \E i \in Intents : Repeat(c, q, i) \/ Reject(c, q, i)
    BY <2>2, Invisible DEF Unavailable, Repeat, Reject, journalVars
  <2> QED
    BY <1>1, <2>1, <2>2 DEF Ask
<1>2. ASSUME NEW c \in Callers, Work(c) PROVE [Once!Next]_OnceVars
  <2>1. CASE Launch(c)
    BY <2>1, LaunchStarts
  <2>2. CASE Finish(c)
    BY <2>2, FinishSettles
  <2>3. CASE \/ LaunchFails(c) \/ FinishFails(c)
             \/ \E s \in Observations \ {"unlaunched"} : Observe(c, s)
    BY <2>3, Invisible DEF LaunchFails, FinishFails, Observe, journalVars
  <2> QED
    BY <1>2, <2>1, <2>2, <2>3 DEF Work
<1>3. CASE \/ \E c \in Callers : Return(c) \/ CallerDies(c)
           \/ World
           \/ UNCHANGED cliVars
  BY <1>3, Invisible DEF Return, CallerDies, World, WorkerEnds, journalVars, cliVars
<1> QED
  BY <1>1, <1>2, <1>3 DEF CliNext

\* For any callers, requests, intents and references, the journal and the
\* calls through it implement a request that works at most once.
THEOREM CliWorksAtMostOnce == CliSpec => WorksAtMostOnce
<1>1. CliSpec => [][Once!Next]_OnceVars
  BY JournalInvHolds, OnceStep, PTL DEF CliSpec
<1>2. CliSpec => Once!Init
  BY OnceInit DEF CliSpec
<1> QED
  BY <1>1, <1>2, PTL DEF WorksAtMostOnce, Once!Spec, OnceVars

-----------------------------------------------------------------------------
(* The dispatches.                                                         *)

\* Where a dispatch can be, and what it carries.
Dispatch == [pc  : {"idle", "allowed", "looked", "added", "cli", "fabric",
                    "spending", "executed", "recorded"},
             key : Requests \cup {NoKey},
             row : TaskIds \cup {NoRow},
             ok  : BOOLEAN]

BudgetInv ==
    /\ dispatches \in [Callers -> Dispatch]
    /\ spent \in Nat
    /\ OverrunBounded

-----------------------------------------------------------------------------
LEMMA SpendersFinite ==
  /\ IsFiniteSet(MayStillSpend)
  /\ Cardinality(MayStillSpend) \in Nat
  /\ Cardinality(MayStillSpend) <= Cardinality(Callers)
  /\ Cardinality(Callers) \in Nat
  BY DispatchConstants, FS_Subset, FS_CardinalityType DEF MayStillSpend

LEMMA SpendersFiniteNext ==
  /\ IsFiniteSet(MayStillSpend')
  /\ Cardinality(MayStillSpend') \in Nat
  /\ Cardinality(MayStillSpend') <= Cardinality(Callers)
  BY DispatchConstants, FS_Subset, FS_CardinalityType DEF MayStillSpend

\* A step that adds no spender and no event leaves the bound alone.
LEMMA FewerSpenders ==
  ASSUME OverrunBounded, spent \in Nat, spent' = spent,
         MayStillSpend' \subseteq MayStillSpend
  PROVE  OverrunBounded'
  <1>1. Cardinality(MayStillSpend') <= Cardinality(MayStillSpend)
    BY SpendersFinite, FS_Subset
  <1> QED
    BY <1>1, SpendersFinite, SpendersFiniteNext, DispatchConstants DEF OverrunBounded

\* A caller that moves within a dispatch, or leaves it, adds no spender.
Spending == {"allowed", "looked", "added", "fabric", "spending"}
LEMMA MoveKeepsBudget ==
  ASSUME BudgetInv, spent' = spent, NEW c \in Callers, NEW d \in Dispatch,
         dispatches' = [dispatches EXCEPT ![c] = d],
         d.pc \in Spending => dispatches[c].pc \in Spending
  PROVE  BudgetInv'
  <1>1. dispatches' \in [Callers -> Dispatch]
    BY DEF BudgetInv
  <1>2. MayStillSpend' \subseteq MayStillSpend
    BY DEF BudgetInv, MayStillSpend, Spending
  <1> QED
    BY <1>1, <1>2, FewerSpenders DEF BudgetInv

LEMMA BudgetInit == DispatchInit => BudgetInv
  <1> SUFFICES ASSUME DispatchInit PROVE BudgetInv
    OBVIOUS
  <1>1. dispatches \in [Callers -> Dispatch] /\ spent = 0
    BY DEF DispatchInit, NoDispatch, Dispatch
  <1>2. MayStillSpend = {}
    BY DEF DispatchInit, NoDispatch, MayStillSpend
  <1> QED
    BY <1>1, <1>2, SpendersFinite, FS_EmptySet, DispatchConstants
    DEF BudgetInv, OverrunBounded

LEMMA BudgetStep == BudgetInv /\ [DispatchNext]_dispatchVars => BudgetInv'
  <1> SUFFICES ASSUME BudgetInv, [DispatchNext]_dispatchVars
               PROVE  BudgetInv'
    OBVIOUS
  <1>0. dispatches \in [Callers -> Dispatch] /\ spent \in Nat /\ OverrunBounded
    BY DEF BudgetInv
  <1>1. ASSUME NEW c \in Callers, NEW k \in Requests, Check(c, k)
        PROVE  BudgetInv'
    <2>1. spent < DailyMaxCalls /\ spent' = spent
      BY <1>1, <1>0, DispatchConstants DEF Check, Reached
    <2>2. dispatches' \in [Callers -> Dispatch]
      BY <1>1, <1>0 DEF Check, NoDispatch, Dispatch
    <2>3. OverrunBounded'
      BY <2>1, <1>0, SpendersFinite, SpendersFiniteNext, DispatchConstants
      DEF OverrunBounded
    <2> QED
      BY <2>1, <2>2, <2>3, <1>0 DEF BudgetInv
  <1>2. ASSUME NEW c \in Callers, RecordCost(c)
        PROVE  BudgetInv'
    <2>1. dispatches' = [dispatches EXCEPT ![c].pc = "executed"] /\ spent' = spent + 1
      BY <1>2 DEF RecordCost, Goto
    <2>2. dispatches' \in [Callers -> Dispatch]
      BY <2>1, <1>0 DEF Dispatch
    <2>3. c \in MayStillSpend /\ MayStillSpend' = MayStillSpend \ {c}
      BY <2>1, <1>2, <1>0 DEF RecordCost, In, MayStillSpend, Dispatch
    <2>4. Cardinality(MayStillSpend') = Cardinality(MayStillSpend) - 1
      BY <2>3, SpendersFinite, FS_RemoveElement
    <2> QED
      BY <2>1, <2>2, <2>4, <1>0, SpendersFinite, DispatchConstants
      DEF BudgetInv, OverrunBounded
  <1>3. ASSUME NEW c \in Callers, Proceed(c), ~RecordCost(c), ~RunCli(c)
        PROVE  BudgetInv'
    <2> DEFINE d == dispatches[c]
    <2>0. d \in Dispatch
      BY <1>0
    <2>1. spent' = spent
      BY <1>3 DEF Proceed, Look, Intend, ExecuteCli, CollectCli,
        ExecuteNothing, ExecuteFabric, FabricReturns, PostMortem, Settle
    <2>2. PICK e \in Dispatch :
            /\ dispatches' = [dispatches EXCEPT ![c] = e]
            /\ e.pc \in Spending => d.pc \in Spending
      <3>1. CASE dispatches' = [dispatches EXCEPT ![c] = NoDispatch]
        <4>1. NoDispatch \in Dispatch /\ NoDispatch.pc \notin Spending
          BY DEF NoDispatch, Dispatch, Spending
        <4> QED
          BY <3>1, <4>1
      <3>2. ASSUME NEW p \in {"looked", "cli", "fabric", "executed", "recorded"},
                   dispatches' = [dispatches EXCEPT ![c].pc = p],
                   p \in Spending => d.pc \in Spending
            PROVE  \E e \in Dispatch :
                     /\ dispatches' = [dispatches EXCEPT ![c] = e]
                     /\ e.pc \in Spending => d.pc \in Spending
        <4>1. [d EXCEPT !.pc = p] \in Dispatch /\ [d EXCEPT !.pc = p].pc = p
          BY <2>0 DEF Dispatch
        <4> QED
          BY <3>2, <4>1
      <3>3. ASSUME NEW p \in {"spending", "executed"}, NEW ok \in BOOLEAN,
                   dispatches' = [dispatches EXCEPT ![c].pc = p, ![c].ok = ok],
                   p \in Spending => d.pc \in Spending
            PROVE  \E e \in Dispatch :
                     /\ dispatches' = [dispatches EXCEPT ![c] = e]
                     /\ e.pc \in Spending => d.pc \in Spending
        <4> DEFINE e == [d EXCEPT !.pc = p, !.ok = ok]
        <4>1. e \in Dispatch /\ e.pc = p
          BY <2>0 DEF Dispatch
        <4>2. dispatches' = [dispatches EXCEPT ![c] = e]
          BY <3>3, <1>0 DEF Dispatch
        <4> QED
          BY <3>3, <4>1, <4>2
      <3>4. CASE Look(c)
        BY <3>1, <3>2, <3>4 DEF Look, In, Goto, Spending
      <3>5. CASE Intend(c)
        <4>1. PICK t \in TaskIds :
                dispatches' = [dispatches EXCEPT ![c].pc = "added", ![c].row = t]
          BY <3>5 DEF Intend, RowsWith
        <4> DEFINE e == [d EXCEPT !.pc = "added", !.row = t]
        <4>2. e \in Dispatch /\ dispatches' = [dispatches EXCEPT ![c] = e]
          BY <2>0, <4>1, <1>0 DEF Dispatch
        <4>3. d.pc \in Spending
          BY <3>5 DEF Intend, In, Spending
        <4> QED
          BY <4>2, <4>3
      <3>6. CASE ExecuteCli(c)
        BY <3>2, <3>6 DEF ExecuteCli, Goto, Spending
      <3>7. CASE CollectCli(c)
        BY <3>3, <3>7 DEF CollectCli, CliSucceeded, Finished, Spending
      <3>8. CASE ExecuteNothing(c)
        BY <3>3, <3>8 DEF ExecuteNothing, Finished, Spending
      <3>9. CASE ExecuteFabric(c)
        BY <3>2, <3>9 DEF ExecuteFabric, In, Goto, Spending
      <3>10. ASSUME NEW ok \in BOOLEAN, FabricReturns(c, ok)
             PROVE  \E e \in Dispatch :
                      /\ dispatches' = [dispatches EXCEPT ![c] = e]
                      /\ e.pc \in Spending => d.pc \in Spending
        BY <3>3, <3>10 DEF FabricReturns, In, Finished, Spending
      <3>11. CASE PostMortem(c)
        BY <3>2, <3>11 DEF PostMortem, Goto, Spending
      <3>12. CASE Settle(c)
        BY <3>1, <3>12 DEF Settle
      <3> QED
        BY <1>3, <3>4, <3>5, <3>6, <3>7, <3>8, <3>9, <3>10, <3>11, <3>12 DEF Proceed
    <2> QED
      BY <2>1, <2>2, MoveKeepsBudget
  <1>4. ASSUME NEW c \in Callers, DispatchDies(c)
        PROVE  BudgetInv'
    <2>1. NoDispatch \in Dispatch /\ NoDispatch.pc \notin Spending
      BY DEF NoDispatch, Dispatch, Spending
    <2> QED
      BY <1>4, <2>1, MoveKeepsBudget DEF DispatchDies
  <1>5. ASSUME UNCHANGED <<dispatches, spent>>
        PROVE  BudgetInv'
    BY <1>5, <1>0 DEF BudgetInv, OverrunBounded, MayStillSpend
  <1>6. ASSUME NEW c \in Callers, RunCli(c)
        PROVE  BudgetInv'
    BY <1>5, <1>6 DEF RunCli
  <1>7. ASSUME NEW t \in TaskIds, OperatorCancels(t)
        PROVE  BudgetInv'
    BY <1>5, <1>7 DEF OperatorCancels
  <1>8. CASE JobEnds
    BY <1>5, <1>8 DEF JobEnds
  <1>9. CASE UNCHANGED dispatchVars
    BY <1>5, <1>9 DEF dispatchVars
  <1> QED
    BY <1>1, <1>2, <1>3, <1>4, <1>6, <1>7, <1>8, <1>9 DEF DispatchNext

\* Nothing reserves the budget between check and record_cost, yet the day's
\* calls exceed the limit by less than the number of callers.
THEOREM DispatchOverrunBounded == DispatchSpec => []OverrunBounded
  <1>1. BudgetInv => OverrunBounded
    BY DEF BudgetInv
  <1> QED
    BY <1>1, BudgetInit, BudgetStep, PTL DEF DispatchSpec
-----------------------------------------------------------------------------
(* The dispatcher uses the store and the journal only through their        *)
(* operations, so what is proved of each holds in the composition.         *)

\* What an agent has decided to do is on record before anybody does it: a
\* dispatch beyond add_task has a task, and a call of _run_tracked belongs to
\* such a dispatch and carries its key.
Intended == {"added", "cli", "fabric", "spending", "executed", "recorded"}
HasTask(c) ==
    dispatches[c].pc \in Intended =>
        /\ dispatches[c].row \in TaskIds
        /\ RowsWith(dispatches[c].key) # {}
CallsForDispatch(c) ==
    calls[c].pc # "idle" =>
        /\ dispatches[c].pc = "cli"
        /\ calls[c].request = dispatches[c].key
HasKey(c) == dispatches[c].pc # "idle" => dispatches[c].key \in Requests

DispatchInv ==
    /\ BudgetInv
    /\ StoreInv
    /\ JournalInv
    /\ \A c \in Callers : HasKey(c) /\ HasTask(c) /\ CallsForDispatch(c)
    /\ IntentFirst

LEMMA DispatchInitInv == DispatchInit => DispatchInv
  <1> SUFFICES ASSUME DispatchInit PROVE DispatchInv
    OBVIOUS
  <1>1. BudgetInv /\ StoreInv /\ JournalInv
    BY BudgetInit, InitSatisfiesInv, CliInitInv DEF DispatchInit
  <1>2. \A c \in Callers : HasKey(c) /\ HasTask(c) /\ CallsForDispatch(c)
    BY DEF DispatchInit, CliInit, NoDispatch, Idle, Intended, HasKey, HasTask,
       CallsForDispatch
  <1>3. IntentFirst
    BY DEF DispatchInit, CliInit, IntentFirst, Started
  <1> QED
    BY <1>1, <1>2, <1>3 DEF DispatchInv

\* What a step of the dispatcher does to the store.
StoreMove ==
    \/ UNCHANGED storeVars
    \/ \E t \in TaskIds, k \in Requests : AddTask(t, k, "delegada")
    \/ \E t \in TaskIds, s \in Terminal : SetStatus(t, s)

LEMMA StepMovesStore ==
  ASSUME DispatchInv, DispatchNext
  PROVE  StoreMove /\ clock' = clock
  <1>0. clock' = clock
    BY DEF DispatchNext
  <1>1. ASSUME NEW c \in Callers, Intend(c)
        PROVE  StoreMove
    BY <1>1 DEF Intend, In, StoreMove, DispatchInv, HasKey
  <1>2. ASSUME NEW c \in Callers, Settle(c)
        PROVE  StoreMove
    <2>1. dispatches[c].row \in TaskIds /\ Outcome(c) \in Terminal
      BY <1>2 DEF Settle, In, DispatchInv, HasTask, Intended, Outcome, Terminal
    <2> QED
      BY <1>2, <2>1 DEF Settle, StoreMove
  <1>3. ASSUME NEW t \in TaskIds, OperatorCancels(t)
        PROVE  StoreMove
    BY <1>3 DEF OperatorCancels, CancelTask, StoreMove, Terminal
  <1>4. ASSUME NEW c \in Callers, Proceed(c), ~Intend(c), ~Settle(c)
        PROVE  StoreMove
    BY <1>4 DEF Proceed, Look, ExecuteCli, RunCli, CollectCli, ExecuteNothing,
       ExecuteFabric, FabricReturns, RecordCost, PostMortem, StoreMove
  <1>5. ASSUME NEW c \in Callers, NEW k \in Requests, Check(c, k)
        PROVE  StoreMove
    BY <1>5 DEF Check, StoreMove
  <1>6. ASSUME NEW c \in Callers, DispatchDies(c)
        PROVE  StoreMove
    BY <1>6 DEF DispatchDies, StoreMove
  <1>7. CASE JobEnds
    BY <1>0, <1>7 DEF JobEnds, StoreMove
  <1> QED
    BY <1>0, <1>1, <1>2, <1>3, <1>4, <1>5, <1>6, <1>7 DEF DispatchNext

\* Every move of the store is one of its operations, and no row goes away.
LEMMA StoreMoveKeeps ==
  ASSUME StoreInv, StoreMove, clock' = clock
  PROVE  /\ StoreInv'
         /\ \A k : RowsWith(k) \subseteq RowsWith(k)'
  <1>0. /\ tasks \in [TaskIds -> Task \cup {NoTask}]
        /\ \A t \in TaskIds : Exists(t) => tasks[t].attempts \in Nat
    BY DEF StoreInv, StoreTypeOK, Exists, Task
  <1>1. CASE UNCHANGED storeVars
    <2>1. UNCHANGED svars
      BY <1>1 DEF svars
    <2> QED
      BY <2>1, <1>1, StepKeepsInv DEF storeVars, RowsWith, Exists
  <1>2. ASSUME NEW t \in TaskIds, NEW k \in Requests, AddTask(t, k, "delegada")
        PROVE  /\ StoreInv'
               /\ \A q : RowsWith(q) \subseteq RowsWith(q)'
    <2>1. StoreInv'
      BY <1>2, AddKeepsInv, DispatchConstants DEF Statuses, Open
    <2>2. \A u \in TaskIds : Exists(u) => tasks'[u] = tasks[u]
      BY <1>0, <1>2 DEF AddTask, Exists
    <2> QED
      BY <2>1, <2>2 DEF RowsWith, Exists
  <1>3. ASSUME NEW t \in TaskIds, NEW s \in Terminal, SetStatus(t, s)
        PROVE  /\ StoreInv'
               /\ \A q : RowsWith(q) \subseteq RowsWith(q)'
    <2> DEFINE row == [tasks[t] EXCEPT !.status = s, !.attempts = tasks[t].attempts]
    <2>0. Exists(t) /\ UpdateTask(t, s, tasks[t].attempts) /\ s \in Statuses
      BY <1>3 DEF SetStatus, Statuses
    <2>1. StoreInv'
      BY <2>0, <1>0, UpdateKeepsInv
    <2>2. tasks[t] \in Task /\ row \in Task /\ row.key = tasks[t].key
      BY <2>0, <1>0 DEF Exists, Task
    <2>3. tasks' = [tasks EXCEPT ![t] = Unowned(row)]
      BY <2>0 DEF UpdateTask
    <2>4. Unowned(row) \in Task /\ Unowned(row).key = tasks[t].key
      BY <2>2, UnownedIsTask DEF Unowned, Task
    <2>5. Unowned(row) # NoTask
      BY <2>4, StoreConstants
    <2> HIDE DEF row
    <2>6. \A u \in TaskIds : Exists(u) => tasks'[u] # NoTask /\ tasks'[u].key = tasks[u].key
      BY <1>0, <2>3, <2>4, <2>5 DEF Exists
    <2> QED
      BY <2>1, <2>6 DEF RowsWith, Exists
  <1> QED
    BY <1>1, <1>2, <1>3 DEF StoreMove

\* What a step of the dispatcher does to the journal and its callers is a
\* step of CliDelegate, or ends a call.
LEMMA StepKeepsJournal ==
  ASSUME DispatchInv, DispatchNext
  PROVE  JournalInv'
  <1>0. JournalInv /\ CliTypeOK /\ (UNCHANGED cliVars => JournalInv')
    BY CliNextInv DEF DispatchInv, JournalInv
  <1>1. ASSUME NEW c \in Callers, ExecuteCli(c)
        PROVE  JournalInv'
    <2>1. dispatches[c].key \in Requests
      BY <1>1 DEF ExecuteCli, In, DispatchInv, HasKey
    <2>2. Ask(c)
      BY <1>1, <2>1 DEF ExecuteCli, Ask
    <2> QED
      BY <1>0, <2>2, CliNextInv DEF CliNext
  <1>2. ASSUME NEW c \in Callers, RunCli(c)
        PROVE  JournalInv'
    BY <1>0, <1>2, CliNextInv DEF RunCli, CliNext
  <1>3. ASSUME NEW c \in Callers, CollectCli(c)
        PROVE  JournalInv'
    BY <1>0, <1>3, CliNextInv DEF CollectCli, CliNext
  <1>4. ASSUME NEW c \in Callers, DispatchDies(c)
        PROVE  JournalInv'
    <2>1. Idle \in Call /\ Idle.pc = "idle"
      BY <1>0, <1>4, CallShape DEF Idle
    <2> QED
      BY <1>0, <1>4, <2>1, Leaves DEF DispatchDies
  <1>5. CASE JobEnds
    BY <1>0, <1>5, CliNextInv DEF JobEnds, CliNext
  <1>6. ASSUME NEW c \in Callers, Proceed(c),
               ~ExecuteCli(c), ~RunCli(c), ~CollectCli(c)
        PROVE  JournalInv'
    BY <1>0, <1>6 DEF Proceed, Look, Intend, ExecuteNothing, ExecuteFabric,
       FabricReturns, RecordCost, PostMortem, Settle
  <1>7. ASSUME NEW c \in Callers, NEW k \in Requests, Check(c, k)
        PROVE  JournalInv'
    BY <1>0, <1>7 DEF Check
  <1>8. ASSUME NEW t \in TaskIds, OperatorCancels(t)
        PROVE  JournalInv'
    BY <1>0, <1>8 DEF OperatorCancels
  <1> QED
    BY <1>1, <1>2, <1>3, <1>4, <1>5, <1>6, <1>7, <1>8 DEF DispatchNext
\* A task that is there stays, whoever moves: what holds of a caller that did
\* not move itself goes on holding.
LEMMA OthersKeep ==
  ASSUME DispatchInv, NEW d \in Callers,
         \A k : RowsWith(k) \subseteq RowsWith(k)',
         dispatches'[d] = dispatches[d], calls'[d] = calls[d]
  PROVE  (HasKey(d) /\ HasTask(d) /\ CallsForDispatch(d))'
  BY DEF DispatchInv, HasKey, HasTask, CallsForDispatch

\* The work of a key has started only if it had before, or if a caller with a
\* task for it starts it now.
LEMMA IntentKept ==
  ASSUME DispatchInv,
         \A k : RowsWith(k) \subseteq RowsWith(k)',
         \A k \in Requests : Started(k)' => Started(k) \/ RowsWith(k) # {}
  PROVE  IntentFirst'
  BY DEF DispatchInv, IntentFirst

\* A call in progress goes on under its request id, and starts no other work.
LEMMA WorkShape ==
  ASSUME JournalInv, NEW c \in Callers, Work(c)
  PROVE  /\ calls[c].pc # "idle"
         /\ calls'[c].request = calls[c].request
         /\ \A d \in Callers \ {c} : calls'[d] = calls[d]
         /\ \A k \in Requests :
               launches'[k] # launches[k] => k = calls[c].request
  <1>0. calls \in [Callers -> Call] /\ launches \in [Requests -> Nat]
    BY DEF JournalInv, CliTypeOK
  <1>1. CASE Launch(c)
    BY <1>0, <1>1 DEF Launch, At, Call
  <1>2. ASSUME NEW w, See(c, w), ~At(c, "idle"), UNCHANGED launches
        PROVE  /\ calls[c].pc # "idle"
               /\ calls'[c].request = calls[c].request
               /\ \A d \in Callers \ {c} : calls'[d] = calls[d]
               /\ \A k \in Requests :
                     launches'[k] # launches[k] => k = calls[c].request
    BY <1>0, <1>2 DEF See, At, Call
  <1>3. CASE LaunchFails(c)
    BY <1>2, <1>3 DEF LaunchFails, At
  <1>4. ASSUME NEW w \in Observations, Observe(c, w)
        PROVE  /\ calls[c].pc # "idle"
               /\ calls'[c].request = calls[c].request
               /\ \A d \in Callers \ {c} : calls'[d] = calls[d]
               /\ \A k \in Requests :
                     launches'[k] # launches[k] => k = calls[c].request
    BY <1>2, <1>4 DEF Observe, At
  <1>5. CASE Finish(c)
    BY <1>0, <1>5 DEF Finish, At, Call
  <1>6. CASE FinishFails(c)
    BY <1>0, <1>6 DEF FinishFails, At, Call
  <1> QED
    BY <1>1, <1>3, <1>4, <1>5, <1>6 DEF Work

LEMMA StepKeepsIntent ==
  ASSUME DispatchInv, DispatchNext, \A k : RowsWith(k) \subseteq RowsWith(k)'
  PROVE  /\ \A c \in Callers : (HasKey(c) /\ HasTask(c) /\ CallsForDispatch(c))'
         /\ IntentFirst'
  <1> DEFINE Goal == /\ \A c \in Callers : (HasKey(c) /\ HasTask(c) /\ CallsForDispatch(c))'
                     /\ IntentFirst'
  <1>0. /\ dispatches \in [Callers -> Dispatch]
        /\ calls \in [Callers -> Call]
        /\ \A c \in Callers : HasKey(c) /\ HasTask(c) /\ CallsForDispatch(c)
    BY DEF DispatchInv, BudgetInv, JournalInv, CliTypeOK
  \* A step of one caller that starts no work.
  <1>1. ASSUME NEW c \in Callers, UNCHANGED <<launches, fabric>>,
               \A d \in Callers \ {c} : dispatches'[d] = dispatches[d] /\ calls'[d] = calls[d],
               (HasKey(c) /\ HasTask(c) /\ CallsForDispatch(c))'
        PROVE  Goal
    <2>1. \A d \in Callers : (HasKey(d) /\ HasTask(d) /\ CallsForDispatch(d))'
      BY <1>1, OthersKeep
    <2>2. IntentFirst'
      BY <1>1, IntentKept DEF Started
    <2> QED
      BY <2>1, <2>2
  <1>2. ASSUME UNCHANGED <<dispatches, calls, launches, fabric>>
        PROVE  Goal
    <2>1. \A d \in Callers : (HasKey(d) /\ HasTask(d) /\ CallsForDispatch(d))'
      BY <1>2, OthersKeep
    <2>2. IntentFirst'
      BY <1>2, IntentKept DEF Started
    <2> QED
      BY <2>1, <2>2
  <1>3. ASSUME NEW c \in Callers, NEW k \in Requests, Check(c, k)
        PROVE  Goal
    <2>1. (HasKey(c) /\ HasTask(c) /\ CallsForDispatch(c))'
      BY <1>0, <1>3 DEF Check, In, NoDispatch, HasKey, HasTask, CallsForDispatch,
         Intended, cliVars
    <2> QED
      BY <1>0, <1>1, <1>3, <2>1 DEF Check, cliVars
  <1>4. ASSUME NEW c \in Callers, Look(c)
        PROVE  Goal
    <2>1. (HasKey(c) /\ HasTask(c) /\ CallsForDispatch(c))'
      BY <1>0, <1>4 DEF Look, In, Goto, NoDispatch, Dispatch, HasKey, HasTask,
         CallsForDispatch, Intended, cliVars
    <2> QED
      BY <1>0, <1>1, <1>4, <2>1 DEF Look, Goto, cliVars
  <1>5. ASSUME NEW c \in Callers, Intend(c)
        PROVE  Goal
    <2> DEFINE k == dispatches[c].key
    <2>1. PICK t \in TaskIds :
            /\ dispatches' = [dispatches EXCEPT ![c].pc = "added", ![c].row = t]
            /\ t \in RowsWith(k) \/ AddTask(t, k, "delegada")
      BY <1>5 DEF Intend, RowsWith
    <2>2. RowsWith(k)' # {}
      <3>1. CASE t \in RowsWith(k)
        <4>1. k' = k
          BY <2>1, <1>0 DEF Dispatch
        <4> QED
          BY <3>1, <4>1 DEF RowsWith
      <3>2. CASE AddTask(t, k, "delegada")
        <4> DEFINE row == [status |-> "delegada", key |-> k, attempts |-> 0,
                           lease_owner |-> NoOwner, lease_expires |-> 0]
        <4>1. k \in Keys
          BY <1>0, <1>5, DispatchConstants DEF Intend, In, HasKey
        <4>2. row \in Task
          BY <4>1 DEF Task, Statuses, Open
        <4>3. row # NoTask
          BY <4>2, StoreConstants
        <4>4. tasks' = [tasks EXCEPT ![t] = row]
          BY <3>2 DEF AddTask
        <4>5. tasks'[t] = row
          BY <4>4 DEF DispatchInv, StoreInv, StoreTypeOK
        <4>6. k' = k
          BY <2>1, <1>0 DEF Dispatch
        <4>7. tasks'[t] # NoTask /\ tasks'[t].key = k
          BY <4>3, <4>5
        <4> QED
          BY <4>7, <4>6 DEF RowsWith, Exists
      <3> QED
        BY <2>1, <3>1, <3>2
    <2>3. dispatches'[c].pc = "added" /\ dispatches'[c].row = t /\ dispatches'[c].key = k
      BY <1>0, <2>1 DEF Dispatch
    <2>4. (HasKey(c) /\ HasTask(c) /\ CallsForDispatch(c))'
      BY <1>0, <1>5, <2>2, <2>3 DEF Intend, In, HasKey, HasTask, CallsForDispatch, cliVars
    <2> QED
      BY <1>0, <1>1, <1>5, <2>1, <2>4 DEF Intend, cliVars
  <1>6. ASSUME NEW c \in Callers, ExecuteCli(c)
        PROVE  Goal
    <2> DEFINE k == dispatches[c].key
    <2>0. k \in Requests /\ calls[c].pc = "idle"
      BY <1>0, <1>6 DEF ExecuteCli, In, HasKey, CallsForDispatch
    <2>1. /\ calls'[c].request = k
          /\ \A d \in Callers \ {c} : calls'[d] = calls[d]
          /\ UNCHANGED <<launches, fabric>>
      BY <1>0, <1>6 DEF ExecuteCli, Unavailable, Reserve, Repeat, Reject, Answer
    <2>2. dispatches' = [dispatches EXCEPT ![c].pc = "cli"] /\ dispatches[c].pc = "added"
      BY <1>6 DEF ExecuteCli, Goto, In
    <2>3. /\ dispatches'[c].pc = "cli"
          /\ dispatches'[c].key = k
          /\ dispatches'[c].row = dispatches[c].row
          /\ \A d \in Callers \ {c} : dispatches'[d] = dispatches[d]
      BY <1>0, <2>2 DEF Dispatch
    <2>4. HasTask(c)'
      BY <1>0, <2>2, <2>3 DEF HasTask, Intended
    <2>5. HasKey(c)' /\ CallsForDispatch(c)'
      BY <2>0, <2>1, <2>3 DEF HasKey, CallsForDispatch
    <2> QED
      BY <1>1, <2>1, <2>3, <2>4, <2>5
  <1>7. ASSUME NEW c \in Callers, RunCli(c)
        PROVE  Goal
    <2> DEFINE q == calls[c].request
    <2>1. /\ calls[c].pc # "idle"
          /\ calls'[c].request = q
          /\ \A d \in Callers \ {c} : calls'[d] = calls[d]
          /\ \A k \in Requests : launches'[k] # launches[k] => k = q
      BY <1>7, WorkShape DEF RunCli, DispatchInv
    <2>2. UNCHANGED <<dispatches, fabric>>
      BY <1>7 DEF RunCli
    <2>3. dispatches[c].pc = "cli" /\ q = dispatches[c].key
      BY <1>0, <2>1 DEF CallsForDispatch
    <2>4. RowsWith(q) # {}
      BY <1>0, <2>3 DEF HasTask, Intended
    <2>5. (HasKey(c) /\ HasTask(c) /\ CallsForDispatch(c))'
      BY <1>0, <2>1, <2>2, <2>3 DEF HasKey, HasTask, CallsForDispatch
    <2>6. \A d \in Callers : (HasKey(d) /\ HasTask(d) /\ CallsForDispatch(d))'
      BY <2>1, <2>2, <2>5, OthersKeep
    <2>7. \A k \in Requests : Started(k)' => Started(k) \/ RowsWith(k) # {}
      BY <2>1, <2>2, <2>4 DEF Started
    <2> QED
      BY <2>6, <2>7, IntentKept
  <1>8. ASSUME NEW c \in Callers, CollectCli(c)
        PROVE  Goal
    <2>1. /\ calls' = [calls EXCEPT ![c] = Idle]
          /\ UNCHANGED <<launches, fabric>>
          /\ dispatches[c].pc = "cli"
          /\ \A d \in Callers \ {c} : dispatches'[d] = dispatches[d]
          /\ dispatches'[c].pc = "executed"
          /\ dispatches'[c].key = dispatches[c].key
          /\ dispatches'[c].row = dispatches[c].row
      BY <1>0, <1>8 DEF CollectCli, Return, Finished, In, Dispatch
    <2>2. HasTask(c)'
      BY <1>0, <2>1 DEF HasTask, Intended
    <2>3. HasKey(c)' /\ CallsForDispatch(c)'
      BY <1>0, <2>1 DEF HasKey, CallsForDispatch, Idle
    <2> QED
      BY <1>0, <1>1, <2>1, <2>2, <2>3
  \* The steps from add_task on that touch neither the journal nor Fabric.
  <1>9. ASSUME NEW c \in Callers, dispatches[c].pc \in Intended \ {"cli"},
               UNCHANGED <<calls, launches>>,
               \A d \in Callers \ {c} : dispatches'[d] = dispatches[d],
               dispatches'[c].pc \in Intended,
               dispatches'[c].key = dispatches[c].key,
               dispatches'[c].row = dispatches[c].row,
               fabric' = fabric \/ fabric' = fabric \cup {dispatches[c].key}
        PROVE  Goal
    <2>1. HasTask(c)'
      BY <1>0, <1>9 DEF HasTask
    <2>2. HasKey(c)' /\ CallsForDispatch(c)'
      BY <1>0, <1>9 DEF HasKey, CallsForDispatch, Intended
    <2>3. \A d \in Callers : (HasKey(d) /\ HasTask(d) /\ CallsForDispatch(d))'
      BY <1>9, <2>1, <2>2, OthersKeep
    <2>4. RowsWith(dispatches[c].key) # {}
      BY <1>0, <1>9 DEF HasTask
    <2>5. \A k \in Requests : Started(k)' => Started(k) \/ RowsWith(k) # {}
      BY <1>9, <2>4 DEF Started
    <2> QED
      BY <2>3, <2>5, IntentKept
  <1>10. ASSUME NEW c \in Callers,
                ExecuteNothing(c) \/ ExecuteFabric(c) \/ RecordCost(c) \/ PostMortem(c)
         PROVE  Goal
    BY <1>0, <1>9, <1>10 DEF ExecuteNothing, ExecuteFabric, RecordCost, PostMortem,
       Finished, Goto, In, Dispatch, Intended, cliVars
  <1>11. ASSUME NEW c \in Callers, NEW ok \in BOOLEAN, FabricReturns(c, ok)
         PROVE  Goal
    BY <1>0, <1>9, <1>11 DEF FabricReturns, Finished, In, Dispatch, Intended, cliVars
  <1>12. ASSUME NEW c \in Callers, Settle(c) \/ DispatchDies(c)
         PROVE  Goal
    <2>1. dispatches' = [dispatches EXCEPT ![c] = NoDispatch]
          /\ UNCHANGED <<launches, fabric>>
      BY <1>12 DEF Settle, DispatchDies, cliVars
    <2>2. calls'[c].pc = "idle" /\ \A d \in Callers \ {c} : calls'[d] = calls[d]
      BY <1>0, <1>12 DEF Settle, DispatchDies, In, CallsForDispatch, Idle, cliVars
    <2>3. (HasKey(c) /\ HasTask(c) /\ CallsForDispatch(c))'
      BY <1>0, <2>1, <2>2 DEF NoDispatch, HasKey, HasTask, CallsForDispatch, Intended
    <2> QED
      BY <1>0, <1>1, <2>1, <2>2, <2>3
  <1>13. ASSUME NEW t \in TaskIds, OperatorCancels(t)
         PROVE  Goal
    BY <1>2, <1>13 DEF OperatorCancels, cliVars
  <1>14. CASE JobEnds
    BY <1>2, <1>14 DEF JobEnds, World, WorkerEnds
  <1> QED
    BY <1>3, <1>4, <1>5, <1>6, <1>7, <1>8, <1>10, <1>11, <1>12, <1>13, <1>14
    DEF DispatchNext, Proceed

LEMMA DispatchStepInv == DispatchInv /\ [DispatchNext]_dispatchVars => DispatchInv'
  <1> SUFFICES ASSUME DispatchInv, [DispatchNext]_dispatchVars
               PROVE  DispatchInv'
    OBVIOUS
  <1>1. CASE DispatchNext
    <2>1. BudgetInv'
      BY <1>1, BudgetStep DEF DispatchInv
    <2>2. StoreInv' /\ \A k : RowsWith(k) \subseteq RowsWith(k)'
      BY <1>1, StepMovesStore, StoreMoveKeeps DEF DispatchInv
    <2>3. JournalInv'
      BY <1>1, StepKeepsJournal
    <2>4. /\ \A c \in Callers : (HasKey(c) /\ HasTask(c) /\ CallsForDispatch(c))'
          /\ IntentFirst'
      BY <1>1, <2>2, StepKeepsIntent
    <2> QED
      BY <2>1, <2>2, <2>3, <2>4 DEF DispatchInv
  <1>2. CASE UNCHANGED dispatchVars
    <2>1. BudgetInv'
      BY <1>2, BudgetStep DEF DispatchInv
    <2>2. StoreInv'
      BY <1>2, StepKeepsInv DEF DispatchInv, dispatchVars, svars
    <2>3. JournalInv'
      BY <1>2, CliNextInv DEF DispatchInv, dispatchVars
    <2>4. /\ \A c \in Callers : (HasKey(c) /\ HasTask(c) /\ CallsForDispatch(c))'
          /\ IntentFirst'
      BY <1>2 DEF DispatchInv, dispatchVars, storeVars, cliVars, HasKey, HasTask,
         CallsForDispatch, IntentFirst, Started, RowsWith, Exists
    <2> QED
      BY <2>1, <2>2, <2>3, <2>4 DEF DispatchInv
  <1> QED
    BY <1>1, <1>2

LEMMA DispatchInvHolds == DispatchSpec => []DispatchInv
  BY DispatchInitInv, DispatchStepInv, PTL DEF DispatchSpec

\* Whatever dies and whatever overlaps, no work is under way for a key that
\* has no task in the store: the intent is written before the launch.
THEOREM DispatchIntentFirst == DispatchSpec => []IntentFirst
  <1>1. DispatchInv => IntentFirst
    BY DEF DispatchInv
  <1> QED
    BY <1>1, DispatchInvHolds, PTL

\* The guarantees of the journal hold of the dispatcher's calls too, which add
\* deaths of the dispatch to those of the call: one job per dispatch key.
THEOREM DispatchRunsOnce == DispatchSpec => []RequestRunsOnce
  <1>1. DispatchInv => RequestRunsOnce
    <2> SUFFICES ASSUME DispatchInv PROVE RequestRunsOnce
      OBVIOUS
    <2>1. \A q \in Requests : launches[q] \in {0, 1}
      BY DEF DispatchInv, JournalInv, Binds
    <2> QED
      BY <2>1 DEF RequestRunsOnce
  <1> QED
    BY <1>1, DispatchInvHolds, PTL

\* The guarantees of the store hold of the tasks of dispatches: a key has one
\* task, however many dispatches looked for it before any of them added one.
THEOREM DispatchOneTask == DispatchSpec => []KeyIdentifiesTask
  <1>1. DispatchInv => KeyIdentifiesTask
    BY DEF DispatchInv, StoreInv
  <1> QED
    BY <1>1, DispatchInvHolds, PTL

-----------------------------------------------------------------------------
(* Success is sound.  A dispatch may finalize a task whose work another     *)
(* one did, so the invariant follows an answer from the job to the journal, *)
(* to the dispatch, to the task and to whoever was told.                    *)

\* No dispatch of today has the key of a task imported from a legacy store,
\* about whose success nothing is known.
NoLegacyDispatch ==
    \A s \in Snapshots, t \in TaskIds : s[t] # NoTask => s[t].key \notin Requests

\* A caller about to launch has a reference without a job, and an answer "ok"
\* is about a job that ended well.
FreshReference(c) ==
    calls[c].pc = "reserved" => workers[calls[c].reference] = "none"
AnswerTrue(c) ==
    calls[c].pc = "answered" /\ calls[c].said = "ok" =>
        Succeeded(dispatches[c].key)
\* A dispatch settles its own task, and takes for done what is done.
OwnTask(c) ==
    dispatches[c].pc \in Intended =>
        dispatches[c].row \in RowsWith(dispatches[c].key)
ResultTrue(c) ==
    dispatches[c].pc \in {"spending", "executed", "recorded"} /\ dispatches[c].ok =>
        Succeeded(dispatches[c].key)
\* What the tables claim is true, and what was told stays.
ClaimsTrue ==
    \A t \in TaskIds :
        /\ t \in postmortems => Exists(t)
        /\ (/\ Exists(t)
            /\ tasks[t].key \in Requests
            /\ tasks[t].status = "completada" \/ t \in postmortems)
               => Succeeded(tasks[t].key)
ToldStands == \A k \in told : \E t \in RowsWith(k) : tasks[t].status = "completada"

SuccessInv ==
    /\ DispatchInv
    /\ \A c \in Callers :
          FreshReference(c) /\ AnswerTrue(c) /\ OwnTask(c) /\ ResultTrue(c)
    /\ ClaimsTrue
    /\ ToldStands

LEMMA SuccessInit == NoLegacyDispatch /\ DispatchInit => SuccessInv
  <1> SUFFICES ASSUME NoLegacyDispatch, DispatchInit PROVE SuccessInv
    OBVIOUS
  <1>1. \A c \in Callers :
          FreshReference(c) /\ AnswerTrue(c) /\ OwnTask(c) /\ ResultTrue(c)
    BY DEF DispatchInit, CliInit, NoDispatch, Idle, Intended, FreshReference,
       AnswerTrue, OwnTask, ResultTrue
  <1>2. ClaimsTrue /\ ToldStands
    BY DEF DispatchInit, StoreInit, NoLegacyDispatch, ClaimsTrue, ToldStands, Exists
  <1> QED
    BY <1>1, <1>2, DispatchInitInv DEF SuccessInv

\* What a step of a call does to the tables of the journal and to the jobs.
LEMMA JournalGrows ==
  ASSUME SuccessInv, DispatchNext
  PROVE  /\ \A k \in Requests : Bound(k) => requests'[k] = requests[k]
         /\ \A r \in References : workers[r] = "done" => workers'[r] = "done"
         /\ fabricDone \subseteq fabricDone'
  <1>0. CliTypeOK /\ \A c \in Callers : FreshReference(c) /\ Writing(c)
    BY DEF SuccessInv, DispatchInv, JournalInv
  <1>1. fabricDone \subseteq fabricDone'
    BY DEF DispatchNext, Check, Proceed, Look, Intend, ExecuteCli, RunCli, CollectCli,
       ExecuteNothing, ExecuteFabric, FabricReturns, RecordCost, PostMortem, Settle,
       DispatchDies, OperatorCancels, JobEnds
  <1> DEFINE Kept == /\ \A k \in Requests : Bound(k) => requests'[k] = requests[k]
                     /\ \A r \in References : workers[r] = "done" => workers'[r] = "done"
  <1>2. ASSUME UNCHANGED <<requests, workers>>
        PROVE  Kept
    BY <1>2
  <1>3. ASSUME NEW c \in Callers, ExecuteCli(c)
        PROVE  Kept
    <2> DEFINE k == dispatches[c].key
    <2>1. CASE \E i \in Intents, r \in References : Reserve(c, k, i, r)
      BY <2>1, <1>0 DEF Reserve
    <2>2. CASE UNCHANGED <<requests, workers>>
      BY <2>2
    <2> QED
      BY <1>3, <2>1, <2>2 DEF ExecuteCli, Unavailable, Repeat, Reject, journalVars
  <1>4. ASSUME NEW c \in Callers, RunCli(c)
        PROVE  Kept
    <2>1. CASE Launch(c)
      BY <2>1, <1>0 DEF Launch, At, FreshReference, Writing, Active, CliTypeOK, journalVars
    <2>2. CASE ~Launch(c)
      BY <1>2, <1>4, <2>2 DEF RunCli, Work, LaunchFails, Observe, Finish, FinishFails, journalVars
    <2> QED
      BY <2>1, <2>2
  <1>5. ASSUME JobEnds
        PROVE  Kept
    BY <1>0, <1>5 DEF JobEnds, World, WorkerEnds, CliTypeOK, journalVars
  <1>6. ASSUME NEW c \in Callers, NEW k \in Requests, Check(c, k)
        PROVE  Kept
    BY <1>2, <1>6 DEF Check, cliVars
  <1>7. ASSUME NEW c \in Callers, Proceed(c), ~ExecuteCli(c), ~RunCli(c)
        PROVE  Kept
    BY <1>2, <1>7 DEF Proceed, Look, Intend, CollectCli, Return, ExecuteNothing,
       ExecuteFabric, FabricReturns, RecordCost, PostMortem, Settle, cliVars, journalVars
  <1>8. ASSUME NEW c \in Callers, DispatchDies(c)
        PROVE  Kept
    BY <1>2, <1>8 DEF DispatchDies, journalVars
  <1>9. ASSUME NEW t \in TaskIds, OperatorCancels(t)
         PROVE  Kept
    BY <1>2, <1>9 DEF OperatorCancels, cliVars
  <1> QED
    BY <1>1, <1>3, <1>4, <1>5, <1>6, <1>7, <1>8, <1>9 DEF DispatchNext

\* Work that has succeeded has succeeded for good.
LEMMA SucceededStays ==
  ASSUME SuccessInv, DispatchNext, NEW k \in Requests, Succeeded(k)
  PROVE  Succeeded(k)'
  <1>0. CliTypeOK
    BY DEF SuccessInv, DispatchInv, JournalInv
  <1>1. CASE k \in fabricDone
    BY <1>1, JournalGrows DEF Succeeded
  <1>2. CASE Bound(k) /\ workers[requests[k].reference] = "done"
    <2>1. requests[k].reference \in References
      BY <1>0, <1>2 DEF CliTypeOK, Bound, Binding
    <2>2. requests'[k] = requests[k] /\ workers'[requests[k].reference] = "done"
      BY <1>2, <2>1, JournalGrows
    <2> QED
      BY <1>2, <2>2 DEF Succeeded, Bound
  <1> QED
    BY <1>1, <1>2 DEF Succeeded

\* A caller gets a reference that has no job, and no other caller launches it.
LEMMA FreshKept ==
  ASSUME SuccessInv, DispatchNext, NEW d \in Callers
  PROVE  FreshReference(d)'
  <1>0. /\ CliTypeOK /\ OneWriter /\ LaunchSaved
        /\ \A c \in Callers : FreshReference(c) /\ Writing(c)
    BY DEF SuccessInv, DispatchInv, JournalInv
  <1>1. ASSUME UNCHANGED <<calls, workers>>
        PROVE  FreshReference(d)'
    BY <1>0, <1>1 DEF FreshReference
  \* Whoever stops being about to launch, or was not, has nothing to show.
  <1>2. ASSUME NEW c \in Callers, calls'[c].pc # "reserved", UNCHANGED workers,
               \A e \in Callers \ {c} : calls'[e] = calls[e]
        PROVE  FreshReference(d)'
    BY <1>0, <1>2 DEF FreshReference
  <1>3. ASSUME NEW c \in Callers, ExecuteCli(c)
        PROVE  FreshReference(d)'
    <2> DEFINE k == dispatches[c].key
    <2>1. ASSUME NEW i \in Intents, NEW r \in References, Reserve(c, k, i, r)
          PROVE  FreshReference(d)'
      <3>1. workers[r] = "none"
        BY <1>0, <2>1 DEF Reserve, LaunchSaved
      <3> QED
        BY <1>0, <2>1, <3>1 DEF Reserve, FreshReference, CliTypeOK
    <2>2. ASSUME NEW r, NEW w, Answer(c, k, r, w), UNCHANGED workers
          PROVE  FreshReference(d)'
      BY <1>0, <1>2, <2>2 DEF Answer, CliTypeOK
    <2> QED
      BY <1>3, <2>1, <2>2 DEF ExecuteCli, Unavailable, Repeat, Reject
  <1>4. ASSUME NEW c \in Callers, RunCli(c)
        PROVE  FreshReference(d)'
    <2>1. CASE Launch(c)
      BY <1>0, <2>1 DEF Launch, At, FreshReference, OneWriter, CliTypeOK
    <2>2. CASE ~Launch(c)
      <3>1. calls'[c].pc # "reserved" /\ UNCHANGED workers
            /\ \A e \in Callers \ {c} : calls'[e] = calls[e]
        BY <1>0, <1>4, <2>2
        DEF RunCli, Work, LaunchFails, Observe, See, Finish, FinishFails, CliTypeOK, Call
      <3> QED
        BY <1>2, <3>1
    <2> QED
      BY <2>1, <2>2
  <1>5. ASSUME NEW c \in Callers, CollectCli(c) \/ DispatchDies(c)
        PROVE  FreshReference(d)'
    BY <1>0, <1>2, <1>5 DEF CollectCli, Return, DispatchDies, Idle, CliTypeOK
  <1>6. ASSUME JobEnds
        PROVE  FreshReference(d)'
    BY <1>0, <1>6 DEF JobEnds, World, WorkerEnds, FreshReference, CliTypeOK
  <1>7. ASSUME NEW c \in Callers, NEW k \in Requests, Check(c, k)
        PROVE  FreshReference(d)'
    BY <1>1, <1>7 DEF Check, cliVars
  <1>8. ASSUME NEW c \in Callers, Proceed(c), ~ExecuteCli(c), ~RunCli(c), ~CollectCli(c)
        PROVE  FreshReference(d)'
    BY <1>1, <1>8 DEF Proceed, Look, Intend, ExecuteNothing, ExecuteFabric,
       FabricReturns, RecordCost, PostMortem, Settle, cliVars
  <1>9. ASSUME NEW t \in TaskIds, OperatorCancels(t)
         PROVE  FreshReference(d)'
    BY <1>1, <1>9 DEF OperatorCancels, cliVars
  <1> QED
    BY <1>3, <1>4, <1>5, <1>6, <1>7, <1>8, <1>9 DEF DispatchNext

\* An answer "ok" was an observation "ok", which JournalInv says is true.
LEMMA AnswerKept ==
  ASSUME SuccessInv, DispatchNext, DispatchInv', NEW d \in Callers
  PROVE  AnswerTrue(d)'
  <1>0. /\ CliTypeOK
        /\ \A c \in Callers : /\ AnswerTrue(c) /\ Writing(c)
                              /\ HasKey(c) /\ CallsForDispatch(c)
    BY DEF SuccessInv, DispatchInv, JournalInv
  <1> SUFFICES ASSUME calls'[d].pc = "answered", calls'[d].said = "ok"
               PROVE  Succeeded(dispatches[d].key)'
    BY DEF AnswerTrue
  <1>1. dispatches'[d].key = calls'[d].request
    BY DEF DispatchInv, CallsForDispatch
  <1>2. CASE calls'[d] = calls[d]
    <2>1. /\ dispatches[d].key = dispatches'[d].key
          /\ dispatches[d].key \in Requests
          /\ Succeeded(dispatches[d].key)
      BY <1>0, <1>1, <1>2 DEF CallsForDispatch, AnswerTrue, HasKey
    <2> QED
      BY <2>1, SucceededStays DEF Succeeded, Bound
  <1>3. CASE RunCli(d)
    <2>1. Finish(d) /\ calls[d].said = "ok" /\ calls[d].pc = "observed"
      BY <1>0, <1>3 DEF RunCli, Work, Launch, LaunchFails, Observe, See, Finish,
         FinishFails, At, CliTypeOK, Call
    <2> DEFINE q == calls[d].request
               r == calls[d].reference
    <2>2. q = dispatches[d].key /\ q \in Requests
      BY <1>0, <2>1 DEF CallsForDispatch, HasKey
    <2>3. workers[r] = "done" /\ requests[q] # NoBinding /\ requests[q].reference = r
      BY <1>0, <2>1, <2>2 DEF Writing, Active
    <2>4. Succeeded(q)
      BY <2>2, <2>3 DEF Succeeded, Bound
    <2>5. dispatches' = dispatches
      BY <1>3 DEF RunCli
    <2> QED
      BY <2>2, <2>4, <2>5, SucceededStays DEF Succeeded, Bound
  <1>4. ASSUME calls'[d] # calls[d]
        PROVE  RunCli(d)
    <2>1. ASSUME NEW c \in Callers, ExecuteCli(c)
          PROVE  FALSE
      BY <1>0, <1>4, <2>1 DEF ExecuteCli, Unavailable, Reserve, Repeat, Reject, Answer,
         CliTypeOK
    <2>2. ASSUME NEW c \in Callers, RunCli(c)
          PROVE  c = d
      BY <1>4, <2>2, WorkShape DEF RunCli, SuccessInv, DispatchInv
    <2>3. ASSUME NEW c \in Callers, CollectCli(c) \/ DispatchDies(c)
          PROVE  FALSE
      BY <1>0, <1>4, <2>3 DEF CollectCli, Return, DispatchDies, Idle, CliTypeOK
    <2>4. ASSUME NEW c \in Callers, Proceed(c), ~ExecuteCli(c), ~RunCli(c), ~CollectCli(c)
          PROVE  FALSE
      BY <1>4, <2>4 DEF Proceed, Look, Intend, ExecuteNothing, ExecuteFabric,
         FabricReturns, RecordCost, PostMortem, Settle, cliVars
    <2> QED
      BY <1>4, <2>1, <2>2, <2>3, <2>4
      DEF DispatchNext, Check, OperatorCancels, JobEnds, World, WorkerEnds, cliVars
  <1> QED
    BY <1>2, <1>3, <1>4

\* What a step does to the rows: their keys and the successes stay, and a new
\* row is no success.
LEMMA SetRow ==
  ASSUME StoreInv, NEW t \in TaskIds, NEW s \in Terminal, SetStatus(t, s)
  PROVE  /\ Exists(t)
         /\ tasks'[t] # NoTask
         /\ tasks'[t].key = tasks[t].key
         /\ tasks'[t].status = s
         /\ tasks[t].status = "completada" => s = "completada"
         /\ \A u \in TaskIds \ {t} : tasks'[u] = tasks[u]
  <1>0. tasks \in [TaskIds -> Task \cup {NoTask}]
    BY DEF StoreInv, StoreTypeOK
  <1> DEFINE row == [tasks[t] EXCEPT !.status = s, !.attempts = tasks[t].attempts]
  <1>1. Exists(t) /\ UpdateTask(t, s, tasks[t].attempts)
    BY DEF SetStatus
  <1>2. tasks[t] \in Task /\ row \in Task /\ row.key = tasks[t].key /\ row.status = s
    BY <1>0, <1>1 DEF Exists, Task, Statuses
  <1>3. tasks' = [tasks EXCEPT ![t] = Unowned(row)]
    BY <1>1 DEF UpdateTask
  <1>4. /\ Unowned(row) \in Task
        /\ Unowned(row).key = tasks[t].key
        /\ Unowned(row).status = s
    BY <1>2, UnownedIsTask DEF Unowned, Task
  <1>5. tasks[t].status = "completada" => s = "completada"
    BY <1>1 DEF UpdateTask, MayMove, Targets
  <1> HIDE DEF row
  <1> QED
    BY <1>0, <1>1, <1>3, <1>4, <1>5, StoreConstants

LEMMA RowsChange ==
  ASSUME StoreInv, StoreMove, NEW t \in TaskIds
  PROVE  /\ Exists(t) => tasks'[t] # NoTask /\ tasks'[t].key = tasks[t].key
         /\ Exists(t) /\ tasks[t].status = "completada" => tasks'[t].status = "completada"
         /\ ~Exists(t) /\ tasks'[t] # NoTask => tasks'[t].status = "delegada"
  <1>0. tasks \in [TaskIds -> Task \cup {NoTask}]
    BY DEF StoreInv, StoreTypeOK
  <1>1. CASE UNCHANGED storeVars
    BY <1>1 DEF storeVars, Exists
  <1>2. CASE \E u \in TaskIds, k \in Requests : AddTask(u, k, "delegada")
    BY <1>0, <1>2 DEF AddTask, Exists
  <1>3. CASE \E u \in TaskIds, s \in Terminal : SetStatus(u, s)
    BY <1>0, <1>3, SetRow DEF Exists
  <1> QED
    BY <1>1, <1>2, <1>3 DEF StoreMove

LEMMA OwnKept ==
  ASSUME SuccessInv, DispatchNext, DispatchInv', NEW d \in Callers
  PROVE  OwnTask(d)'
  <1>0. /\ dispatches \in [Callers -> Dispatch]
        /\ \A c \in Callers : OwnTask(c)
    BY DEF SuccessInv, DispatchInv, BudgetInv
  <1>1. \A k : RowsWith(k) \subseteq RowsWith(k)'
    BY StepMovesStore, StoreMoveKeeps DEF SuccessInv, DispatchInv
  <1>2. ASSUME dispatches[d].pc \in Intended \/ dispatches'[d].pc \notin Intended,
               dispatches'[d].pc \in Intended =>
                   /\ dispatches'[d].key = dispatches[d].key
                   /\ dispatches'[d].row = dispatches[d].row
        PROVE  OwnTask(d)'
    BY <1>0, <1>1, <1>2 DEF OwnTask, RowsWith
  <1>3. CASE Intend(d)
    <2> DEFINE k == dispatches[d].key
    <2>1. PICK t \in TaskIds :
            /\ dispatches' = [dispatches EXCEPT ![d].pc = "added", ![d].row = t]
            /\ t \in RowsWith(k) \/ AddTask(t, k, "delegada")
      BY <1>3 DEF Intend, RowsWith
    <2>2. dispatches'[d].row = t /\ dispatches'[d].key = k
      BY <1>0, <2>1 DEF Dispatch
    <2>3. CASE t \in RowsWith(k)
      BY <1>1, <2>2, <2>3 DEF OwnTask, RowsWith
    <2>4. CASE AddTask(t, k, "delegada")
      <3> DEFINE row == [status |-> "delegada", key |-> k, attempts |-> 0,
                         lease_owner |-> NoOwner, lease_expires |-> 0]
      <3>1. k \in Keys
        BY <1>3, DispatchConstants DEF Intend, In, SuccessInv, DispatchInv, HasKey
      <3>2. row \in Task
        BY <3>1 DEF Task, Statuses, Open
      <3>3. tasks'[t] = row
        BY <2>4 DEF AddTask, SuccessInv, DispatchInv, StoreInv, StoreTypeOK
      <3>4. tasks'[t] # NoTask /\ tasks'[t].key = k
        BY <3>2, <3>3, StoreConstants
      <3> QED
        BY <2>2, <3>4 DEF OwnTask, RowsWith, Exists
    <2> QED
      BY <2>1, <2>3, <2>4
  <1>4. ASSUME UNCHANGED dispatches
        PROVE  OwnTask(d)'
    BY <1>2, <1>4
  <1>5. ASSUME NEW c \in Callers, NEW k \in Requests, Check(c, k)
        PROVE  OwnTask(d)'
    BY <1>0, <1>2, <1>5 DEF Check, NoDispatch, Intended
  <1>6. ASSUME NEW c \in Callers, Proceed(c), ~(c = d /\ Intend(d))
        PROVE  OwnTask(d)'
    <2>1. CASE c # d
      <3>1. dispatches'[d] = dispatches[d]
        BY <1>0, <1>6, <2>1 DEF Proceed, Look, Intend, ExecuteCli, RunCli, CollectCli,
           ExecuteNothing, ExecuteFabric, FabricReturns, RecordCost, PostMortem, Settle,
           Goto, Finished, NoDispatch, Dispatch
      <3> QED
        BY <1>2, <3>1
    <2>2. CASE c = d
      BY <1>0, <1>2, <1>6, <2>2 DEF Proceed, Look, ExecuteCli, RunCli, CollectCli,
         ExecuteNothing, ExecuteFabric, FabricReturns, RecordCost, PostMortem, Settle,
         In, Goto, Finished, NoDispatch, Dispatch, Intended
    <2> QED
      BY <2>1, <2>2
  <1>7. ASSUME NEW c \in Callers, DispatchDies(c)
        PROVE  OwnTask(d)'
    BY <1>0, <1>2, <1>7 DEF DispatchDies, NoDispatch, Intended
  <1>8. ASSUME NEW t \in TaskIds, OperatorCancels(t)
        PROVE  OwnTask(d)'
    BY <1>4, <1>8 DEF OperatorCancels
  <1>9. ASSUME JobEnds
        PROVE  OwnTask(d)'
    BY <1>4, <1>9 DEF JobEnds
  <1> QED
    BY <1>3, <1>5, <1>6, <1>7, <1>8, <1>9 DEF DispatchNext

LEMMA ResultKept ==
  ASSUME SuccessInv, DispatchNext, NEW d \in Callers
  PROVE  ResultTrue(d)'
  <1>0. /\ dispatches \in [Callers -> Dispatch]
        /\ \A c \in Callers : /\ ResultTrue(c) /\ AnswerTrue(c)
                              /\ HasKey(c) /\ CallsForDispatch(c)
    BY DEF SuccessInv, DispatchInv, BudgetInv
  <1> DEFINE Done == {"spending", "executed", "recorded"}
  <1>1. ASSUME dispatches'[d].pc \in Done /\ dispatches'[d].ok =>
                   /\ dispatches'[d].key = dispatches[d].key
                   /\ dispatches[d].pc \in Done /\ dispatches[d].ok
        PROVE  ResultTrue(d)'
    <2> SUFFICES ASSUME dispatches'[d].pc \in Done, dispatches'[d].ok
                 PROVE  Succeeded(dispatches[d].key)'
      BY DEF ResultTrue
    <2>1. /\ dispatches'[d].key = dispatches[d].key
          /\ dispatches[d].key \in Requests
          /\ Succeeded(dispatches[d].key)
      BY <1>0, <1>1 DEF ResultTrue, HasKey
    <2> QED
      BY <2>1, SucceededStays DEF Succeeded, Bound
  <1>2. CASE CollectCli(d)
    <2>1. /\ dispatches'[d].key = dispatches[d].key
          /\ dispatches[d].key \in Requests
          /\ dispatches'[d].ok => Succeeded(dispatches[d].key)
      BY <1>0, <1>2 DEF CollectCli, Return, At, In, Finished, CliSucceeded, Dispatch,
         AnswerTrue, HasKey
    <2>2. dispatches'[d].ok => Succeeded(dispatches[d].key)'
      BY <2>1, SucceededStays DEF Succeeded, Bound
    <2> QED
      BY <2>2 DEF ResultTrue
  <1>3. ASSUME NEW ok \in BOOLEAN, FabricReturns(d, ok)
        PROVE  ResultTrue(d)'
    <2>1. /\ dispatches'[d].key = dispatches[d].key
          /\ dispatches'[d].ok => dispatches[d].key \in fabricDone'
      BY <1>0, <1>3 DEF FabricReturns, Finished, Dispatch
    <2> QED
      BY <2>1 DEF ResultTrue, Succeeded
  <1>4. ASSUME UNCHANGED dispatches
        PROVE  ResultTrue(d)'
    BY <1>1, <1>4
  <1>5. ASSUME NEW c \in Callers, NEW k \in Requests, Check(c, k)
        PROVE  ResultTrue(d)'
    BY <1>0, <1>1, <1>5 DEF Check, NoDispatch
  <1>6. ASSUME NEW c \in Callers, Proceed(c), c # d
        PROVE  ResultTrue(d)'
    <2>1. dispatches'[d] = dispatches[d]
      BY <1>0, <1>6 DEF Proceed, Look, Intend, ExecuteCli, RunCli, CollectCli,
         ExecuteNothing, ExecuteFabric, FabricReturns, RecordCost, PostMortem, Settle,
         Goto, Finished, NoDispatch, Dispatch
    <2> QED
      BY <1>1, <2>1
  <1>7. CASE ExecuteNothing(d)
    BY <1>0, <1>1, <1>7 DEF ExecuteNothing, Finished, Dispatch
  <1>8. CASE Intend(d)
    BY <1>0, <1>1, <1>8 DEF Intend, Dispatch
  <1>9. CASE Look(d) \/ ExecuteCli(d) \/ RunCli(d) \/ ExecuteFabric(d)
    BY <1>0, <1>1, <1>9 DEF Look, ExecuteCli, RunCli, ExecuteFabric, Goto, NoDispatch, Dispatch
  <1>10. CASE RecordCost(d) \/ PostMortem(d) \/ Settle(d)
    BY <1>0, <1>1, <1>10 DEF RecordCost, PostMortem, Settle, In, Goto, NoDispatch, Dispatch
  <1>11. ASSUME NEW c \in Callers, DispatchDies(c)
         PROVE  ResultTrue(d)'
    BY <1>0, <1>1, <1>11 DEF DispatchDies, NoDispatch
  <1>12. ASSUME NEW t \in TaskIds, OperatorCancels(t)
         PROVE  ResultTrue(d)'
    BY <1>4, <1>12 DEF OperatorCancels
  <1>13. ASSUME JobEnds
         PROVE  ResultTrue(d)'
    BY <1>4, <1>13 DEF JobEnds
  <1> QED
    BY <1>2, <1>3, <1>5, <1>6, <1>7, <1>8, <1>9, <1>10, <1>11, <1>12, <1>13
    DEF DispatchNext, Proceed

\* Only Settle makes a task completada, only PostMortem records a success and
\* only Look and Settle tell one.
LEMMA OnlySettleSucceeds ==
  ASSUME SuccessInv, DispatchNext, NEW t \in TaskIds,
         Exists(t), tasks[t].status # "completada", tasks'[t].status = "completada"
  PROVE  \E c \in Callers : Settle(c) /\ dispatches[c].ok /\ dispatches[c].row = t
  <1>0. StoreInv /\ \A c \in Callers : HasTask(c)
    BY DEF SuccessInv, DispatchInv
  <1>1. ASSUME UNCHANGED storeVars
        PROVE  FALSE
    BY <1>1 DEF storeVars
  <1>2. ASSUME NEW c \in Callers, Settle(c)
        PROVE  dispatches[c].ok /\ dispatches[c].row = t
    <2>1. SetStatus(dispatches[c].row, Outcome(c)) /\ Outcome(c) \in Terminal
      BY <1>1, <1>2 DEF Settle, Outcome, Terminal
    <2>2. dispatches[c].row \in TaskIds
      BY <1>0, <1>2 DEF Settle, In, HasTask, Intended
    <2> QED
      BY <1>0, <2>1, <2>2, SetRow DEF Outcome
  <1>3. ASSUME NEW c \in Callers, Intend(c)
        PROVE  FALSE
    <2>1. PICK u \in TaskIds : AddTask(u, dispatches[c].key, "delegada")
      BY <1>1, <1>3 DEF Intend
    <2> QED
      BY <1>0, <2>1 DEF AddTask, Exists, StoreInv, StoreTypeOK
  <1>4. ASSUME NEW u \in TaskIds, OperatorCancels(u)
        PROVE  FALSE
    BY <1>0, <1>4, SetRow DEF OperatorCancels, CancelTask, Terminal
  <1>5. ASSUME NEW c \in Callers, Proceed(c), ~Settle(c), ~Intend(c)
        PROVE  FALSE
    BY <1>1, <1>5 DEF Proceed, Look, ExecuteCli, RunCli, CollectCli, ExecuteNothing,
       ExecuteFabric, FabricReturns, RecordCost, PostMortem
  <1> QED
    BY <1>1, <1>2, <1>3, <1>4, <1>5 DEF DispatchNext, Check, DispatchDies, JobEnds

LEMMA ClaimsKept ==
  ASSUME SuccessInv, DispatchNext
  PROVE  ClaimsTrue'
  <1>0. /\ StoreInv /\ StoreMove /\ ClaimsTrue
        /\ \A c \in Callers : OwnTask(c) /\ ResultTrue(c)
    BY StepMovesStore DEF SuccessInv, DispatchInv
  <1>1. ASSUME NEW t \in TaskIds, t \in postmortems', t \notin postmortems
        PROVE  Exists(t) /\ Succeeded(tasks[t].key)
    <2>1. PICK c \in Callers : PostMortem(c) /\ dispatches[c].ok /\ t = dispatches[c].row
      BY <1>1 DEF DispatchNext, Check, Proceed, Look, Intend, ExecuteCli, RunCli,
         CollectCli, ExecuteNothing, ExecuteFabric, FabricReturns, RecordCost,
         PostMortem, Settle, DispatchDies, OperatorCancels, JobEnds
    <2> QED
      BY <1>0, <2>1 DEF PostMortem, In, OwnTask, ResultTrue, Intended, RowsWith
  <1>2. ASSUME NEW t \in TaskIds, Exists(t), tasks[t].status # "completada",
               tasks'[t].status = "completada"
        PROVE  Succeeded(tasks[t].key)
    <2>1. PICK c \in Callers : Settle(c) /\ dispatches[c].ok /\ dispatches[c].row = t
      BY <1>2, OnlySettleSucceeds
    <2> QED
      BY <1>0, <2>1 DEF Settle, In, OwnTask, ResultTrue, Intended, RowsWith
  <1> SUFFICES ASSUME NEW t \in TaskIds
               PROVE  /\ t \in postmortems' => Exists(t)'
                      /\ (/\ Exists(t)'
                          /\ tasks'[t].key \in Requests
                          /\ tasks'[t].status = "completada" \/ t \in postmortems')
                             => Succeeded(tasks[t].key)'
    BY DEF ClaimsTrue
  <1>3. t \in postmortems' => Exists(t) /\ Exists(t)'
    BY <1>0, <1>1, RowsChange DEF ClaimsTrue, Exists
  <1>4. ASSUME Exists(t)', tasks'[t].key \in Requests,
               tasks'[t].status = "completada" \/ t \in postmortems'
        PROVE  Succeeded(tasks[t].key)'
    <2>1. Exists(t) /\ tasks'[t].key = tasks[t].key
      BY <1>0, <1>3, <1>4, RowsChange DEF Exists
    <2>2. Succeeded(tasks[t].key)
      BY <1>0, <1>1, <1>2, <1>4, <2>1 DEF ClaimsTrue
    <2> QED
      BY <1>4, <2>1, <2>2, SucceededStays DEF Succeeded, Bound
  <1> QED
    BY <1>3, <1>4

LEMMA ToldKept ==
  ASSUME SuccessInv, DispatchNext
  PROVE  ToldStands'
  <1>0. /\ StoreInv /\ StoreMove /\ ToldStands
        /\ \A c \in Callers : OwnTask(c)
    BY StepMovesStore DEF SuccessInv, DispatchInv
  <1>1. ASSUME NEW k, NEW t \in RowsWith(k), tasks[t].status = "completada"
        PROVE  t \in RowsWith(k)' /\ tasks'[t].status = "completada"
    BY <1>0, <1>1, RowsChange DEF RowsWith, Exists
  <1>2. ASSUME NEW k \in told', k \notin told
        PROVE  \/ \E t \in RowsWith(k) : tasks[t].status = "completada"
               \/ \E t \in RowsWith(k)' : tasks'[t].status = "completada"
    <2>1. PICK c \in Callers : Look(c) \/ Settle(c)
      BY <1>2 DEF DispatchNext, Check, Proceed, Intend, ExecuteCli, RunCli,
         CollectCli, ExecuteNothing, ExecuteFabric, FabricReturns, RecordCost,
         PostMortem, DispatchDies, OperatorCancels, JobEnds
    <2>2. CASE Look(c)
      BY <1>2, <2>2 DEF Look
    <2>3. CASE Settle(c)
      <3> DEFINE t == dispatches[c].row
      <3>1. k = dispatches[c].key /\ t \in RowsWith(k) /\ t \in TaskIds
        BY <1>0, <1>2, <2>3 DEF Settle, Tell, In, OwnTask, Intended, RowsWith
      <3>2. SetStatus(t, "completada")
        BY <1>2, <2>3 DEF Settle, Tell, Outcome
      <3>3. tasks'[t].status = "completada" /\ tasks'[t] # NoTask /\ tasks'[t].key = k
        BY <1>0, <3>1, <3>2, SetRow DEF Terminal, RowsWith
      <3> HIDE DEF t
      <3>4. t \in RowsWith(k)'
        BY <3>1, <3>3 DEF RowsWith, Exists
      <3> QED
        BY <3>3, <3>4
    <2> QED
      BY <2>1, <2>2, <2>3
  <1> QED
    BY <1>0, <1>1, <1>2 DEF ToldStands

LEMMA SuccessStep ==
  SuccessInv /\ [DispatchNext]_dispatchVars => SuccessInv'
  <1> SUFFICES ASSUME SuccessInv, [DispatchNext]_dispatchVars
               PROVE  SuccessInv'
    OBVIOUS
  <1>1. DispatchInv'
    BY DispatchStepInv DEF SuccessInv
  <1>2. CASE DispatchNext
    BY <1>1, <1>2, FreshKept, AnswerKept, OwnKept, ResultKept, ClaimsKept, ToldKept
    DEF SuccessInv
  <1>3. CASE UNCHANGED dispatchVars
    BY <1>1, <1>3
    DEF SuccessInv, dispatchVars, storeVars, cliVars, journalVars, FreshReference,
        AnswerTrue, OwnTask, ResultTrue, ClaimsTrue, ToldStands, RowsWith, Exists,
        Succeeded, Bound
  <1> QED
    BY <1>2, <1>3

\* No success is claimed of work that did not succeed, none that was reported
\* is taken back, whichever dispatches share, lose, cancel or abandon the task.
THEOREM DispatchSuccessSound ==
    ASSUME NoLegacyDispatch
    PROVE  DispatchSpec => []SuccessSound
  <1>1. DispatchInit => SuccessInv
    BY SuccessInit
  <1>2. SuccessInv => SuccessSound
    BY DEF SuccessInv, ClaimsTrue, ToldStands, SuccessSound, RowsWith
  <1> QED
    BY <1>1, <1>2, SuccessStep, PTL DEF DispatchSpec
=============================================================================
