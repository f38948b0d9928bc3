----------------------------- MODULE AtMostOnce -----------------------------
(***************************************************************************)
(* What a request id promises to whoever delegates with it: however many   *)
(* callers use it, together or one after another, and wherever one of them *)
(* stops, the work is started at most once, and what was observed of it is *)
(* written at most once and never revised.                                 *)
(***************************************************************************)
CONSTANTS Requests, Verdicts, NoVerdict

VARIABLES
    phase,      \* request -> "free", "taken", "started" or "settled"
    verdict     \* request -> what was observed of its work, or NoVerdict

Init ==
    /\ phase = [q \in Requests |-> "free"]
    /\ verdict = [q \in Requests |-> NoVerdict]

Advance(q, from, to) ==
    /\ phase[q] \in from
    /\ phase' = [phase EXCEPT ![q] = to]

Take(q)  == Advance(q, {"free"}, "taken") /\ UNCHANGED verdict
Start(q) == Advance(q, {"taken"}, "started") /\ UNCHANGED verdict

\* Work that was never started cannot be seen to have succeeded.
Settle(q, v) ==
    /\ Advance(q, {"taken", "started"}, "settled")
    /\ v = "ok" => phase[q] = "started"
    /\ verdict' = [verdict EXCEPT ![q] = v]

Next == \E q \in Requests :
            \/ Take(q)
            \/ Start(q)
            \/ \E v \in Verdicts : Settle(q, v)

Spec == Init /\ [][Next]_<<phase, verdict>>
=============================================================================
