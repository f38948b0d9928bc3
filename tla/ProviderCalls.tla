--------------------------- MODULE ProviderCalls ---------------------------
(***************************************************************************)
(* The calls that ask the circuit breaker (lilith_cli/providers.py,        *)
(* LLMProviderWrapper): complete, stream and the one request of            *)
(* _fabric_complete, with their retries.  The circuit is asked once, when  *)
(* the call begins; the requests of its retry loop are sent whatever       *)
(* became of the circuit in the meantime, and the call reports once, at    *)
(* its end.                                                                *)
(*                                                                         *)
(* A request is sent and its outcome (an answer, a status, a transport     *)
(* error) arrives at any later time; the delay before a retry is part of   *)
(* that time.  A provider without a profile neither asks nor reports, and  *)
(* is left out.                                                            *)
(***************************************************************************)
EXTENDS ProviderHealth

CONSTANT RetryMax   \* retry_max of the configuration

ASSUME CallsConstants == RetryMax \in Nat

VARIABLES
    provider,       \* "fabric" if the row is the Fabric's, "direct" if not
    requests        \* requests[c]: the requests of the call of c in flight

callVars == <<circuit, calls, opened, clock, provider, requests>>

\* sent: the requests sent so far; shown: those whose output the caller got
\* before the call's end (the chunks of a stream).
NoRequest == [mode |-> "none", sent |-> 0, shown |-> {}]
Modes     == IF provider = "fabric" THEN {"fabric"} ELSE {"complete", "stream"}

\* The Fabric owns failover: its calls are one request.
Budget(mode) == IF mode = "fabric" THEN 0 ELSE RetryMax

-----------------------------------------------------------------------------
CallsInit ==
    /\ HealthInit
    /\ provider \in {"fabric", "direct"}
    /\ requests = [c \in Callers |-> NoRequest]

\* The first request of a call that the circuit admits.  A call through the
\* Fabric cannot bypass it.
Begin(c) ==
    /\ \/ AllowNormal(c)
       \/ AllowProbe(c)
       \/ provider = "direct" /\ Bypass(c)
    /\ \E mode \in Modes :
          requests' = [requests EXCEPT ![c] = [mode |-> mode, sent |-> 1, shown |-> {}]]
    /\ UNCHANGED provider

\* A chunk of a stream reaches the caller.
Chunk(c) ==
    /\ requests[c].mode = "stream"
    /\ requests' = [requests EXCEPT ![c].shown = @ \cup {requests[c].sent}]
    /\ UNCHANGED <<circuit, calls, opened, clock, provider>>

\* Mutant: output does not forbid a retry.
LeftAny(c) == requests[c].sent <= Budget(requests[c].mode)

\* Mutant: the first request is not counted as an attempt.
LeftLate(c) == requests[c].sent <= Budget(requests[c].mode) + 1 /\ requests[c].shown = {}

\* Another request may be sent: the retries are not used up, and nothing of
\* the answer has been handed to the caller.
Left(c) == requests[c].sent <= Budget(requests[c].mode) /\ requests[c].shown = {}

\* A status 429 or 5xx or a transport error: the request is sent again, and
\* the circuit is not asked.
Resend(c) ==
    /\ calls[c] # Idle
    /\ Left(c)
    /\ requests' = [requests EXCEPT ![c].sent = @ + 1]
    /\ UNCHANGED <<circuit, calls, opened, clock, provider>>

End(c) == requests' = [requests EXCEPT ![c] = NoRequest] /\ UNCHANGED provider

Answer(c) == Succeed(c) /\ End(c)

\* The same errors when no request is left, any error of the Fabric, and an
\* error in the middle of a stream.
GiveUp(c) == ~Left(c) /\ RecordFailure(c, FALSE) /\ End(c)

\* Another status, or an answer that cannot be parsed: surfaced at once.
Refused(c) ==
    /\ requests[c].mode # "fabric"
    /\ requests[c].shown = {}
    /\ Fail(c)
    /\ End(c)

\* The call is cancelled, the caller closes the stream, the process dies, or
\* an error that stream and _fabric_complete do not catch: no report.
Drop(c) == Abandon(c) /\ End(c)

CallOperation(c) ==
    \/ Begin(c)
    \/ Chunk(c)
    \/ Resend(c)
    \/ Answer(c)
    \/ GiveUp(c)
    \/ Refused(c)
    \/ Drop(c)

CallsNext ==
    \/ \E c \in Callers : CallOperation(c)
    \/ (ResetProvider \/ PassTime) /\ UNCHANGED <<provider, requests>>

CallsSpec == CallsInit /\ [][CallsNext]_callVars

-----------------------------------------------------------------------------
\* What a call hands to its caller comes from one request: after the first
\* chunk of a stream no retry mixes in another answer.
OneOutput ==
    \A c \in Callers : \A m \in requests[c].shown : m = requests[c].sent

\* A call sends at most one request and retry_max retries, and the Fabric
\* gets one request (`never retries').
RequestsBounded ==
    \A c \in Callers :
       /\ requests[c].sent <= 1 + RetryMax
       /\ provider = "fabric" => requests[c].sent <= 1
=============================================================================
