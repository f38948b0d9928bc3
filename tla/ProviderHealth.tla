--------------------------- MODULE ProviderHealth ---------------------------
(***************************************************************************)
(* The circuit breaker that Lilith processes share for a provider          *)
(* (lilith_cli/provider_health.py, ProviderHealthRegistry), with the calls *)
(* that ask it (lilith_cli/providers.py, LLMProviderWrapper).  The rows of *)
(* two providers have nothing in common, so one row is modelled.           *)
(*                                                                         *)
(* Each operation is one BEGIN IMMEDIATE transaction, but reads the clock  *)
(* before it waits for the write lock (busy_timeout): `now' may be up to   *)
(* LockWait old in the transaction.                                        *)
(***************************************************************************)
EXTENDS Naturals

CONSTANTS
    Callers,        \* calls in progress, of any process
    Threshold,      \* circuit_breaker_failures of the profile, 1 to 20
    Cooldown,       \* circuit_breaker_cooldown, at least 1 second
    ProbeLease,     \* 30 seconds: how long a half-open probe is exclusive
    LockWait,       \* busy_timeout: how old `now' may be in a transaction
    MaxTime,        \* bound: the clock stops there
    MaxFailures     \* bound: consecutive failures stop there

VARIABLES
    circuit,        \* the provider's row
    calls,          \* calls[c]: what caller c has in flight
    opened,         \* time at which the failure that opened it was recorded
    clock

healthVars == <<circuit, calls, opened, clock>>

ASSUME HealthConstants ==
    /\ Threshold \in Nat \ {0}
    /\ Cooldown \in Nat \ {0}
    /\ ProbeLease \in Nat \ {0}
    /\ LockWait \in Nat
    /\ MaxTime \in Nat
    /\ MaxFailures \in Nat

States  == {"closed", "open", "half_open"}
Circuit == [state : States, failures : Nat, until : Nat]

\* A call admitted normally, as a probe with an exclusive lease, or without
\* asking (the doctor's `force').
Idle  == [kind |-> "idle", lease |-> 0]
Call  == [kind : {"idle", "normal", "probe", "forced"}, lease : Nat]

\* A provider without a row is treated like one with a closed circuit.
Closed == [state |-> "closed", failures |-> 0, until |-> 0]

\* The values time.time() may have had when the caller read it.
Stamps == {n \in 0..clock : n + LockWait >= clock}

-----------------------------------------------------------------------------
HealthInit ==
    /\ circuit = Closed
    /\ calls = [c \in Callers |-> Idle]
    /\ opened = 0
    /\ clock = 0

Admit(c, kind, lease) == calls' = [calls EXCEPT ![c] = [kind |-> kind, lease |-> lease]]

\* allow: a closed circuit lets everybody through.
AllowNormal(c) ==
    /\ calls[c] = Idle
    /\ circuit.state = "closed"
    /\ Admit(c, "normal", 0)
    /\ UNCHANGED <<circuit, opened, clock>>

\* Mutant: the probe does not renew the suppression of the others.
AllowProbeUnleased(c) ==
    /\ calls[c] = Idle
    /\ circuit.state # "closed"
    /\ \E now \in Stamps :
          /\ circuit.until <= now
          /\ circuit' = [circuit EXCEPT !.state = "half_open"]
          /\ Admit(c, "probe", now + ProbeLease)
    /\ UNCHANGED <<opened, clock>>

\* allow after the cooldown, or after the lease of a probe that never
\* reported: the caller becomes the probe.  Everybody else is refused, which
\* changes nothing.
AllowProbe(c) ==
    /\ calls[c] = Idle
    /\ circuit.state # "closed"
    /\ \E now \in Stamps :
          /\ circuit.until <= now
          /\ circuit' = [circuit EXCEPT !.state = "half_open", !.until = now + ProbeLease]
          /\ Admit(c, "probe", now + ProbeLease)
    /\ UNCHANGED <<opened, clock>>

\* bypass_circuit: the circuit is not asked.
Bypass(c) ==
    /\ calls[c] = Idle
    /\ Admit(c, "forced", 0)
    /\ UNCHANGED <<circuit, opened, clock>>

\* record_success of any call, however long ago it was admitted.
Succeed(c) ==
    /\ calls[c] # Idle
    /\ calls' = [calls EXCEPT ![c] = Idle]
    /\ circuit' = Closed
    /\ UNCHANGED <<opened, clock>>

\* Mutant: one failure more than the threshold.
ShouldOpenLate(permanent, count) == permanent \/ count > Threshold

ShouldOpen(permanent, count) == permanent \/ count >= Threshold

\* Mutant: the time of the last opening is kept.
OpenAsBefore(now, count) ==
    [state |-> "open", failures |-> count, until |-> circuit.until]

Open(now, count) == [state |-> "open", failures |-> count, until |-> now + Cooldown]

\* record_failure of any call: a failure that does not open the circuit
\* writes `closed', whatever was there.
RecordFailure(c, permanent) ==
    /\ calls[c] # Idle
    /\ circuit.failures < MaxFailures
    /\ calls' = [calls EXCEPT ![c] = Idle]
    /\ LET count == circuit.failures + 1 IN
         \E now \in Stamps :
            IF ShouldOpen(permanent, count)
              THEN circuit' = Open(now, count) /\ opened' = clock
              ELSE /\ circuit' = [state |-> "closed", failures |-> count, until |-> 0]
                   /\ UNCHANGED opened
    /\ UNCHANGED clock

\* HTTP 401 and 403 are permanent failures.
Fail(c) == \E permanent \in BOOLEAN : RecordFailure(c, permanent)

\* The call is cancelled, its process dies, or its answer is malformed:
\* nothing is recorded.
Abandon(c) ==
    /\ calls[c] # Idle
    /\ calls' = [calls EXCEPT ![c] = Idle]
    /\ UNCHANGED <<circuit, opened, clock>>

\* reset deletes the row.
ResetProvider ==
    /\ circuit' = Closed
    /\ UNCHANGED <<calls, opened, clock>>

PassTime ==
    /\ clock < MaxTime
    /\ clock' = clock + 1
    /\ UNCHANGED <<circuit, calls, opened>>

CallStep(c) ==
    \/ AllowNormal(c)
    \/ AllowProbe(c)
    \/ Bypass(c)
    \/ Succeed(c)
    \/ Fail(c)
    \/ Abandon(c)

HealthNext ==
    \/ \E c \in Callers : CallStep(c)
    \/ ResetProvider
    \/ PassTime

HealthSpec == HealthInit /\ [][HealthNext]_healthVars

-----------------------------------------------------------------------------
\* The row and the calls keep their shape.
HealthTypeOK ==
    /\ circuit \in Circuit
    /\ calls \in [Callers -> Call]
    /\ opened \in 0..clock
    /\ clock \in 0..MaxTime

\* The circuit is never shut for longer than one cooldown or one probe's lease
\* from now, however many failures are reported and in whatever order.
OutageBounded == circuit.until <= clock + Cooldown \/ circuit.until <= clock + ProbeLease

LiveProbe(c) == calls[c].kind = "probe" /\ calls[c].lease > clock

\* At most one probe has an unexpired lease, although late reports of calls
\* admitted before the circuit opened move it to any state in the meantime
\* (`lease exactly one probe; other processes are rejected').
OneProbe == \A b, c \in Callers : (LiveProbe(b) /\ LiveProbe(c)) => b = c

\* While the circuit is open no call is admitted before the cooldown that its
\* opening failure imposed is over, up to the age of the clock readings.
CooldownRespected ==
    [][\A c \in Callers :
          (/\ circuit.state = "open"
           /\ calls[c].kind = "idle"
           /\ calls'[c].kind \in {"normal", "probe"})
              => clock + LockWait >= opened + Cooldown]_healthVars

\* A failed call never closes a circuit that is open or being probed: the
\* step that counts a failure leaves it open.
FailureKeepsOpen ==
    [][(circuit.state # "closed" /\ circuit'.failures > circuit.failures)
            => circuit'.state = "open"]_healthVars
=============================================================================
