--------------------------- MODULE ProviderProofs ---------------------------
(***************************************************************************)
(* Proofs about the circuit breaker and the calls that go through it, for  *)
(* any number of callers, any durations and without the bounds of the      *)
(* model-checked instance.                                                 *)
(*                                                                         *)
(* First the circuit of ProviderHealth; then the calls of ProviderCalls,   *)
(* which implement its specification, so that what is shown of the circuit *)
(* holds with them; and the two promises of the retry loops.               *)
(***************************************************************************)
EXTENDS ProviderCalls, TLAPS

\* The configuration under which a probe is exclusive: a circuit that is
\* opened again while a probe is out stays open until the probe's lease ends.
CooldownCoversProbe == Cooldown >= ProbeLease + LockWait

\* A lease is at most its length away, and a circuit that is not closed is
\* shut at least until the lease of every live probe ends.
LeaseInv == \A c \in Callers : calls[c].lease <= clock + ProbeLease
ProbeInv ==
    \A c \in Callers :
        LiveProbe(c) => circuit.state = "closed" \/ circuit.until >= calls[c].lease

\* An open circuit remembers the failure that opened it.
CooldownInv == circuit.state = "open" => circuit.until + LockWait >= opened + Cooldown
CountInv    == circuit.state # "closed" => circuit.failures > 0

HealthInv == HealthTypeOK /\ LeaseInv /\ CooldownInv /\ CountInv /\ OutageBounded
ExclusiveInv == HealthInv /\ ProbeInv /\ OneProbe

LEMMA InitHealthInv == HealthInit => HealthInv
  BY HealthConstants
  DEF HealthInit, HealthInv, HealthTypeOK, LeaseInv, CooldownInv, CountInv,
      OutageBounded, Closed, Idle, Circuit, Call, States

\* The shapes of the values that the actions write.
LEMMA StampRange ==
  ASSUME clock \in Nat, NEW now \in Stamps
  PROVE  now \in Nat /\ now <= clock /\ now + LockWait >= clock
  BY HealthConstants DEF Stamps

LEMMA StepHealthInv == HealthInv /\ [HealthNext]_healthVars => HealthInv'
  <1> SUFFICES ASSUME HealthInv, [HealthNext]_healthVars
               PROVE  HealthInv'
    OBVIOUS
  <1> USE HealthConstants
  <1>0. /\ circuit \in Circuit /\ calls \in [Callers -> Call]
        /\ opened \in 0..clock /\ clock \in 0..MaxTime /\ clock \in Nat
        /\ LeaseInv /\ CooldownInv /\ CountInv /\ OutageBounded
    BY DEF HealthInv, HealthTypeOK
  <1>1. ASSUME NEW c \in Callers, AllowNormal(c)
        PROVE  HealthInv'
    BY <1>0, <1>1
    DEF AllowNormal, Admit, Idle, Call, HealthInv, HealthTypeOK, LeaseInv,
        CooldownInv, CountInv, OutageBounded
  <1>2. ASSUME NEW c \in Callers, AllowProbe(c)
        PROVE  HealthInv'
    <2>1. PICK now \in Stamps :
            /\ circuit.until <= now
            /\ circuit' = [circuit EXCEPT !.state = "half_open", !.until = now + ProbeLease]
            /\ Admit(c, "probe", now + ProbeLease)
      BY <1>2 DEF AllowProbe
    <2>2. now \in Nat /\ now <= clock
      BY <1>0, StampRange
    <2>a. circuit.failures > 0
      BY <1>0, <1>2 DEF CountInv, AllowProbe
    <2>3. circuit' \in Circuit /\ circuit'.state = "half_open"
          /\ circuit'.until = now + ProbeLease /\ circuit'.failures > 0
      <3>1. circuit' = [circuit EXCEPT !.state = "half_open", !.until = now + ProbeLease]
        BY <2>1
      <3>2. now + ProbeLease \in Nat
        BY <2>2
      <3> QED
        BY <1>0, <2>a, <3>1, <3>2 DEF Circuit, States
    <2>4. calls' \in [Callers -> Call] /\ LeaseInv'
      BY <1>0, <1>2, <2>1, <2>2 DEF Admit, Call, LeaseInv, AllowProbe
    <2> QED
      BY <1>0, <1>2, <2>2, <2>3, <2>4
      DEF AllowProbe, HealthInv, HealthTypeOK, CooldownInv, CountInv, OutageBounded
  <1>3. ASSUME NEW c \in Callers, Bypass(c)
        PROVE  HealthInv'
    BY <1>0, <1>3
    DEF Bypass, Admit, Idle, Call, HealthInv, HealthTypeOK, LeaseInv,
        CooldownInv, CountInv, OutageBounded
  <1>4. ASSUME NEW c \in Callers, Succeed(c)
        PROVE  HealthInv'
    BY <1>0, <1>4
    DEF Succeed, Idle, Call, Closed, Circuit, States, HealthInv, HealthTypeOK,
        LeaseInv, CooldownInv, CountInv, OutageBounded
  <1>5. ASSUME NEW c \in Callers, Fail(c)
        PROVE  HealthInv'
    <2> DEFINE count == circuit.failures + 1
    <2>1. PICK now \in Stamps, permanent \in BOOLEAN :
            IF ShouldOpen(permanent, count)
              THEN circuit' = Open(now, count) /\ opened' = clock
              ELSE /\ circuit' = [state |-> "closed", failures |-> count, until |-> 0]
                   /\ UNCHANGED opened
      BY <1>5 DEF Fail, RecordFailure
    <2>2. now \in Nat /\ now <= clock /\ now + LockWait >= clock
      BY <1>0, StampRange
    <2>3. count \in Nat /\ count > 0
      BY <1>0 DEF Circuit
    <2>4. calls' \in [Callers -> Call] /\ LeaseInv' /\ UNCHANGED clock
      BY <1>0, <1>5 DEF Fail, RecordFailure, Idle, Call, LeaseInv
    <2>5. CASE ShouldOpen(permanent, count)
      <3>1. circuit' = [state |-> "open", failures |-> count, until |-> now + Cooldown]
            /\ opened' = clock
        BY <2>1, <2>5 DEF Open
      <3> QED
        BY <1>0, <2>2, <2>3, <2>4, <3>1
        DEF Circuit, States, HealthInv, HealthTypeOK, CooldownInv, CountInv, OutageBounded
    <2>6. CASE ~ShouldOpen(permanent, count)
      <3>1. circuit' = [state |-> "closed", failures |-> count, until |-> 0]
            /\ opened' = opened
        BY <2>1, <2>6
      <3> QED
        BY <1>0, <2>2, <2>3, <2>4, <3>1
        DEF Circuit, States, HealthInv, HealthTypeOK, CooldownInv, CountInv, OutageBounded
    <2> QED
      BY <2>5, <2>6
  <1>6. ASSUME NEW c \in Callers, Abandon(c)
        PROVE  HealthInv'
    BY <1>0, <1>6
    DEF Abandon, Idle, Call, HealthInv, HealthTypeOK, LeaseInv, CooldownInv,
        CountInv, OutageBounded
  <1>7. CASE ResetProvider
    BY <1>0, <1>7
    DEF ResetProvider, Closed, Circuit, States, HealthInv, HealthTypeOK,
        LeaseInv, CooldownInv, CountInv, OutageBounded
  <1>8. CASE PassTime
    BY <1>0, <1>8
    DEF PassTime, Circuit, Call, HealthInv, HealthTypeOK, LeaseInv,
        CooldownInv, CountInv, OutageBounded
  <1>9. CASE UNCHANGED healthVars
    BY <1>0, <1>9
    DEF healthVars, HealthInv, HealthTypeOK, LeaseInv, CooldownInv, CountInv,
        OutageBounded
  <1>10. CASE \E c \in Callers : CallStep(c)
    <2>1. PICK c \in Callers : CallStep(c)
      BY <1>10
    <2> QED
      BY <2>1, <1>1, <1>2, <1>3, <1>4, <1>5, <1>6 DEF CallStep
  <1> QED
    BY <1>7, <1>8, <1>9, <1>10 DEF HealthNext

LEMMA HealthInvariant == HealthSpec => []HealthInv
  BY InitHealthInv, StepHealthInv, PTL DEF HealthSpec

\* The row and the calls keep their shape, for any callers and durations.
THEOREM HealthTypeCorrect == HealthSpec => []HealthTypeOK
  <1>1. HealthInv => HealthTypeOK
    BY DEF HealthInv
  <1> QED
    BY <1>1, HealthInvariant, PTL

\* The circuit is never shut for longer than one cooldown or probe lease.
THEOREM HealthOutageBounded == HealthSpec => []OutageBounded
  <1>1. HealthInv => OutageBounded
    BY DEF HealthInv
  <1> QED
    BY <1>1, HealthInvariant, PTL

-----------------------------------------------------------------------------
LEMMA InitExclusiveInv == HealthInit => ExclusiveInv
  BY InitHealthInv DEF HealthInit, ExclusiveInv, ProbeInv, OneProbe, LiveProbe, Idle

LEMMA StepExclusiveInv ==
  ASSUME CooldownCoversProbe
  PROVE  ExclusiveInv /\ [HealthNext]_healthVars => ExclusiveInv'
  <1> SUFFICES ASSUME ExclusiveInv, [HealthNext]_healthVars
               PROVE  ProbeInv' /\ OneProbe'
    BY StepHealthInv DEF ExclusiveInv
  <1> USE HealthConstants
  <1>0. /\ circuit \in Circuit /\ calls \in [Callers -> Call] /\ clock \in Nat
        /\ LeaseInv /\ ProbeInv /\ OneProbe
    BY DEF ExclusiveInv, HealthInv, HealthTypeOK
  \* A step that admits no probe leaves at most the live probes there were.
  <1>a. ASSUME clock' \in Nat, clock' >= clock,
               \A b \in Callers :
                  calls'[b].kind = "probe" => calls'[b] = calls[b]
        PROVE  OneProbe' /\ \A b \in Callers : LiveProbe(b)' => LiveProbe(b)
    BY <1>0, <1>a DEF OneProbe, LiveProbe, Call
  <1>1. ASSUME NEW c \in Callers, AllowNormal(c) \/ Bypass(c) \/ Abandon(c)
        PROVE  ProbeInv' /\ OneProbe'
    <2>1. /\ UNCHANGED <<circuit, clock>>
          /\ \A b \in Callers : calls'[b].kind = "probe" => calls'[b] = calls[b]
      BY <1>0, <1>1 DEF AllowNormal, Bypass, Abandon, Admit, Idle
    <2> QED
      BY <1>0, <1>a, <2>1 DEF ProbeInv, LiveProbe
  <1>2. ASSUME NEW c \in Callers, AllowProbe(c)
        PROVE  ProbeInv' /\ OneProbe'
    <2>1. PICK now \in Stamps :
            /\ circuit.until <= now
            /\ circuit' = [circuit EXCEPT !.state = "half_open", !.until = now + ProbeLease]
            /\ Admit(c, "probe", now + ProbeLease)
      BY <1>2 DEF AllowProbe
    <2>2. now \in Nat /\ now <= clock /\ UNCHANGED clock /\ circuit.state # "closed"
      BY <1>0, <1>2, StampRange DEF AllowProbe
    <2>3. \A b \in Callers : ~LiveProbe(b)
      BY <1>0, <2>1, <2>2 DEF ProbeInv, LiveProbe, Circuit, Call
    <2>4. \A b \in Callers \ {c} : calls'[b] = calls[b]
      BY <1>0, <2>1 DEF Admit
    <2>5. \A b \in Callers : LiveProbe(b)' => b = c
      BY <2>2, <2>3, <2>4 DEF LiveProbe
    <2>6. circuit'.until = now + ProbeLease /\ calls'[c].lease = now + ProbeLease
      BY <1>0, <2>1 DEF Admit, Circuit
    <2> QED
      BY <2>2, <2>5, <2>6 DEF ProbeInv, OneProbe
  <1>3. ASSUME NEW c \in Callers, Succeed(c)
        PROVE  ProbeInv' /\ OneProbe'
    <2>1. /\ circuit'.state = "closed" /\ UNCHANGED clock
          /\ \A b \in Callers : calls'[b].kind = "probe" => calls'[b] = calls[b]
      BY <1>0, <1>3 DEF Succeed, Idle, Closed
    <2> QED
      BY <1>0, <1>a, <2>1 DEF ProbeInv
  <1>4. ASSUME NEW c \in Callers, Fail(c)
        PROVE  ProbeInv' /\ OneProbe'
    <2>1. /\ UNCHANGED clock
          /\ \A b \in Callers : calls'[b].kind = "probe" => calls'[b] = calls[b]
      BY <1>0, <1>4 DEF Fail, RecordFailure, Idle
    <2>2. circuit'.state = "closed" \/ circuit'.until >= clock + ProbeLease
      <3> DEFINE count == circuit.failures + 1
      <3>1. PICK now \in Stamps, permanent \in BOOLEAN :
              IF ShouldOpen(permanent, count)
                THEN circuit' = Open(now, count) /\ opened' = clock
                ELSE /\ circuit' = [state |-> "closed", failures |-> count, until |-> 0]
                     /\ UNCHANGED opened
        BY <1>4 DEF Fail, RecordFailure
      <3>2. now \in Nat /\ now + LockWait >= clock
        BY <1>0, StampRange
      <3> HIDE DEF count
      <3> QED
        BY <1>0, <3>1, <3>2 DEF Open, CooldownCoversProbe
    <2>3. \A b \in Callers : LiveProbe(b) => calls[b].lease <= clock + ProbeLease
      BY <1>0 DEF LeaseInv
    <2>4. OneProbe' /\ \A b \in Callers : LiveProbe(b)' => LiveProbe(b) /\ calls'[b] = calls[b]
      BY <1>0, <1>a, <2>1 DEF LiveProbe
    <2>5. circuit'.state = "closed" \/ circuit'.until \in Nat
      <3>1. HealthInv'
        BY StepHealthInv DEF ExclusiveInv
      <3> QED
        BY <3>1 DEF HealthInv, HealthTypeOK, Circuit
    <2> QED
      BY <1>0, <2>2, <2>3, <2>4, <2>5 DEF ProbeInv, Call
  <1>5. CASE ResetProvider
    <2>1. circuit'.state = "closed" /\ UNCHANGED <<calls, clock>>
      BY <1>5 DEF ResetProvider, Closed
    <2> QED
      BY <1>0, <1>a, <2>1 DEF ProbeInv
  <1>6. CASE PassTime
    <2>1. UNCHANGED <<circuit, calls>> /\ clock' \in Nat /\ clock' >= clock
      BY <1>0, <1>6 DEF PassTime
    <2> QED
      BY <1>0, <1>a, <2>1 DEF ProbeInv
  <1>7. CASE UNCHANGED healthVars
    BY <1>0, <1>7 DEF healthVars, ProbeInv, OneProbe, LiveProbe
  <1> QED
    BY <1>1, <1>2, <1>3, <1>4, <1>5, <1>6, <1>7 DEF HealthNext, CallStep

\* With a cooldown that covers a probe's lease and the wait for the lock, at
\* most one probe has an unexpired lease, whatever late reports arrive.
THEOREM HealthOneProbe ==
  ASSUME CooldownCoversProbe
  PROVE  HealthSpec => []OneProbe
  <1>1. ExclusiveInv /\ [HealthNext]_healthVars => ExclusiveInv'
    BY StepExclusiveInv
  <1>2. ExclusiveInv => OneProbe
    BY DEF ExclusiveInv
  <1> QED
    BY InitExclusiveInv, <1>1, <1>2, PTL DEF HealthSpec

-----------------------------------------------------------------------------
\* No call is admitted to an open circuit before its cooldown is over.
THEOREM HealthCooldownRespected == HealthSpec => CooldownRespected
  <1>1. ASSUME HealthInv, [HealthNext]_healthVars,
               NEW c \in Callers, circuit.state = "open", calls[c].kind = "idle",
               calls'[c].kind \in {"normal", "probe"}
        PROVE  clock + LockWait >= opened + Cooldown
    <2> USE HealthConstants
    <2>0. /\ circuit \in Circuit /\ calls \in [Callers -> Call]
          /\ clock \in Nat /\ opened \in Nat /\ CooldownInv
      BY <1>1 DEF HealthInv, HealthTypeOK
    <2>a. calls'[c] # calls[c]
      BY <1>1
    <2>b. PICK d \in Callers : CallStep(d)
      BY <1>1, <2>a DEF HealthNext, ResetProvider, PassTime, healthVars
    <2>c. d = c
      BY <2>0, <2>a, <2>b
      DEF CallStep, AllowNormal, AllowProbe, Bypass, Succeed, Fail, RecordFailure, Abandon, Admit
    <2>1. AllowProbe(c)
      <3>1. ~AllowNormal(c)
        BY <1>1 DEF AllowNormal
      <3>2. ~Bypass(c)
        BY <1>1, <2>0 DEF Bypass, Admit
      <3>3. ~(Succeed(c) \/ Fail(c) \/ Abandon(c))
        BY <1>1, <2>0 DEF Succeed, Fail, RecordFailure, Abandon, Idle
      <3> QED
        BY <2>b, <2>c, <3>1, <3>2, <3>3 DEF CallStep
    <2>2. PICK now \in Stamps : circuit.until <= now
      BY <2>1 DEF AllowProbe
    <2>3. now \in Nat /\ now <= clock
      BY <2>0, StampRange
    <2> QED
      BY <1>1, <2>0, <2>2, <2>3 DEF CooldownInv, Circuit
  <1>2. HealthInv /\ [HealthNext]_healthVars =>
          [\A c \in Callers :
             (/\ circuit.state = "open"
              /\ calls[c].kind = "idle"
              /\ calls'[c].kind \in {"normal", "probe"})
                 => clock + LockWait >= opened + Cooldown]_healthVars
    BY <1>1
  <1> QED
    BY <1>2, HealthInvariant, PTL DEF HealthSpec, CooldownRespected

\* With a threshold of one or two failures, a failure never closes a circuit
\* that is open or half open (with three, the failure after a permanent one
\* does).
THEOREM HealthFailureKeepsOpen ==
  ASSUME Threshold <= 2
  PROVE  HealthSpec => FailureKeepsOpen
  <1>1. ASSUME HealthInv, [HealthNext]_healthVars,
               circuit.state # "closed", circuit'.failures > circuit.failures
        PROVE  circuit'.state = "open"
    <2> USE HealthConstants
    <2>0. circuit \in Circuit /\ circuit.failures > 0
      BY <1>1 DEF HealthInv, HealthTypeOK, CountInv
    <2>a. circuit'.failures \in Nat /\ circuit'.failures # circuit.failures
          /\ circuit' # Closed
      BY <1>1, <2>0, StepHealthInv DEF HealthInv, HealthTypeOK, Circuit, Closed
    <2>b. PICK c \in Callers : CallStep(c)
      BY <1>1, <2>a DEF HealthNext, ResetProvider, PassTime, healthVars
    <2>c. ~(AllowNormal(c) \/ AllowProbe(c) \/ Bypass(c) \/ Succeed(c) \/ Abandon(c))
      BY <2>0, <2>a DEF AllowNormal, AllowProbe, Bypass, Succeed, Abandon, Circuit
    <2>1. Fail(c)
      BY <2>b, <2>c DEF CallStep
    <2>2. \A permanent \in BOOLEAN : ShouldOpen(permanent, circuit.failures + 1)
      BY <2>0 DEF ShouldOpen, Circuit
    <2> QED
      BY <2>1, <2>2 DEF Fail, RecordFailure, Open
  <1>2. HealthInv /\ [HealthNext]_healthVars =>
          [(circuit.state # "closed" /\ circuit'.failures > circuit.failures)
              => circuit'.state = "open"]_healthVars
    BY <1>1
  <1> QED
    BY <1>2, HealthInvariant, PTL DEF HealthSpec, FailureKeepsOpen

-----------------------------------------------------------------------------
(* The calls implement the circuit breaker's specification, which knows    *)
(* nothing of requests and retries.                                        *)

LEMMA CallsStepIsHealthStep == [CallsNext]_callVars => [HealthNext]_healthVars
  <1> SUFFICES ASSUME [CallsNext]_callVars
               PROVE  [HealthNext]_healthVars
    OBVIOUS
  <1>1. ASSUME NEW c \in Callers, CallOperation(c)
        PROVE  CallStep(c) \/ UNCHANGED healthVars
    <2>1. CASE Begin(c)
      BY <2>1 DEF Begin, CallStep
    <2>2. CASE Chunk(c) \/ Resend(c)
      BY <2>2 DEF Chunk, Resend, healthVars
    <2>3. CASE GiveUp(c)
      <3>1. RecordFailure(c, FALSE)
        BY <2>3 DEF GiveUp
      <3> QED
        BY <3>1 DEF Fail, CallStep
    <2>4. CASE Answer(c) \/ Refused(c) \/ Drop(c)
      BY <2>4 DEF Answer, Refused, Drop, CallStep
    <2> QED
      BY <1>1, <2>1, <2>2, <2>3, <2>4 DEF CallOperation
  <1>2. CASE UNCHANGED callVars
    BY <1>2 DEF callVars, healthVars
  <1> QED
    BY <1>1, <1>2 DEF CallsNext, HealthNext

\* Every behaviour of the calls is one of the circuit breaker: a chunk and a
\* retry are stutters, since neither asks the circuit nor reports to it.
THEOREM CallsImplementHealth == CallsSpec => HealthSpec
  <1>1. CallsInit => HealthInit
    BY DEF CallsInit
  <1> QED
    BY <1>1, CallsStepIsHealthStep, PTL DEF CallsSpec, HealthSpec

\* With retries, too, one probe at a time is out.
THEOREM CallsOneProbe ==
  ASSUME CooldownCoversProbe
  PROVE  CallsSpec => []OneProbe
  BY CallsImplementHealth, HealthOneProbe, PTL

\* With retries, too, a call is admitted to an open circuit only after its
\* cooldown.
THEOREM CallsCooldownRespected == CallsSpec => CooldownRespected
  BY CallsImplementHealth, HealthCooldownRespected, PTL

\* With retries, too, a failure never closes an open circuit.
THEOREM CallsFailureKeepsOpen ==
  ASSUME Threshold <= 2
  PROVE  CallsSpec => FailureKeepsOpen
  BY CallsImplementHealth, HealthFailureKeepsOpen, PTL

-----------------------------------------------------------------------------
Request == [mode : {"none", "fabric", "complete", "stream"}, sent : Nat, shown : SUBSET Nat]

\* A call through the Fabric's row is in the mode that has no retries.
RequestsInv ==
    /\ requests \in [Callers -> Request]
    /\ \A c \in Callers :
          /\ requests[c].mode = "none" => requests[c].sent = 0
          /\ provider = "fabric" => requests[c].mode \in {"none", "fabric"}
    /\ \A c \in Callers : calls[c] # Idle => requests[c].mode # "none"
    /\ OneOutput
    /\ RequestsBounded

LEMMA InitRequestsInv == CallsInit => RequestsInv
  BY CallsConstants
  DEF CallsInit, HealthInit, NoRequest, Request, RequestsInv, OneOutput, RequestsBounded

LEMMA StepRequestsInv ==
  HealthTypeOK /\ RequestsInv /\ [CallsNext]_callVars => RequestsInv'
  <1> SUFFICES ASSUME HealthTypeOK, RequestsInv, [CallsNext]_callVars
               PROVE  RequestsInv'
    OBVIOUS
  <1> USE CallsConstants
  <1>0. /\ requests \in [Callers -> Request]
        /\ calls \in [Callers -> Call]
        /\ \A c \in Callers :
              /\ requests[c].mode = "none" => requests[c].sent = 0
              /\ provider = "fabric" => requests[c].mode \in {"none", "fabric"}
        /\ \A c \in Callers : calls[c] # Idle => requests[c].mode # "none"
        /\ OneOutput
        /\ RequestsBounded
    BY DEF RequestsInv, HealthTypeOK
  \* What one call does to its own entry decides.
  <1>a. ASSUME NEW c \in Callers, NEW r \in Request,
               requests' = [requests EXCEPT ![c] = r], UNCHANGED provider,
               \A b \in Callers \ {c} : calls'[b] = calls[b],
               calls'[c] # Idle => r.mode # "none",
               r.mode = "none" => r.sent = 0,
               provider = "fabric" => r.mode \in {"none", "fabric"} /\ r.sent <= 1,
               r.sent <= 1 + RetryMax,
               \A m \in r.shown : m = r.sent
        PROVE  RequestsInv'
    BY <1>0, <1>a DEF RequestsInv, OneOutput, RequestsBounded
  <1>1. ASSUME NEW c \in Callers, Begin(c)
        PROVE  RequestsInv'
    <2>1. PICK mode \in Modes :
            requests' = [requests EXCEPT ![c] = [mode |-> mode, sent |-> 1, shown |-> {}]]
      BY <1>1 DEF Begin
    <2>2. UNCHANGED provider /\ \A b \in Callers \ {c} : calls'[b] = calls[b]
      BY <1>0, <1>1 DEF Begin, AllowNormal, AllowProbe, Bypass, Admit
    <2> DEFINE r == [mode |-> mode, sent |-> 1, shown |-> {}]
    <2>3. /\ r \in Request
          /\ r.mode # "none" /\ (provider = "fabric" => r.mode = "fabric")
          /\ r.sent = 1 /\ r.shown = {}
      BY DEF Modes, Request
    <2>4. requests' = [requests EXCEPT ![c] = r]
      BY <2>1
    <2>5. r.sent <= 1 + RetryMax /\ r.sent <= 1 /\ \A m \in r.shown : m = r.sent
      BY <2>3
    <2> HIDE DEF r
    <2>6. provider = "fabric" => r.mode \in {"none", "fabric"} /\ r.sent <= 1
      BY <2>3, <2>5
    <2> QED
      BY <1>a, <2>2, <2>3, <2>4, <2>5, <2>6
  <1>2. ASSUME NEW c \in Callers, Chunk(c)
        PROVE  RequestsInv'
    <2> DEFINE r == [requests[c] EXCEPT !.shown = @ \cup {requests[c].sent}]
    <2>1. requests' = [requests EXCEPT ![c] = r] /\ UNCHANGED <<calls, provider>>
      BY <1>2 DEF Chunk
    <2>2. /\ r \in Request
          /\ r.mode = "stream" /\ r.sent = requests[c].sent
          /\ r.shown = requests[c].shown \cup {requests[c].sent}
      BY <1>0, <1>2 DEF Chunk, Request
    <2>3. \A m \in r.shown : m = r.sent
      BY <1>0, <2>2 DEF OneOutput
    <2>4. r.sent <= 1 + RetryMax /\ provider # "fabric"
      BY <1>0, <1>2, <2>2 DEF RequestsBounded, Chunk
    <2> HIDE DEF r
    <2> QED
      BY <1>a, <2>1, <2>2, <2>3, <2>4
  <1>3. ASSUME NEW c \in Callers, Resend(c)
        PROVE  RequestsInv'
    <2> DEFINE r == [requests[c] EXCEPT !.sent = @ + 1]
    <2>1. requests' = [requests EXCEPT ![c] = r] /\ UNCHANGED <<calls, provider>>
      BY <1>3 DEF Resend
    <2>2. /\ r \in Request
          /\ r.mode = requests[c].mode /\ r.sent = requests[c].sent + 1
          /\ r.shown = {}
      BY <1>0, <1>3 DEF Resend, Left, Request
    <2>3. r.mode # "none" /\ (provider = "fabric" => r.mode = "fabric")
      BY <1>0, <1>3, <2>2 DEF Resend
    <2>4. r.sent <= 1 + Budget(r.mode) /\ requests[c].sent \in Nat
      BY <1>0, <1>3, <2>2 DEF Resend, Left, Budget, Request
    <2>5. r.sent <= 1 + RetryMax /\ (provider = "fabric" => r.sent <= 1)
      BY <2>2, <2>3, <2>4 DEF Budget
    <2> HIDE DEF r
    <2> QED
      BY <1>a, <2>1, <2>2, <2>3, <2>5
  <1>4. ASSUME NEW c \in Callers, Answer(c) \/ GiveUp(c) \/ Refused(c) \/ Drop(c)
        PROVE  RequestsInv'
    <2>1. requests' = [requests EXCEPT ![c] = NoRequest] /\ UNCHANGED provider
      BY <1>4 DEF Answer, GiveUp, Refused, Drop, End
    <2>2. calls' = [calls EXCEPT ![c] = Idle]
      BY <1>4
      DEF Answer, GiveUp, Refused, Drop, Succeed, Fail, RecordFailure, Abandon
    <2> QED
      BY <1>0, <2>1, <2>2
      DEF RequestsInv, OneOutput, RequestsBounded, NoRequest, Request
  <1>5. CASE (ResetProvider \/ PassTime) /\ UNCHANGED <<provider, requests>>
    BY <1>0, <1>5 DEF ResetProvider, PassTime, RequestsInv, OneOutput, RequestsBounded
  <1>6. CASE UNCHANGED callVars
    BY <1>0, <1>6 DEF callVars, RequestsInv, OneOutput, RequestsBounded
  <1> QED
    BY <1>1, <1>2, <1>3, <1>4, <1>5, <1>6 DEF CallsNext, CallOperation

LEMMA RequestsInvariant == CallsSpec => []RequestsInv
  <1>1. CallsSpec => []HealthTypeOK
    BY CallsImplementHealth, HealthTypeCorrect, PTL
  <1> QED
    BY <1>1, InitRequestsInv, StepRequestsInv, PTL DEF CallsSpec

\* Whatever fails and is retried, a caller never gets output of two requests.
THEOREM CallsOneOutput == CallsSpec => []OneOutput
  <1>1. RequestsInv => OneOutput
    BY DEF RequestsInv
  <1> QED
    BY <1>1, RequestsInvariant, PTL

\* A call costs its provider at most retry_max + 1 requests, for any retry_max.
THEOREM CallsRequestsBounded == CallsSpec => []RequestsBounded
  <1>1. RequestsInv => RequestsBounded
    BY DEF RequestsInv
  <1> QED
    BY <1>1, RequestsInvariant, PTL
=============================================================================
