-------------------------- MODULE MCProviderCalls --------------------------
(* Three callers: a probe, a caller that competes for the probe, and one    *)
(* whose call was admitted before the circuit opened and reports late.      *)
EXTENDS ProviderCalls, TLC

\* Callers are interchangeable; no liveness is checked.
MCCallers == Permutations(Callers)
=============================================================================
