------------------------ MODULE MCOrchestrationStore ------------------------
(* Two tasks, two owners and one idempotency key: enough for two owners to  *)
(* compete for a lease and for two adds to compete for a key.  One second   *)
(* of lock wait is enough for an operation to run after a lease that was    *)
(* live when its caller read the clock has expired.                         *)
EXTENDS OrchestrationStore, TLC

\* Snapshots of the JSON compatibility backend, which keeps lease_owner in
\* the payload and has no lease table.
MCSnapshots ==
    { [t \in TaskIds |-> IF t = claimed THEN
          [status |-> "delegada", key |-> k, attempts |-> 0,
           lease_owner |-> o, lease_expires |-> 1] ELSE NoTask] :
      claimed \in TaskIds, o \in Owners, k \in Keys }

\* Tasks and owners are interchangeable; no liveness is checked here.
MCSymmetry == Permutations(TaskIds) \cup Permutations(Owners)
=============================================================================
