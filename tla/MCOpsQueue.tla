----------------------------- MODULE MCOpsQueue -----------------------------
\* Two workers and the panel go by the same name.
EXTENDS OpsQueue

MCName == [w \in Workers |-> "n"]
=============================================================================
