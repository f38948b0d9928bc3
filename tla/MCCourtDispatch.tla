-------------------------- MODULE MCCourtDispatch ---------------------------
EXTENDS CourtDispatch

MCSnapshots == {}

\* One key belongs to an agent that either route can serve, the other to one
\* that only the Fabric serves.
MCRoutes == [k \in Requests |-> IF k = "either" THEN {"cli", "fabric"}
                                               ELSE {"fabric"}]
=============================================================================
