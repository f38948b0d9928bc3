------------------------- MODULE MCCampaignRuntime -------------------------
(* Instances of the campaign runtime.  Two daemons that compete for one     *)
(* mission meet every race over a lease; one daemon over several runs meets *)
(* the retry and repair limits; three missions make a lineage.              *)
EXTENDS CampaignRuntime, Integers, TLC

MCLabels == RuntimeLabels
MCNoSnapshots == {}

\* No order of the ids, and their natural one.
MCAnyOrder == {}
MCInOrder == {p \in Missions \X Missions : p[1] < p[2]}

\* Daemons and missions are interchangeable; used by the runs without
\* liveness.
MCDaemons == Permutations(Daemons)
MCMissions == Permutations(Missions)
=============================================================================
