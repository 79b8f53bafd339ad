------------------------------ MODULE MCSwarm ------------------------------
(* A member without a cap of its own, and one whose role allows more than the plugin. *)
EXTENDS Swarm

MCRoleCap == [m \in Members |-> IF m = 1 THEN 0 ELSE 2 * MaxPerAgent]
\* A pipeline that may be replaced, and a swarm whose members run beside each other.
MCTopology == [i \in Swarms |-> IF i = 1 THEN "pipeline" ELSE "star"]
=============================================================================
