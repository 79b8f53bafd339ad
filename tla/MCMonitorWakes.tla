--------------------------- MODULE MCMonitorWakes ---------------------------
(* Two directories with a monitor and a session each. *)
EXTENDS MonitorWakes, TLC

CONSTANTS k1, k2, s1, s2, here, there

MCKeys == {k1, k2}
MCSessions == {s1, s2}
MCDirOf == [x \in {k1, s1} |-> here] @@ [x \in {k2, s2} |-> there]
=============================================================================
