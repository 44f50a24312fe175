------------------------ MODULE MCCheckpointCleanup -------------------------
(* CheckpointCleanup on a small instance: every host is in one cluster,    *)
(* the other one has an empty directory.                                   *)
EXTENDS CheckpointCleanup

CONSTANTS c1, c2

MCClusterOf == [h \in Hosts |-> c1]
=============================================================================
