----------------------------- MODULE MCJobStore -----------------------------
(* Three jobs, two of them with the same number on the same day, served by *)
(* a REST and a NATS goroutine.                                            *)
EXTENDS JobStore

CONSTANTS a, b, c, rest, nats

MCClash == {<<k, k>> : k \in Jobs} \cup ({<<a, b>>, <<b, a>>} \cap (Jobs \X Jobs))
=============================================================================
