------------------------------ MODULE JobLife -------------------------------
(***************************************************************************)
(* What the database promises about the life of a job, without its tables, *)
(* row ids, locks and requests: a job is accepted, becomes visible as      *)
(* running, perhaps after a time in the cache, and is stopped; it never    *)
(* goes back, commits take any set of cached jobs, and a stop request      *)
(* stops one job.                                                          *)
(***************************************************************************)
CONSTANT Jobs

VARIABLE status

Stages == {"unknown", "cached", "running", "stopped"}

Init == status = [k \in Jobs |-> "unknown"]

(* Accept: a start was confirmed, into the cache or directly.              *)
Accept(k) ==
  /\ status[k] = "unknown"
  /\ \E s \in {"cached", "running"} : status' = [status EXCEPT ![k] = s]

(* Cached jobs become visible, all at once.                                *)
Commit ==
  \E S \in SUBSET {k \in Jobs : status[k] = "cached"} :
    /\ S # {}
    /\ status' = [k \in Jobs |-> IF k \in S THEN "running" ELSE status[k]]

Stop(k) ==
  /\ status[k] = "running"
  /\ status' = [status EXCEPT ![k] = "stopped"]

Next == Commit \/ \E k \in Jobs : Accept(k) \/ Stop(k)

Spec == Init /\ [][Next]_status
=============================================================================
