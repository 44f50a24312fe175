---------------------------- MODULE MCRetention -----------------------------
(* Three jobs of one cluster, a file per job, and a job is old on its      *)
(* second day: every setting has two runs that find jobs, and a job of the *)
(* third day is between two cutoffs.                                       *)
EXTENDS Retention, TLC

CONSTANTS j1, j2, j3, c1

MCClusterOf == [j \in Jobs |-> c1]

Setting(service, format, includeDB, omitTagged) ==
  [service |-> service, format |-> format,
   includeDB |-> includeDB, omitTagged |-> omitTagged]

MCConfigs ==
  {Setting("move", "json", FALSE, FALSE), Setting("move", "parquet", TRUE, FALSE),
   Setting("copy", "json", FALSE, FALSE), Setting("copy", "parquet", FALSE, FALSE),
   Setting("delete", "json", TRUE, TRUE)}

MCSymmetry == Permutations(Jobs)
=============================================================================
