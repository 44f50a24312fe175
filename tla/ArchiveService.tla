--------------------------- MODULE ArchiveService ---------------------------
(***************************************************************************)
(* What the archiver promises to the stop handlers, without its channel,   *)
(* WaitGroup, context and worker: jobs stand in line, the first in line is *)
(* finished next, each job once, well or badly; when the service ends      *)
(* well, the line is empty and nothing enters it any more.                 *)
(***************************************************************************)
EXTENDS Sequences

CONSTANT Jobs

VARIABLES
  line,     \* jobs handed over and not finished, in their order
  outcome,  \* what became of a job
  over      \* the service has ended well

avars == <<line, outcome, over>>

Init == line = <<>> /\ outcome = [j \in Jobs |-> "none"] /\ over = FALSE

Accept(j) ==
  /\ ~over /\ outcome[j] = "none"
  /\ line' = Append(line, j)
  /\ UNCHANGED <<outcome, over>>

Finish ==
  /\ line # <<>> /\ outcome[Head(line)] = "none"
  /\ line' = Tail(line)
  /\ \E o \in {"archived", "failed"} :
       outcome' = [outcome EXCEPT ![Head(line)] = o]
  /\ UNCHANGED over

End ==
  /\ line = <<>>
  /\ over' = TRUE
  /\ UNCHANGED <<line, outcome>>

Next == Finish \/ End \/ \E j \in Jobs : Accept(j)

Spec == Init /\ [][Next]_avars
=============================================================================
