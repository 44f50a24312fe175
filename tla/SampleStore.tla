---------------------------- MODULE SampleStore -----------------------------
(***************************************************************************)
(* What the metric store promises about the samples it holds in memory,    *)
(* without buffers, levels and locks: a sample that is put stays until one *)
(* of the same interval replaces it or an expiry comes whose threshold it  *)
(* is older than; an expiry leaves nothing that is older than its          *)
(* threshold by Slack or more.                                             *)
(***************************************************************************)
EXTENDS Integers

CONSTANTS
  Paths,   \* places in the store
  Roots,   \* the groups of places that expire together
  Times,
  Width,   \* length of an interval
  Slack

VARIABLE held   \* per place: the timestamps of its samples

Init == held \in [Paths -> SUBSET Times]

Put(p, s) ==
  \E replaced \in SUBSET {q \in held[p] : q - s < Width /\ s - q < Width} :
    held' = [held EXCEPT ![p] = (@ \ replaced) \cup {s}]

Expire(r, t) ==
  /\ held' \in [Paths -> SUBSET Times]
  /\ \A p \in Paths :
       /\ held'[p] \subseteq held[p]
       /\ p \notin r => held'[p] = held[p]
       /\ p \in r => /\ {s \in held[p] : s >= t} \subseteq held'[p]
                     /\ \A s \in held'[p] : s + Slack > t

Next ==
  \/ \E p \in Paths, s \in Times : Put(p, s)
  \/ \E r \in Roots, t \in Times : Expire(r, t)

Spec == Init /\ [][Next]_held
=============================================================================
