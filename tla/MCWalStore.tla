----------------------------- MODULE MCWalStore -----------------------------
(* A small metric store for TLC: every host in one shard.                  *)
EXTENDS WalStore, TLC

CONSTANTS h1, h2, s1, w1, torn

MCShardOf == [h \in Hosts |-> s1]
Symmetry == Permutations(Hosts)
=============================================================================
