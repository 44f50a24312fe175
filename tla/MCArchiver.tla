----------------------------- MODULE MCArchiver -----------------------------
(* A small archiver for TLC: two HTTP stops and one that arrives over      *)
(* NATS, more than the channel and the worker can take at once.            *)
EXTENDS Archiver

CONSTANTS j1, j2, n1
=============================================================================
