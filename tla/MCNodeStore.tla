---------------------------- MODULE MCNodeStore -----------------------------
(* Two nodes, of which one reports the metric for its CPU; buffers of two  *)
(* samples that are two seconds apart; a retention of one sample, halved   *)
(* once under memory pressure.                                             *)
EXTENDS NodeStore

CONSTANTS h1, h2, cpu, w1, w2

MCMeasured == {<<h1, cpu>>}
MCFractions == <<1>>
=============================================================================
