---------------------------- MODULE MCModelClient ----------------------------
(* ModelClient for TLC: which providers issue ids.                         *)
EXTENDS ModelClient, TLC

CONSTANTS w1, w2

Both == {"primary", "fallback"}
=============================================================================
