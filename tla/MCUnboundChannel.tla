-------------------------- MODULE MCUnboundChannel --------------------------
(* A model of UnboundChannel for TLC: two payloads, so that a swap shows,   *)
(* and three frames, so that a body has a first, a middle and a last one.   *)
EXTENDS UnboundChannel

MCData == {"x", "y"}
=============================================================================
