---------------------------- MODULE MCPhpRequest ----------------------------
(* A model of PhpRequest for TLC. The order of payloads is the business of  *)
(* MCUnboundChannel: one payload and two writes, a last one and one before. *)
EXTENDS PhpRequest

MCData == {"x"}
=============================================================================
