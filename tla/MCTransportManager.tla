-------------------------- MODULE MCTransportManager --------------------------
(* Model-checking instance of TransportManager. *)
EXTENDS TransportManager
=============================================================================
