--------------------------- MODULE MCTransportLock ---------------------------
(* Model-checking instance of TransportLock. *)
EXTENDS TransportLock
=============================================================================
