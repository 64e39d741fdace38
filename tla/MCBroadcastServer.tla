-------------------------- MODULE MCBroadcastServer --------------------------
(* BroadcastServer with the constants its configurations give it.          *)
EXTENDS BroadcastServer

\* The third line is larger than the limit of 2.
MCLineSize == <<1, 1, 3, 1>>
=============================================================================
