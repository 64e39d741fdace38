------------------------- MODULE MCHookBridgeDispatch -------------------------
(* Model-checking instance of HookBridgeDispatch: a rule that coalesces to the latest event
   and one to the first, which share an id as the validation of the configuration lets
   them, and one with a cooldown that does not coalesce. *)
EXTENDS HookBridgeDispatch

CONSTANTS k1, k2

MCRules ==
  << [id |-> "shared", cooldown |-> 0, coalesce |-> "latest", window |-> 0],
     [id |-> "shared", cooldown |-> 0, coalesce |-> "first", window |-> 1],
     [id |-> "plain", cooldown |-> 1, coalesce |-> "off", window |-> 0] >>

MCKinds ==
  {[rules |-> {1, 3}, key |-> k1], [rules |-> {2}, key |-> k1], [rules |-> {1, 2}, key |-> k2]}
=============================================================================
