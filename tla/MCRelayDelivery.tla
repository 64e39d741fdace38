--------------------------- MODULE MCRelayDelivery ---------------------------
(* Model-checking instance of RelayDelivery. *)
EXTENDS RelayDelivery

CONSTANT same

\* An event with a semantic key, one without, and one that no relay accepts.
MCKinds == {[key |-> same, large |-> FALSE], [key |-> NoKey, large |-> FALSE],
            [key |-> NoKey, large |-> TRUE]}
=============================================================================
