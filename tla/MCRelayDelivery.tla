-------------------------- MODULE MCRelayDelivery --------------------------
(* Small instances of RelayDelivery: messages from a to b.                  *)
EXTENDS RelayDelivery

CONSTANTS a, b

OneWayFrom == [m \in Messages |-> a]
OneWayTo   == [m \in Messages |-> b]
============================================================================
