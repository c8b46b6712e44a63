-------------------------- MODULE MCRelayPresence --------------------------
(* Small instances of RelayPresence: a may add b to its contacts.           *)
EXTENDS RelayPresence

CONSTANTS a, b

Strangers   == [p \in Peers |-> {}]
AInvitesB   == {<<a, b>>}
============================================================================
