------------------------------ MODULE Mailbox ------------------------------
(***************************************************************************)
(* What the relay promises about a message it has taken into its offline   *)
(* queue: it is kept until the receiver has handled it.  The only other    *)
(* way out is the announced one (the per-target cap and the time to live), *)
(* and then the message is on record as discarded.  A sender is told that  *)
(* a message was delivered only after the receiver handled it.             *)
(***************************************************************************)
CONSTANT Messages

VARIABLES
  keeping,    \* messages with a row in the offline queue
  received,   \* messages the receiver has handled
  discarded,  \* messages whose row was dropped by the cap or by age
  confirmed   \* messages shown to the sender as delivered

vars == <<keeping, received, discarded, confirmed>>

Init == /\ keeping = {}
        /\ received = {}
        /\ discarded = {}
        /\ confirmed = {}

\* Take a message in; what the cap pushes out is discarded by the same step.
Keep(m) ==
  /\ keeping' \subseteq keeping \cup {m}
  /\ discarded \subseteq discarded'
  /\ discarded' \subseteq discarded \cup keeping \cup {m}
  /\ (keeping \cup {m}) \ keeping' \subseteq discarded'
  /\ UNCHANGED <<received, confirmed>>

Discard ==
  /\ keeping' \subseteq keeping
  /\ discarded \subseteq discarded'
  /\ discarded' \subseteq discarded \cup keeping
  /\ keeping \ keeping' \subseteq discarded'
  /\ UNCHANGED <<received, confirmed>>

Receive(m) ==
  /\ received' = received \cup {m}
  /\ UNCHANGED <<keeping, discarded, confirmed>>

\* Let go of a message, whose receiver must have handled it.
Release(m) ==
  /\ m \in received
  /\ keeping' = keeping \ {m}
  /\ UNCHANGED <<received, discarded, confirmed>>

Confirm(m) ==
  /\ m \in received
  /\ confirmed' = confirmed \cup {m}
  /\ UNCHANGED <<keeping, received, discarded>>

\* The sender's display may fall back: the relay does not promise finality.
Unconfirm ==
  /\ confirmed' \subseteq confirmed
  /\ UNCHANGED <<keeping, received, discarded>>

Next == \/ \E m \in Messages : Keep(m) \/ Receive(m) \/ Release(m) \/ Confirm(m)
        \/ Discard
        \/ Unconfirm

Spec == Init /\ [][Next]_vars
============================================================================
