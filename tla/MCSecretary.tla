---------------------------- MODULE MCSecretary ----------------------------
(* One peer with a contact of its own and an old one under another id; a   *)
(* request for nobody, one for an agent that is not visible, one for an    *)
(* agent that is gone; an answer of the peer.                              *)
EXTENDS Secretary, TLC
CONSTANTS p, old, r1, r2, r3, a1, own, hidden, gone
CommandSymmetry == Permutations(Commands)
MCLegacyKey == [i \in {old} |-> p]
MCSender == [m \in {r1, r2, r3, a1} |-> p]
MCTarget == [m \in {r1, r2, r3, a1} |-> CASE m = r2 -> hidden [] m = r3 -> gone [] OTHER -> None]
Nothing == [l \in Limits |-> 0]
(* One budget per question: contacts and indexes; a database that fails    *)
(* beside the changes of a contact; the life of the manager;               *)
(* messages and deletions; messages of this node and deletions; messages   *)
(* and removed contacts; a restart.                                        *)
Contact == [Nothing EXCEPT !["commands"] = 2, !["removals"] = 1, !["introduces"] = 2,
                           !["starts"] = 1]
Broken == [Nothing EXCEPT !["commands"] = 1, !["removals"] = 1, !["introduces"] = 1,
                          !["faults"] = 1, !["starts"] = 1]
Life == [Nothing EXCEPT !["commands"] = 1, !["starts"] = 2, !["stops"] = 1,
                        !["drops"] = 1, !["faults"] = 1, !["restarts"] = 1]
Mail == [Nothing EXCEPT !["commands"] = 1, !["starts"] = 1, !["deliveries"] = 3,
                        !["deletions"] = 1]
Own == [Nothing EXCEPT !["commands"] = 1, !["introduces"] = 1, !["starts"] = 1,
                       !["deliveries"] = 1, !["deletions"] = 1]
Removed == [Nothing EXCEPT !["commands"] = 1, !["removals"] = 1, !["introduces"] = 1,
                           !["starts"] = 1, !["deliveries"] = 2]
Crash == [Nothing EXCEPT !["commands"] = 1, !["starts"] = 2, !["deliveries"] = 2,
                         !["faults"] = 1, !["restarts"] = 1]
MCBudgets == {Contact, Broken, Life, Mail, Own, Removed, Crash}
=============================================================================
