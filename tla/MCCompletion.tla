---------------------------- MODULE MCCompletion ----------------------------
(* Completion on a small instance. *)
EXTENDS Completion

MCEnvs == {[key |-> None, url |-> None], [key |-> CHOOSE k \in Keys : TRUE, url |-> CHOOSE u \in Urls : u # DefaultUrl]}

MCPieces == {[kind |-> "text", text |-> "a"],
             [kind |-> "tool", index |-> 0, id |-> "c0", args |-> None],
             [kind |-> "tool", index |-> 0, id |-> None, args |-> "x"],
             [kind |-> "tool", index |-> 1, id |-> "c1", args |-> "y"]}
=============================================================================
