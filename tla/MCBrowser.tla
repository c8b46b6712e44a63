------------------------------ MODULE MCBrowser ------------------------------
(* Browser on a small instance: each behaviour has one of the mixes of calls   *)
(* and faults below.                                                            *)
EXTENDS Browser, TLC

Symmetry == Permutations(Conversations) \union Permutations(Actors)

\* The file has no proxy; the system may have one.
MCStarts == {[k \in Knobs |-> Empty]}

Mix(f) == f @@ [k \in Kinds |-> 0]
MCBudgets ==
  {Mix([command |-> 2, approve |-> 1, tool |-> 1, timeout |-> 1]),
   Mix([command |-> 2, set |-> 1]),
   Mix([command |-> 1, approve |-> 1, set |-> 1]),
   Mix([command |-> 1, set |-> 2, crash |-> 1]),
   Mix([command |-> 1, set |-> 1, patch |-> 1]),
   Mix([command |-> 2, idle |-> 1, delete |-> 1]),
   Mix([command |-> 2, shutdown |-> 1, idle |-> 1, timeout |-> 1])}
=============================================================================
