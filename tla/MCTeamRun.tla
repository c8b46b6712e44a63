----------------------------- MODULE MCTeamRun -----------------------------
(* A small instance of TeamRun.                                             *)
EXTENDS TeamRun, TLC

AgentSymmetry == Permutations(Agents)
============================================================================
