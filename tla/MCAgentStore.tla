---------------------------- MODULE MCAgentStore ----------------------------
(* A small instance of AgentStore.                                          *)
EXTENDS AgentStore, TLC

\* Ids are interchangeable; the names of folders and files are not.
IdSymmetry == Permutations(Agents) \cup Permutations(Notes) \cup Permutations(Convs)
============================================================================
