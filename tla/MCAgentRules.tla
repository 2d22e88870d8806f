---------------------------- MODULE MCAgentRules ----------------------------
(* Agent rules of two users and of the system.                              *)
EXTENDS AgentRules, TLC

CONSTANTS ds, d1, d2, u1, u2

MCOwnerOf == [d \in Docs |-> u1]
MCSymmetry == Permutations(Cands) \cup Permutations({d1, d2})
=============================================================================
