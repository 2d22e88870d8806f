---------------------------- MODULE MCModuleTask ----------------------------
(* The task gateway on small sets of keys, chats and handlers. *)
EXTENDS ModuleTaskRefinement, TLC

CONSTANTS k1, k2, p1, p2, w1, w2, x1, c1

(* Which of two keys is which makes no difference to a safety property. *)
KeySymmetry == Permutations({k1, k2})
=============================================================================
