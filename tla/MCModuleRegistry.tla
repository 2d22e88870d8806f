-------------------------- MODULE MCModuleRegistry --------------------------
(* The registry on a few registrations, administrators and manifests.      *)
EXTENDS ModuleRegistry, TLC

CONSTANTS r1, r2, a1, a2, m1, m2, m3, m4, q1, q2

(* m1 and m2 ask for the same permissions; m3 and m4 ask for others.       *)
MCPermissionOf == [m \in Manifests |-> IF m \in {m1, m2} THEN q1 ELSE q2]
MCSymmetry == Permutations(Admins) \cup Permutations(Regs)
=============================================================================
