-------------------------- MODULE MCDataDirectory --------------------------
(* A directory, a path to import or restore to, and one backup.            *)
EXTENDS DataDirectory, TLC

CONSTANTS d1, d2, b1, t1, t2, u1, u2

MCSymmetry == Permutations(Dirs)
=============================================================================
