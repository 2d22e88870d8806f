----------------------------- MODULE MCPackages -----------------------------
(* One of each, but two contents, and two users of whom one may ask for    *)
(* the skill of the other.                                                 *)
EXTENDS Packages, TLC

CONSTANTS s1, p1, k1, u1, u2, c1, c2, t1, r1

MCSymmetry == Permutations(Users) \cup Permutations(Contents)
=============================================================================
