--------------------------- MODULE MCCapabilities ---------------------------
(* Accounts and capabilities with a few users, browsers and calls.         *)
EXTENDS Capabilities, TLC

MCSymmetry == Permutations(Users) \cup Permutations(Passwords)
              \cup Permutations(Browsers) \cup Permutations(Calls)
              \cup Permutations(Tokens)
=============================================================================
