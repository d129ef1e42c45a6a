------------------------------ MODULE MCSignIn ------------------------------
(* Instances of SignIn for TLC. *)
EXTENDS SignIn, TLC
Alike == Permutations(Requests) \cup Permutations(Sessions) \cup Permutations(Codes)
           \cup Permutations(Links) \cup Permutations(Passwords)
=============================================================================
