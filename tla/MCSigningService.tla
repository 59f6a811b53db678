-------------------------- MODULE MCSigningService ---------------------------
(* The symmetry of the signing model: operators and requests are alike.    *)
EXTENDS SigningService, TLC

SigningSymmetry == Permutations(Operators) \cup Permutations(SignRequests)
=============================================================================
