---------------------------- MODULE MCRateLimit ----------------------------
(* Model-checking instances of RateLimit.                                  *)
EXTENDS RateLimit, TLC

CONSTANTS a, b

\* Keys are interchangeable.
Symmetry == Permutations(Key)

=============================================================================
