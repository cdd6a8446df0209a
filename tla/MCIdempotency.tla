--------------------------- MODULE MCIdempotency ---------------------------
(* Model-checking instances of Idempotency.                                *)
EXTENDS Idempotency, TLC

CONSTANTS q1, q2, q3, k1, b1, b2, s1, p1, p2

\* Requests are interchangeable, so are payloads and preparations.
Symmetry == Permutations(Request) \cup Permutations(Payload) \cup Permutations(Preparation)

=============================================================================
