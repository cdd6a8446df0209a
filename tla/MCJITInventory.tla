--------------------------- MODULE MCJITInventory ---------------------------
(* Model-checking instances of JITInventory.                               *)
EXTENDS JITInventory, TLC

CONSTANTS code, old, older, p1, p2, r1, r2

\* Pull goroutines are interchangeable, and so are requests.
Symmetry == Permutations(Puller) \cup Permutations(Request)

=============================================================================
