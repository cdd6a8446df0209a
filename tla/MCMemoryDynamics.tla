-------------------------- MODULE MCMemoryDynamics --------------------------
(* Model-checking instances of MemoryDynamics.                             *)
EXTENDS MemoryDynamics, FiniteSetsExt, TLC

CONSTANTS t1, t2, t3, s1, s2, c1, c2

\* Either two turns speak, of any concepts, or all do, of three in all: turns
\* that write several nodes meet in pairs, turns that write one meet all together.
FewWords ==
    {f \in [Turn -> SUBSET Concept] :
        \/ Cardinality({t \in Turn : f[t] # {}}) <= 2
        \/ MapThenSumSet(LAMBDA t : Cardinality(f[t]), Turn) <= 3}

AllTexts == [Turn -> SUBSET Concept]

\* Turns are interchangeable, and so are sessions and concepts.
Symmetry == Permutations(Turn) \cup Permutations(Session) \cup Permutations(Concept)

=============================================================================
