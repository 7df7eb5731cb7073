------------------------- MODULE MCMemoryRepository -------------------------
(* Values of the constants of MemoryRepository for TLC. *)
EXTENDS ContextSelection

CONSTANTS r1, r2, r3, A, B, e1, e2, e3, k1, k2, k3, se1, se2, sk1, sk2

MCLocators == {1, 2}
\* One query matches only B, the shorter content; the other prefers A.
MCQueries == {[c \in Contents |-> IF c = B THEN 1 ELSE 0],
              [c \in Contents |-> IF c = A THEN 2 ELSE 1]}
MCTokens == [c \in Contents |-> IF c = A THEN 2 ELSE 1]

MCCorrections == {<<None, None>>}

Interchangeable == Permutations({r1, r2, r3}) \cup Permutations({e1, e2, e3})
                   \cup Permutations({k1, k2, k3})
                   \cup Permutations({se1, se2}) \cup Permutations({sk1, sk2})
=============================================================================
