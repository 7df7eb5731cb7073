--------------------------- MODULE MCObsidianSync ---------------------------
(* Synchronizations only: three locators, so that a rename can be ambiguous. *)
EXTENDS ObsidianNoteLoop

CONSTANTS r1, r2, r3, r4, r5, A, B, se1, se2, se3, sk1, sk2, sk3

MCLocators == {1, 2, 3}

Interchangeable == Permutations({r1, r2, r3, r4, r5})
                   \cup Permutations({se1, se2, se3}) \cup Permutations({sk1, sk2, sk3})
=============================================================================
