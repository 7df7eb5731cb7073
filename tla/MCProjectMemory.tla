--------------------------- MODULE MCProjectMemory ---------------------------
(* One record, one note and three synchronizations. *)
EXTENDS ProjectMemory

MCLocators == {1}
=============================================================================
