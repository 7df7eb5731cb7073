----------------------------- MODULE MCWorkspace -----------------------------
(* One file sent twice, with and without a target, under one id and key; two *)
(* contrary decisions on the association of it, and one of them changed; one *)
(* read of the agent; an export and a restore.                               *)
EXTENDS WorkspaceRecovery, TLC

CONSTANTS i1, j1, j2, k1, k2, k3, s1, m1

MCImportRequests ==
    {[id |-> i1, key |-> k1, source |-> s1, target |-> m1],
     [id |-> i1, key |-> k1, source |-> s1, target |-> None]}

Verdict(id, key, verdict) ==
    [id |-> id, key |-> key, proposal |-> AssociationId(i1), verdict |-> verdict]

MCDecisionRequests ==
    {Verdict(j1, k2, "approved"), Verdict(j1, k2, "rejected"), Verdict(j2, k3, "rejected")}

Interchangeable == Permutations(Imports) \cup Permutations(Deciders)
=============================================================================
