---------------------------- MODULE MCMemoryService ----------------------------
(* Two scans of a vault of two notes, a tool call and its retries, a review. *)
EXTENDS MemoryService, TLC

CONSTANTS r1, r2, n1, n2, A, B, s1, s2, g1, g2, q1, q2,
          se1, se2, sk1, sk2

MCLocators == {1, 2}

Draft(request, tool, content, target, expected) ==
    [request |-> request, tool |-> tool, content |-> content,
     target |-> target, expected |-> expected]

\* One request id with two contents; its target may be a note that changes.
MCDrafts ==
    {Draft(q1, "remember", A, None, None), Draft(q2, "correct", B, r1, A),
     Draft(q2, "correct", A, r1, A)}

MCCorrections == {<<d.target, d.expected>> : d \in MCDrafts}

MCFirstVaults == {[l \in MCLocators |-> IF l = 1 THEN A ELSE None]}

MCIdentityOf ==
    [call \in {<<d.request, d.tool>> : d \in MCDrafts} |-> IF call[1] = q1 THEN n1 ELSE n2]

Interchangeable == Permutations(Scanners) \cup Permutations(Agents)
                   \cup Permutations(SyncEvents) \cup Permutations(SyncKeys)
=============================================================================
