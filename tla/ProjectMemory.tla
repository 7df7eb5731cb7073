---------------------------- MODULE ProjectMemory ----------------------------
(***************************************************************************)
(* The read side of governed memory: what retrieval selects                *)
(* (src/oscillink_agent/retrieval/service.py) and what the MCP server's    *)
(* explain tool says about one exact revision                              *)
(* (src/oscillink_agent/integrations/mcp/server.py), over one state of the *)
(* repository.                                                             *)
(***************************************************************************)
EXTENDS MemoryRepository

\* rank_memory_records ranks exactly these current revisions.
Retrievable(r) == Approved(r) /\ ~records[r].missing

VariantsOf(r, c) == {i \in DOMAIN revisions[r] : revisions[r][i].content = c}

\* get_revision: the stored row with that digest that was inserted last.
RevisionAt(r, c) ==
    revisions[r][CHOOSE i \in VariantsOf(r, c) :
                    \A j \in VariantsOf(r, c) : j <= i]

\* _explain, its first reason for revision (r, c).
ExplanationReason(r, c) ==
    IF VariantsOf(r, c) = {} THEN "revision_not_found"
    ELSE IF records[r].content # c THEN "stale_revision"
    ELSE IF Standing(r, c) = "approved"
         THEN IF RevisionAt(r, c).missing THEN "missing_source" ELSE "selected"
    ELSE IF Standing(r, c) = "superseded" THEN "superseded"
    ELSE "not_approved"

\* docs/project-memory-contract.md line 21: explain explains "selection,
\* exclusion, staleness, contradiction, or approval state"; line 146: "Only
\* eligible approved, non-missing, current revisions enter ranking."  So it
\* should say "selected" of a current revision exactly when ranking admits it.
\* The code looks at the revision row inserted last, and a note that comes
\* back after it was missing inserts no row (INSERT OR IGNORE).
ExplanationAgreesWithRetrieval ==
    \A r \in Stored :
        ExplanationReason(r, records[r].content) = "selected" <=> Retrievable(r)

=============================================================================
