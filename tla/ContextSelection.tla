--------------------------- MODULE ContextSelection ---------------------------
(***************************************************************************)
(* What of the product memory a query brings into a model's context:       *)
(* rank_memory_records of src/oscillink_agent/retrieval/service.py and     *)
(* compile_context of src/oscillink_agent/context/compiler.py, which chat  *)
(* and the recall tool run over one state of the repository.               *)
(*                                                                         *)
(* Data abstraction.  A query is the lexical score it gives each content   *)
(* (0: no term matches), and a content has a number of tokens.  "place" is *)
(* the order of record identities, which breaks ties.                      *)
(***************************************************************************)
EXTENDS ProjectMemory, SequencesExt

CONSTANTS Queries,    \* score functions over the contents
          Tokens,     \* content -> len(content.split())
          Budgets     \* token budgets a request may have

ASSUME QueriesAssumption == Queries \subseteq [Contents -> Nat]
ASSUME TokensAssumption == Tokens \in [Contents -> Nat]
ASSUME BudgetsAssumption == Budgets \subseteq Nat \ {0}

\* None is the absence of a manifest, not one.
ASSUME NoneIsNoManifest ==
    None \notin [items : Seq(Records), total : Nat, token_budget : SUBSET Records,
                 no_query_match : SUBSET Records]

TokensOf(r) == Tokens[records[r].content]

\* Why a record is passed over, for the first reason that holds.  No decision
\* retracts or contradicts, so what is left of the states is not approved.
Exclusion(r) ==
    IF AuthorityOf(r) = "superseded" THEN "superseded"
    ELSE IF AuthorityOf(r) # "approved" THEN "not_approved"
    ELSE IF records[r].missing THEN "missing_source"
    ELSE "none"

ExcludedFor(reason) == {r \in Stored : Exclusion(r) = reason}

Matches(score) == {r \in ExcludedFor("none") : score[records[r].content] > 0}

\* The sort key of rank_memory_records: falling score, then identity.
Better(score, place, r, s) ==
    LET x == score[records[r].content]
        y == score[records[s].content]
    IN  x > y \/ (x = y /\ place[r] < place[s])

Ranked(score, place) ==
    CHOOSE ranking \in SetToSeqs(Matches(score)) :
        \A i, j \in DOMAIN ranking :
            i < j => Better(score, place, ranking[i], ranking[j])

\* A slip: the first record that does not fit ends the selection.
TakeUntilFull(taken, r, budget) ==
    IF taken.over # <<>> \/ taken.total + TokensOf(r) > budget
    THEN [taken EXCEPT !.over = Append(@, r)]
    ELSE [taken EXCEPT !.items = Append(@, r), !.total = @ + TokensOf(r)]

\* A slip: the count is compared before the record is added.
TakeWhileBelow(taken, r, budget) ==
    IF taken.total >= budget
    THEN [taken EXCEPT !.over = Append(@, r)]
    ELSE [taken EXCEPT !.items = Append(@, r), !.total = @ + TokensOf(r)]

\* One turn of compile_context: a record that does not fit is an omission, and
\* later ones may still fit.
Take(taken, r, budget) ==
    IF taken.total + TokensOf(r) > budget
    THEN [taken EXCEPT !.over = Append(@, r)]
    ELSE [taken EXCEPT !.items = Append(@, r), !.total = @ + TokensOf(r)]

Manifest(score, budget, place) ==
    LET taken == FoldLeft(LAMBDA t, r : Take(t, r, budget),
                          [items |-> <<>>, over |-> <<>>, total |-> 0],
                          Ranked(score, place))
    IN  [items |-> taken.items, total |-> taken.total,
         token_budget |-> ToSet(taken.over),
         no_query_match |-> ExcludedFor("none") \ Matches(score)]

TokensIn(rs) == FoldSet(LAMBDA r, n : n + TokensOf(r), 0, rs)

\* The validators of ContextManifest: where one of these fails, they raise, and
\* the chat or the recall ends in an error that nothing catches.
ValidManifest(m, budget) ==
    /\ m.total <= budget
    /\ m.total = TokensIn(ToSet(m.items))
    /\ IsInjective(m.items)
    /\ ToSet(m.items) \cap (m.token_budget \cup m.no_query_match) = {}

\* _recall: without eligible memory there is no manifest.
Recall(score, budget, place) ==
    IF ExcludedFor("none") = {} THEN None ELSE Manifest(score, budget, place)

-----------------------------------------------------------------------------
(* Properties, for every query, budget and order of the identities.        *)

Orders == {place \in [Records -> 1..Cardinality(Records)] : IsInjective(place)}

\* Nothing is dropped in silence, whatever reviews and synchronizations led
\* here: every stored record is either an item of the recalled manifest, or
\* omitted for one reason, or counted in the exclusion summary; only eligible
\* memory becomes an item; and the manifest is one its validators accept.
RecallAccountsForMemory ==
    \A score \in Queries, budget \in Budgets, place \in Orders :
        LET m == Recall(score, budget, place)
            excluded == UNION {ExcludedFor(x) : x \in {"superseded", "not_approved",
                                                       "missing_source"}}
        IN  /\ m = None <=> \A r \in Stored : ~Retrievable(r)
            /\ m # None =>
                 /\ ValidManifest(m, budget)
                 /\ Len(m.items) + Cardinality(m.token_budget)
                      + Cardinality(m.no_query_match) + Cardinality(excluded)
                      = Cardinality(Stored)
                 /\ ToSet(m.items) \cup m.token_budget \cup m.no_query_match
                      = {r \in Stored : Retrievable(r)}

\* The choice is the one the ranking and the budget determine: a matching
\* record is left out for the budget exactly when it does not fit beside the
\* better ranked items, so that a lesser record never displaces a better one
\* and room for a small record is never given away.
BudgetGoesByRank ==
    \A score \in Queries, budget \in Budgets, place \in Orders :
        LET m == Manifest(score, budget, place)
        IN  \A s \in Matches(score) :
                s \in m.token_budget
                <=> TokensIn({r \in ToSet(m.items) : Better(score, place, r, s)})
                      + TokensOf(s) > budget

=============================================================================
