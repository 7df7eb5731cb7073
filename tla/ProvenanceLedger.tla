--------------------------- MODULE ProvenanceLedger ---------------------------
(***************************************************************************)
(* The two stores that imports and proposal decisions share: the event     *)
(* ledger of src/oscillink_agent/storage/sqlite.py with the artifact       *)
(* references of its events, and the content-addressed files of            *)
(* src/oscillink_agent/storage/artifacts.py.                               *)
(*                                                                         *)
(* EventLedger is the same table as the agent runtime uses it.  Here the   *)
(* order of events is not read back, but their artifacts and the unique    *)
(* index on proposal reviews matter, so the ledger is a set.               *)
(*                                                                         *)
(* Data abstraction.  An artifact is its content.  An event is its id, its *)
(* key, its operation, its causal parent, its artifact, what it is about   *)
(* (a source, a target or a proposal) and one detail of its payload.       *)
(* Validation of identifiers and corruption of stored bytes are left out.  *)
(***************************************************************************)
EXTENDS FiniteSets

CONSTANT None

VARIABLES events,       \* committed events
          artifacts     \* contents stored under their address

EventIds == {e.id : e \in events}

\* get_by_idempotency.
EventsWithKey(key) == {e \in events : e.key = key}

IsReview(e) == e.op = "review"

\* The events that decide a proposal.
ReviewsOf(proposal) == {e \in events : IsReview(e) /\ e.about = proposal}

\* A slip: the ledger has no unique index on reviews.
NotIndexed(e) == FALSE

\* The unique index on the proposal of a review refuses the row.
AlreadyReviewed(e) == IsReview(e) /\ ReviewsOf(e.about) # {}

\* _append_one: the checks before the INSERT, and what a violated constraint
\* of the table means.  An event that differs from the stored one only in its
\* recorded_at time is a replay when both senders read the same clock value.
AppendOutcome(e, sameTick) ==
    IF e.parent # None /\ e.parent \notin EventIds THEN "missing_parent"
    ELSE IF e.artifact # None /\ e.artifact \notin artifacts THEN "unresolved_artifact"
    ELSE IF EventsWithKey(e.key) # {}
         THEN IF e \in events /\ sameTick THEN "replayed" ELSE "idempotency_conflict"
    ELSE IF e.id \in EventIds THEN "duplicate_event"
    ELSE IF AlreadyReviewed(e) THEN "constraint"
    ELSE "inserted"

\* A slip: a conflict is taken for the record of an earlier attempt.
CommittedOrTaken(outcome) ==
    outcome \in {"inserted", "replayed", "idempotency_conflict"}

\* append returned; otherwise it raised.
Committed(outcome) == outcome \in {"inserted", "replayed"}

Appended(e, outcome) == IF outcome = "inserted" THEN events \cup {e} ELSE events

\* put and put_stream publish by linking a complete temporary file to the
\* address; content that is already there is kept.
Published(content) == artifacts \cup {content}

=============================================================================
