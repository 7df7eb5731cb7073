----------------------------- MODULE EventLedger -----------------------------
(***************************************************************************)
(* The append-only event ledger of                                         *)
(* src/oscillink_agent/storage/sqlite.py (class SQLiteEventStore): one     *)
(* table with UNIQUE event ids and UNIQUE idempotency keys.  append_many   *)
(* is one transaction: every entry is accepted or nothing is written.      *)
(*                                                                         *)
(* Data abstraction.  The runtime only reads the events of one run, in     *)
(* insertion order, so the ledger is one sequence per run.  An event is    *)
(* its identity, its operation, its causal parent and the parts of its     *)
(* payload that are read back; "stamp" stands for its recorded_at time.    *)
(* Byte corruption of stored rows is not modelled.                         *)
(***************************************************************************)
EXTENDS Integers, Sequences, FiniteSets

CONSTANTS Runs,         \* runs, identified by the chat request that starts them
          ClientKeys,   \* idempotency keys clients send
          KeyLength,    \* their lengths in characters
          None

\* The suffixes the runtime appends to a client's key, with their lengths.
SuffixLength ==
    [context |-> 8, model_pending |-> 14, model_success |-> 14, model_failed |-> 13,
     model_interrupted |-> 18, tool_request |-> 13, response |-> 9,
     claimed |-> 8, failed |-> 7, observation |-> 12, followup_pending |-> 17,
     followup_success |-> 17, followup_failed |-> 16, followup_response |-> 18]

Suffixes == DOMAIN SuffixLength

MaxKeyLength == 128

\* A client may send a key that the runtime also derives from another key:
\* then ClientKeys contains a pair.
ASSUME KeyLengthAssumption ==
    /\ KeyLength \in [ClientKeys -> 1 .. MaxKeyLength]
    /\ \A k \in ClientKeys, s \in Suffixes :
          <<k, s>> \in ClientKeys => KeyLength[<<k, s>>] = KeyLength[k] + SuffixLength[s]

VARIABLE ledger    \* run -> its events in insertion order

Recorded == UNION {{ledger[q][i] : i \in DOMAIN ledger[q]} : q \in Runs}

EventIds == {e.id : e \in Recorded}

Characters(key) ==
    IF key \in ClientKeys THEN KeyLength[key] ELSE KeyLength[key[1]] + SuffixLength[key[2]]

\* A slip: only the key the client sent is measured.
KeyValidAsSent(key) == key \in ClientKeys => Characters(key) <= MaxKeyLength

\* _IDEMPOTENCY_KEY: 1 to 128 portable characters.
KeyValid(key) == Characters(key) <= MaxKeyLength

\* get_by_idempotency.
EventsWithKey(key) == {e \in Recorded : e.key = key}

\* A slip: an id that is already taken is not noticed.
EntryOutcomeByKeyOnly(entries, i) ==
    LET e == entries[i]
        earlier == {entries[j].id : j \in 1 .. i - 1}
    IN  IF ~KeyValid(e.key) THEN "invalid_key"
        ELSE IF e.parent # None /\ e.parent \notin EventIds \cup earlier
             THEN "missing_parent"
        ELSE IF EventsWithKey(e.key) # {}
             THEN IF e \in Recorded THEN "replayed" ELSE "idempotency_conflict"
        ELSE "inserted"

\* _append_one for the i-th entry of a transaction.  The entries of one
\* transaction have different ids and keys, so they only meet as parents.
EntryOutcome(entries, i) ==
    LET e == entries[i]
        earlier == {entries[j].id : j \in 1 .. i - 1}
    IN  IF ~KeyValid(e.key) THEN "invalid_key"
        ELSE IF e.parent # None /\ e.parent \notin EventIds \cup earlier
             THEN "missing_parent"
        ELSE IF EventsWithKey(e.key) # {}
             THEN IF e \in Recorded THEN "replayed" ELSE "idempotency_conflict"
        ELSE IF e.id \in EventIds THEN "duplicate_event"
        ELSE "inserted"

\* A slip: an entry whose key is taken is skipped instead of refused.
AcceptedIgnoringConflicts(entries) ==
    \A i \in DOMAIN entries :
        EntryOutcome(entries, i) \in {"inserted", "replayed", "idempotency_conflict"}

\* append_many commits: no entry of the transaction is refused.
Accepted(entries) ==
    \A i \in DOMAIN entries : EntryOutcome(entries, i) \in {"inserted", "replayed"}

\* The error append_many raises: that of the first refused entry.
Refusal(entries) ==
    EntryOutcome(entries, CHOOSE i \in DOMAIN entries :
        /\ EntryOutcome(entries, i) \notin {"inserted", "replayed"}
        /\ \A j \in 1 .. i - 1 : EntryOutcome(entries, j) \in {"inserted", "replayed"})

\* The entries of a transaction that the ledger does not hold, in their order.
Inserted(entries) ==
    LET new == {i \in DOMAIN entries : EventsWithKey(entries[i].key) = {}}
        nth(n) == CHOOSE i \in new : Cardinality({j \in new : j <= i}) = n
    IN  [n \in 1 .. Cardinality(new) |-> entries[nth(n)]]

\* The ledger after a transaction of run q.
Extended(q, entries) == [ledger EXCEPT ![q] = @ \o Inserted(entries)]

-----------------------------------------------------------------------------
(* reconstruct_run: a run's state is a function of its events.             *)

AllowedAfter ==
    [request_recorded  |-> {"context_compiled", "model_call_succeeded"},
     context_compiled  |-> {"model_call_pending"},
     model_call_pending |-> {"model_call_succeeded", "model_call_failed",
                             "model_call_interrupted"},
     model_call_succeeded |-> {"tool_requested", "final_response"},
     tool_requested    |-> {"grant_approved", "grant_denied"},
     grant_approved    |-> {"tool_call_claimed", "tool_failed"},
     tool_call_claimed |-> {"observation", "tool_failed"},
     observation       |-> {"model_call_pending"},
     model_call_failed |-> {}, model_call_interrupted |-> {}, grant_denied |-> {},
     tool_failed |-> {}, final_response |-> {}]

Operations == DOMAIN AllowedAfter

\* The events are a run: each step is allowed after the one before and names
\* it as its causal parent.  (The event types and artifact references that
\* reconstruct_run checks too are functions of the operation here; the legacy
\* operation "fake_provider_chat" is left out.)
WellFormed(events) ==
    /\ events[1].op = "request_recorded" /\ events[1].parent = None
    /\ \A i \in 2 .. Len(events) :
          /\ events[i].op \in AllowedAfter[events[i - 1].op]
          /\ events[i].parent = events[i - 1].id

Final(events) == events[Len(events)]

\* The state of a run from its last event.
RunState(events) ==
    LET op == Final(events).op
    IN  IF op = "final_response" THEN "completed"
        ELSE IF op \in {"model_call_failed", "tool_failed", "grant_denied"} THEN "failed"
        ELSE IF op = "model_call_interrupted" THEN "interrupted"
        ELSE IF op = "tool_requested" THEN "awaiting_approval"
        ELSE "in_progress"

-----------------------------------------------------------------------------

\* Whatever the handlers do, an event id and an idempotency key name one event
\* of the whole ledger, and an event is caused by an earlier event of its run.
LedgerIntegrity ==
    /\ \A q1, q2 \in Runs : \A i \in DOMAIN ledger[q1], j \in DOMAIN ledger[q2] :
          (\/ ledger[q1][i].id = ledger[q2][j].id
           \/ ledger[q1][i].key = ledger[q2][j].key) => q1 = q2 /\ i = j
    /\ \A q \in Runs : \A i \in DOMAIN ledger[q] :
          ledger[q][i].parent # None =>
              \E j \in 1 .. i - 1 : ledger[q][j].id = ledger[q][i].parent

=============================================================================
