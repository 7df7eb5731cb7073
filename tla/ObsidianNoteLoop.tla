-------------------------- MODULE ObsidianNoteLoop --------------------------
(***************************************************************************)
(* The note loop of _sync_obsidian_locked, one note at a time, as a fold   *)
(* over the index: the reference for the operators with which              *)
(* MemoryRepository states the effect of the whole loop at once.           *)
(***************************************************************************)
EXTENDS MemoryRepository, SequencesExt

\* One iteration.  acc holds the bindings and records written so far.
NoteStep(snap, fresh, acc, l) ==
    LET absent == {o \in Locators : /\ acc.bindings[o] # None
                                    /\ acc.bindings[o].content = snap[l]
                                    /\ snap[o] = None}
        known    == acc.bindings[l] # None
        renamed  == ~known /\ Cardinality(absent) = 1
        previous == CHOOSE o \in absent : TRUE
        owner    == IF known THEN acc.bindings[l].record
                    ELSE IF renamed THEN acc.bindings[previous].record
                    ELSE fresh[l]
    IN  [bindings |->
            [o \in Locators |->
                IF o = l THEN [content |-> snap[l], record |-> owner]
                ELSE IF renamed /\ o = previous THEN None
                ELSE acc.bindings[o]],
         records |-> [acc.records EXCEPT ![owner] = NoteRevision(snap[l], l)]]

NotesInOrder(snap) ==
    CHOOSE notes \in SetToSeqs({l \in Locators : snap[l] # None}) :
        \A i, j \in DOMAIN notes : i < j => notes[i] < notes[j]

AfterNotes(snap, fresh) ==
    FoldLeft(LAMBDA acc, l : NoteStep(snap, fresh, acc, l),
             [bindings |-> bindings, records |-> records], NotesInOrder(snap))

\* The second loop: records still bound to a locator the index lacks.
MarkMissing(snap, acc) ==
    [acc EXCEPT !.records =
        [r \in Records |->
            IF \E o \in Locators : /\ acc.records[r] # None
                                   /\ snap[o] = None
                                   /\ acc.bindings[o] # None
                                   /\ acc.bindings[o].record = r
            THEN [acc.records[r] EXCEPT !.missing = TRUE]
            ELSE acc.records[r]]]

\* In every reachable store, for every index and every choice of identities,
\* the loop over the notes computes the bindings and records that the Sync
\* action writes: the outcome of a synchronization that renames, copies,
\* swaps and deletes notes at once does not depend on hidden loop state.
SyncMatchesNoteLoop ==
    \A snap \in Snapshot : \A fresh \in [NewNotes(snap) -> Records] :
        FreshIds(snap, fresh) =>
            MarkMissing(snap, AfterNotes(snap, fresh)) =
                [bindings |-> SyncedBindings(snap, fresh),
                 records  |-> [r \in Records |-> SyncedRecord(snap, fresh, r)]]

=============================================================================
