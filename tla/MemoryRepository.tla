-------------------------- MODULE MemoryRepository --------------------------
(***************************************************************************)
(* The product-owned memory store of                                       *)
(* src/oscillink_agent/memory/repository.py (class SQLiteMemoryRepository).*)
(* Every operation that writes runs under BEGIN IMMEDIATE, so each is one  *)
(* action here.  An operation that raises rolls back; its outcome is named *)
(* by an operator ("conflict", "not_found", ...) and it has no action.     *)
(*                                                                         *)
(* Data abstraction.  A content stands for the bytes of a note or of a     *)
(* native record, i.e. for its SHA-256 digest: the labels, topics and      *)
(* frontmatter status of a note are functions of those bytes, its title    *)
(* of those bytes and of the locator.  A locator is a vault-relative path, *)
(* identified by its rank in the order in which the indexer lists paths.   *)
(* There is one source, "obsidian_primary".                                *)
(***************************************************************************)
EXTENDS Integers, Sequences, FiniteSets

CONSTANTS Records,          \* mem_ identities
          Allocatable,      \* those the random allocator can return; the others
                            \* are derived from a request identity
          Contents,         \* content digests
          Locators,         \* vault paths, by rank in the index order
          ReviewEvents, ReviewKeys,  \* event ids and idempotency keys of reviews
          SyncEvents, SyncKeys,      \* and of source synchronizations
          DeclaredMissing,  \* contents whose frontmatter says status: missing
          Corrections,      \* the (target, expected hash) pairs a creation can bind
          None

ASSUME AllocatableAssumption == Allocatable \subseteq Records
ASSUME LocatorsAssumption == Locators \subseteq Nat
ASSUME NoneAssumption == None \notin (Records \cup Contents \cup Locators)
ASSUME DeclaredMissingAssumption == DeclaredMissing \subseteq Contents
ASSUME CorrectionsAssumption ==
    Corrections \subseteq (Records \cup {None}) \X (Contents \cup {None})

VARIABLES records,    \* memory_records: identity -> current revision
          revisions,  \* memory_record_revisions: identity -> revisions written
          reviews,    \* memory_reviews, in sequence order
          bindings,   \* memory_source_bindings: locator -> binding
          syncs       \* memory_source_syncs, in sequence order

vars == <<records, revisions, reviews, bindings, syncs>>

Decisions == {"approved", "rejected", "superseded"}

Revision ==
    [kind : {"native", "obsidian"}, content : Contents,
     locator : Locators \cup {None}, missing : BOOLEAN,
     target : Records \cup {None}, expected : Contents \cup {None}]

ReviewRow ==
    [event : ReviewEvents, key : ReviewKeys, record : Records, content : Contents,
     decision : Decisions, replacement : Records \cup {None}]

Binding == [content : Contents, record : Records]

\* None is the absence of a row, not a row.
ASSUME NoneIsNoRow == None \notin Revision /\ None \notin Binding

\* A vault index: the notes of one scan, as locator -> content.
Snapshot == [Locators -> Contents \cup {None}]

SyncRow == [event : SyncEvents, key : SyncKeys, snapshot : Snapshot]

TypeOK ==
    /\ records \in [Records -> Revision \cup {None}]
    /\ revisions \in [Records -> Seq(Revision)]
    /\ reviews \in Seq(ReviewRow)
    /\ bindings \in [Locators -> Binding \cup {None}]
    /\ syncs \in Seq(SyncRow)

-----------------------------------------------------------------------------
(* Reading: the current revision with its governed review state.           *)

Stored == {r \in Records : records[r] # None}

\* The review rows bound to one exact revision.
RowsOf(r, c) ==
    {i \in DOMAIN reviews : reviews[i].record = r /\ reviews[i].content = c}

\* d is the decision of the latest row bound to revision (r, c).
Decided(r, c, d) ==
    \E i \in RowsOf(r, c) :
        /\ reviews[i].decision = d
        /\ \A j \in RowsOf(r, c) : j <= i

\* The standing of revision (r, c): its latest decision, if it has one.
Standing(r, c) ==
    IF RowsOf(r, c) = {}
    THEN "undecided"
    ELSE CHOOSE d \in Decisions : Decided(r, c, d)

\* The authority get and list project on the current revision: create_native
\* stores "candidate", the synchronizer stores "curated", a decision overrides.
AuthorityOf(r) ==
    IF Standing(r, records[r].content) # "undecided"
    THEN Standing(r, records[r].content)
    ELSE IF records[r].kind = "native" THEN "candidate" ELSE "curated"

Approved(r) == records[r] # None /\ Decided(r, records[r].content, "approved")

Undecided(r) == RowsOf(r, records[r].content) = {}

-----------------------------------------------------------------------------
(* Writing.  A definition whose comment starts with "A slip" is a plausible *)
(* bug of the operator it precedes; the specification does not use it.     *)

\* A slip: the revision table keeps only the current revision.
AddRevisionReplacing(history, rev) == <<rev>>

\* The revision table is append-only and ignores a row it already holds
\* (INSERT OR IGNORE on UNIQUE (record_id, record_json)).
AddRevision(history, rev) ==
    IF \E i \in DOMAIN history : history[i] = rev
    THEN history
    ELSE Append(history, rev)

NativeRevision(c, t, h) ==
    [kind |-> "native", content |-> c, locator |-> None, missing |-> FALSE,
     target |-> t, expected |-> h]

NoteRevision(c, l) ==
    [kind |-> "obsidian", content |-> c, locator |-> l,
     missing |-> c \in DeclaredMissing, target |-> None, expected |-> None]

\* A slip: an identity that is taken is not compared with what is asked.
CreateOutcomeIfTaken(r, rev) ==
    IF records[r] = None THEN "created" ELSE "replayed"

\* create_native.  A caller-chosen identity is inserted once and compared
\* ever after; without one the store allocates an unused identity.
CreateOutcome(r, rev) ==
    IF records[r] = None THEN "created"
    ELSE IF records[r] = rev THEN "replayed"
    ELSE "conflict"

Create(r, rev) ==
    /\ CreateOutcome(r, rev) = "created"
    /\ records' = [records EXCEPT ![r] = rev]
    /\ revisions' = [revisions EXCEPT ![r] = AddRevision(@, rev)]
    /\ UNCHANGED <<reviews, bindings, syncs>>

-----------------------------------------------------------------------------
(* review: one human decision about the current revision of a record.      *)

RowFor(r, d, e, k, p) ==
    [event |-> e, key |-> k, record |-> r, content |-> records[r].content,
     decision |-> d, replacement |-> p]

\* A slip: a decided revision is decided again.
PermittedRepeatedly(r, d, p) ==
    \/ d \in {"approved", "rejected"} /\ p = None
    \/ d = "superseded" /\ Approved(r) /\ p \in Records \ {r} /\ Approved(p)

\* A slip: the replacement only has to exist.
PermittedForAnyReplacement(r, d, p) ==
    \/ d \in {"approved", "rejected"} /\ Undecided(r) /\ p = None
    \/ d = "superseded" /\ Approved(r) /\ p \in Stored \ {r}

\* A slip: the replacement only has to be reviewed.
PermittedForDecidedReplacement(r, d, p) ==
    \/ d \in {"approved", "rejected"} /\ Undecided(r) /\ p = None
    \/ d = "superseded" /\ Approved(r) /\ p \in Stored \ {r} /\ ~Undecided(p)

\* A slip: a record may replace itself.
PermittedForItself(r, d, p) ==
    \/ d \in {"approved", "rejected"} /\ Undecided(r) /\ p = None
    \/ d = "superseded" /\ Approved(r) /\ p \in Records /\ Approved(p)

\* The governed transition: approve or reject an undecided revision, or
\* supersede an approved one by another record that is itself approved.
Permitted(r, d, p) ==
    \/ d \in {"approved", "rejected"} /\ Undecided(r) /\ p = None
    \/ d = "superseded" /\ Approved(r) /\ p \in Records \ {r} /\ Approved(p)

ReviewOutcome(r, d, e, k, p) ==
    IF records[r] = None THEN "not_found"
    ELSE IF \E i \in DOMAIN reviews : reviews[i].key = k
         THEN IF \E i \in DOMAIN reviews : reviews[i] = RowFor(r, d, e, k, p)
              THEN "replayed" ELSE "conflict"
    ELSE IF ~Permitted(r, d, p) THEN "invalid_transition"
    ELSE IF \E i \in DOMAIN reviews : reviews[i].event = e THEN "conflict"
    ELSE "reviewed"

Review(r, d, e, k, p) ==
    /\ ReviewOutcome(r, d, e, k, p) = "reviewed"
    /\ reviews' = Append(reviews, RowFor(r, d, e, k, p))
    /\ UNCHANGED <<records, revisions, bindings, syncs>>

-----------------------------------------------------------------------------
(* sync_obsidian: reconcile the bindings and records with one vault index. *)
(* The code visits the notes in order.  The operators below state what     *)
(* that loop computes, note by note, in terms of the state before it.      *)

\* A slip: a copy of a note that is still in the index counts as a rename.
OriginsStillPresent(snap, c) ==
    {o \in Locators : bindings[o] # None /\ bindings[o].content = c}

\* Bindings of the same bytes whose locator is absent from the index.
Origins(snap, c) ==
    {o \in Locators : /\ snap[o] = None
                      /\ bindings[o] # None
                      /\ bindings[o].content = c}

\* A slip: a note that has a binding takes over that of another locator.
IsRenameOfBound(snap, l) ==
    /\ snap[l] # None
    /\ \E o \in Locators : Origins(snap, snap[l]) = {o}
    /\ \A m \in Locators :
          m < l /\ bindings[m] = None => snap[m] # snap[l]

\* A note at an unbound locator continues the record of the one absent
\* locator with the same bytes; an earlier such note has already taken it.
IsRename(snap, l) ==
    /\ snap[l] # None
    /\ bindings[l] = None
    /\ \E o \in Locators : Origins(snap, snap[l]) = {o}
    /\ \A m \in Locators :
          m < l /\ bindings[m] = None => snap[m] # snap[l]

OriginOf(snap, l) == CHOOSE o \in Locators : Origins(snap, snap[l]) = {o}

IsNew(snap, l) ==
    snap[l] # None /\ bindings[l] = None /\ ~IsRename(snap, l)

NewNotes(snap) == {l \in Locators : IsNew(snap, l)}

\* _new_record_id: unused identities, a different one for each new note.
FreshIds(snap, fresh) ==
    /\ \A l \in NewNotes(snap) : fresh[l] \in Allocatable \ Stored
    /\ \A l, m \in NewNotes(snap) : fresh[l] = fresh[m] => l = m

\* A slip: the digest column of a binding is read as its record.
OwnerColumnsSwapped(snap, fresh, l) ==
    IF bindings[l] # None THEN bindings[l].content
    ELSE IF IsRename(snap, l) THEN bindings[OriginOf(snap, l)].record
    ELSE fresh[l]

\* The record a note belongs to: bound, renamed or new.
OwnerOf(snap, fresh, l) ==
    IF bindings[l] # None THEN bindings[l].record
    ELSE IF IsRename(snap, l) THEN bindings[OriginOf(snap, l)].record
    ELSE fresh[l]

\* Some note of the index has taken over the binding at locator o.
MovedAway(snap, o) ==
    \E l \in Locators : IsRename(snap, l) /\ OriginOf(snap, l) = o

\* A slip: a rename leaves the binding of the old locator behind.
SyncedBindingsKeepingOrigin(snap, fresh) ==
    [l \in Locators |->
        IF snap[l] # None
        THEN [content |-> snap[l], record |-> OwnerOf(snap, fresh, l)]
        ELSE bindings[l]]

SyncedBindings(snap, fresh) ==
    [l \in Locators |->
        IF snap[l] # None
        THEN [content |-> snap[l], record |-> OwnerOf(snap, fresh, l)]
        ELSE IF MovedAway(snap, l) THEN None
        ELSE bindings[l]]

\* A slip: a record whose note is gone is not marked missing.
SyncedRecordStillListed(snap, fresh, r) ==
    LET bound == SyncedBindings(snap, fresh)
        Holds(l) == bound[l] # None /\ bound[l].record = r
    IN  IF \E l \in Locators : Holds(l) /\ snap[l] # None
        THEN LET l == CHOOSE l \in Locators : Holds(l) /\ snap[l] # None
             IN  NoteRevision(snap[l], l)
        ELSE records[r]

\* The revision a record has after the sync: that of its note, or the stored
\* one marked missing when its locator is no longer in the index.
SyncedRecord(snap, fresh, r) ==
    LET bound == SyncedBindings(snap, fresh)
        Holds(l) == bound[l] # None /\ bound[l].record = r
    IN  IF \E l \in Locators : Holds(l) /\ snap[l] # None
        THEN LET l == CHOOSE l \in Locators : Holds(l) /\ snap[l] # None
             IN  NoteRevision(snap[l], l)
        ELSE IF records[r] # None /\ \E l \in Locators : Holds(l) /\ snap[l] = None
        THEN [records[r] EXCEPT !.missing = TRUE]
        ELSE records[r]

SyncOutcome(snap, e, k) ==
    IF \E i \in DOMAIN syncs : syncs[i].key = k
    THEN IF \E i \in DOMAIN syncs :
               syncs[i] = [event |-> e, key |-> k, snapshot |-> snap]
         THEN "replayed" ELSE "conflict"
    ELSE IF \E i \in DOMAIN syncs : syncs[i].event = e THEN "conflict"
    ELSE "synchronized"

Sync(snap, fresh, e, k) ==
    /\ SyncOutcome(snap, e, k) = "synchronized"
    /\ FreshIds(snap, fresh)
    /\ bindings' = SyncedBindings(snap, fresh)
    /\ records' = [r \in Records |-> SyncedRecord(snap, fresh, r)]
    /\ revisions' =
          [r \in Records |->
              IF records'[r] = None THEN revisions[r]
              ELSE AddRevision(revisions[r], records'[r])]
    /\ syncs' = Append(syncs, [event |-> e, key |-> k, snapshot |-> snap])
    /\ UNCHANGED reviews

-----------------------------------------------------------------------------

Init ==
    /\ records = [r \in Records |-> None]
    /\ revisions = [r \in Records |-> <<>>]
    /\ reviews = <<>>
    /\ bindings = [l \in Locators |-> None]
    /\ syncs = <<>>

CreateNative ==
    \E r \in Records, c \in Contents, bound \in Corrections :
        /\ bound # <<None, None>> => r \notin Allocatable
        /\ Create(r, NativeRevision(c, bound[1], bound[2]))

ReviewRecord ==
    \E r \in Records, d \in Decisions, e \in ReviewEvents, k \in ReviewKeys,
       p \in Records \cup {None} : Review(r, d, e, k, p)

SyncObsidian ==
    \E snap \in Snapshot, e \in SyncEvents, k \in SyncKeys :
        \E fresh \in [NewNotes(snap) -> Records] : Sync(snap, fresh, e, k)

Next == CreateNative \/ ReviewRecord \/ SyncObsidian

Spec == Init /\ [][Next]_vars

-----------------------------------------------------------------------------
(* Safety.                                                                 *)

\* Each revision is decided at most twice, and then it was first approved and
\* then superseded: rejection and supersession are final, no decision is
\* repeated under another key (the state machine of _review_locked).
ReviewLifecycle ==
    \A i, j \in DOMAIN reviews :
        (/\ i < j
         /\ reviews[i].record = reviews[j].record
         /\ reviews[i].content = reviews[j].content)
        => /\ reviews[i].decision = "approved"
           /\ reviews[j].decision = "superseded"

\* A supersession names a stored record other than its own, which had been
\* approved before, and it follows the approval of the revision it closes.
SupersessionGrounded ==
    \A i \in DOMAIN reviews : reviews[i].decision = "superseded" =>
        /\ reviews[i].replacement \in Stored \ {reviews[i].record}
        /\ \E j \in DOMAIN reviews :
              /\ j < i
              /\ reviews[j].record = reviews[i].replacement
              /\ reviews[j].decision = "approved"
        /\ \E j \in DOMAIN reviews :
              /\ j < i
              /\ reviews[j].record = reviews[i].record
              /\ reviews[j].content = reviews[i].content
              /\ reviews[j].decision = "approved"

\* Following superseded_by from a native record never comes back: each step
\* leads to a later review row, until it reaches an approved record.
NativeLineageEndsApproved ==
    \A i \in DOMAIN reviews :
        LET p == reviews[i].replacement IN
        (reviews[i].decision = "superseded" /\ records[p].kind = "native") =>
            /\ \A j \in DOMAIN reviews :
                  (reviews[j].record = p /\ reviews[j].decision = "superseded")
                  => i < j
            /\ \/ Approved(p)
               \/ \E j \in DOMAIN reviews :
                     reviews[j].record = p /\ reviews[j].decision = "superseded"

\* The binding table and the synchronized records describe each other: each
\* binding holds the bytes and the locator of its record's current revision,
\* and each synchronized record has exactly the binding of its locator.  No
\* chain of edits, copies and renames merges two records or orphans one.
BindingsMirrorRecords ==
    /\ \A l \in Locators : bindings[l] # None =>
          LET rev == records[bindings[l].record] IN
          /\ rev # None
          /\ rev.kind = "obsidian"
          /\ rev.locator = l
          /\ rev.content = bindings[l].content
    /\ \A r \in Stored : records[r].kind = "obsidian" =>
          /\ records[r].locator # None
          /\ bindings[records[r].locator] # None
          /\ bindings[records[r].locator].record = r

\* After any sequence of synchronizations the store mirrors the index that
\* committed last: every note is bound, and a synchronized record is missing
\* exactly when its locator left that index (or its frontmatter says so).
SourceStatusTracksLastSync ==
    syncs # <<>> =>
        LET snap == syncs[Len(syncs)].snapshot IN
        /\ \A l \in Locators : snap[l] # None =>
              bindings[l] # None /\ bindings[l].content = snap[l]
        /\ \A r \in Stored : records[r].kind = "obsidian" =>
              (records[r].missing
               <=> \/ snap[records[r].locator] = None
                   \/ records[r].content \in DeclaredMissing)

\* Every revision a decision was bound to, and every current revision, can
\* still be read back from the revision table.
DecidedRevisionsAreKept ==
    /\ \A r \in Stored : \E i \in DOMAIN revisions[r] : revisions[r][i] = records[r]
    /\ \A n \in DOMAIN reviews :
          \E i \in DOMAIN revisions[reviews[n].record] :
              revisions[reviews[n].record][i].content = reviews[n].content

\* A record keeps its identity over a change of locator only as a pure rename:
\* the bytes are the same and the old locator is gone from the index.  Native
\* records are never touched by a synchronization.
IdentityFollowsSource ==
    [][\A r \in Stored :
          /\ records[r].kind = records'[r].kind
          /\ records[r].kind = "native" => records'[r] = records[r]
          /\ records'[r].locator # records[r].locator =>
                /\ records'[r].content = records[r].content
                /\ syncs'[Len(syncs')].snapshot[records[r].locator] = None]_vars

-----------------------------------------------------------------------------
(* The store implements the authority machine.                             *)

Authority ==
    INSTANCE MemoryAuthority
    WITH authority <- [v \in Records \X Contents |-> Standing(v[1], v[2])]

\* Seen through the latest decision on each revision, every step of the store
\* (creations and synchronizations included) is a step of MemoryAuthority.
ImplementsAuthority == Authority!AuthoritySpec

=============================================================================
