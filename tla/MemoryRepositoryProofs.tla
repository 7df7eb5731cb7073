----------------------- MODULE MemoryRepositoryProofs -----------------------
(***************************************************************************)
(* Proofs about MemoryRepository for every set of records, contents,       *)
(* locators, events and keys.                                              *)
(***************************************************************************)
EXTENDS MemoryRepository, TLAPS

-----------------------------------------------------------------------------
(* Type correctness.                                                       *)

\* A revision row lands in the table, whatever rows are there.
LEMMA AddRevisionType ==
    ASSUME NEW h \in Seq(Revision), NEW rev \in Revision
    PROVE  /\ AddRevision(h, rev) \in Seq(Revision)
           /\ \E i \in DOMAIN AddRevision(h, rev) : AddRevision(h, rev)[i] = rev
           /\ \A i \in DOMAIN h : /\ i \in DOMAIN AddRevision(h, rev)
                                  /\ AddRevision(h, rev)[i] = h[i]
<1>1. CASE \E i \in DOMAIN h : h[i] = rev
  BY <1>1 DEF AddRevision
<1>2. CASE ~ \E i \in DOMAIN h : h[i] = rev
  <2>1. AddRevision(h, rev) = Append(h, rev)
    BY <1>2 DEF AddRevision
  <2>2. /\ Len(Append(h, rev)) = Len(h) + 1
        /\ Append(h, rev)[Len(h) + 1] = rev
        /\ \A i \in 1..Len(h) : Append(h, rev)[i] = h[i]
        /\ Append(h, rev) \in Seq(Revision)
    OBVIOUS
  <2> QED BY <2>1, <2>2
<1> QED BY <1>1, <1>2

LEMMA NoteRevisionType ==
    ASSUME NEW c \in Contents, NEW l \in Locators
    PROVE  /\ NoteRevision(c, l) \in Revision
           /\ NoteRevision(c, l).content = c
           /\ NoteRevision(c, l).locator = l
           /\ NoteRevision(c, l).kind = "obsidian"
           /\ NoteRevision(c, l).missing <=> c \in DeclaredMissing
           /\ NoteRevision(c, l) # None
<1>1. NoteRevision(c, l) \in Revision
  BY DEF NoteRevision, Revision
<1> QED BY <1>1, NoneIsNoRow DEF NoteRevision

\* Facts about one note of an index: whose record it takes.
LEMMA OwnerOfNote ==
    ASSUME TypeOK, NEW snap \in Snapshot, NEW fresh \in [NewNotes(snap) -> Records],
           NEW l \in Locators, snap[l] # None
    PROVE  /\ OwnerOf(snap, fresh, l) \in Records
           /\ bindings[l] # None => OwnerOf(snap, fresh, l) = bindings[l].record
           /\ IsRename(snap, l) =>
                 /\ bindings[l] = None
                 /\ OriginOf(snap, l) \in Locators
                 /\ Origins(snap, snap[l]) = {OriginOf(snap, l)}
                 /\ snap[OriginOf(snap, l)] = None
                 /\ bindings[OriginOf(snap, l)] # None
                 /\ bindings[OriginOf(snap, l)].content = snap[l]
                 /\ OwnerOf(snap, fresh, l) = bindings[OriginOf(snap, l)].record
           /\ (bindings[l] = None /\ ~IsRename(snap, l)) =>
                 /\ l \in NewNotes(snap)
                 /\ OwnerOf(snap, fresh, l) = fresh[l]
<1>1. \A m \in Locators : bindings[m] # None => bindings[m] \in Binding
  BY DEF TypeOK
<1>2. \A m \in Locators : bindings[m] # None => bindings[m].record \in Records
  BY <1>1 DEF Binding
<1>3. CASE bindings[l] # None
  BY <1>2, <1>3 DEF OwnerOf, IsRename
<1>4. CASE bindings[l] = None /\ IsRename(snap, l)
  <2>1. \E o \in Locators : Origins(snap, snap[l]) = {o}
    BY <1>4 DEF IsRename
  <2>2. /\ OriginOf(snap, l) \in Locators
        /\ Origins(snap, snap[l]) = {OriginOf(snap, l)}
    BY <2>1 DEF OriginOf
  <2>3. OriginOf(snap, l) \in Origins(snap, snap[l])
    BY <2>2
  <2>4. /\ snap[OriginOf(snap, l)] = None
        /\ bindings[OriginOf(snap, l)] # None
        /\ bindings[OriginOf(snap, l)].content = snap[l]
    BY <2>3 DEF Origins
  <2>5. OwnerOf(snap, fresh, l) = bindings[OriginOf(snap, l)].record
    BY <1>4 DEF OwnerOf
  <2> QED BY <1>2, <1>4, <2>2, <2>4, <2>5
<1>5. CASE bindings[l] = None /\ ~IsRename(snap, l)
  <2>1. l \in NewNotes(snap)
    BY <1>5 DEF NewNotes, IsNew
  <2>2. OwnerOf(snap, fresh, l) = fresh[l]
    BY <1>5 DEF OwnerOf
  <2> QED BY <1>5, <2>1, <2>2
<1> QED BY <1>3, <1>4, <1>5

LEMMA SyncedBindingsType ==
    ASSUME TypeOK, NEW snap \in Snapshot, NEW fresh \in [NewNotes(snap) -> Records]
    PROVE  SyncedBindings(snap, fresh) \in [Locators -> Binding \cup {None}]
<1> SUFFICES ASSUME NEW l \in Locators
             PROVE  SyncedBindings(snap, fresh)[l] \in Binding \cup {None}
  BY DEF SyncedBindings
<1>1. CASE snap[l] # None
  <2>1. snap[l] \in Contents
    BY <1>1 DEF Snapshot
  <2>2. OwnerOf(snap, fresh, l) \in Records
    BY <1>1, OwnerOfNote
  <2>3. SyncedBindings(snap, fresh)[l]
           = [content |-> snap[l], record |-> OwnerOf(snap, fresh, l)]
    BY <1>1 DEF SyncedBindings
  <2> QED BY <2>1, <2>2, <2>3 DEF Binding
<1>2. CASE snap[l] = None
  <2>1. SyncedBindings(snap, fresh)[l] \in {None, bindings[l]}
    BY <1>2 DEF SyncedBindings
  <2> QED BY <2>1 DEF TypeOK
<1> QED BY <1>1, <1>2

LEMMA SyncedRecordType ==
    ASSUME TypeOK, NEW snap \in Snapshot, NEW fresh \in [NewNotes(snap) -> Records],
           NEW r \in Records
    PROVE  /\ SyncedRecord(snap, fresh, r) \in Revision \cup {None}
           /\ records[r] # None => SyncedRecord(snap, fresh, r) # None
<1> DEFINE bound == SyncedBindings(snap, fresh)
           Holds(l) == bound[l] # None /\ bound[l].record = r
<1>1. records[r] \in Revision \cup {None}
  BY DEF TypeOK
<1>2. CASE \E l \in Locators : Holds(l) /\ snap[l] # None
  <2>1. PICK l \in Locators :
             /\ Holds(l) /\ snap[l] # None
             /\ SyncedRecord(snap, fresh, r) = NoteRevision(snap[l], l)
    BY <1>2 DEF SyncedRecord
  <2>2. snap[l] \in Contents
    BY <2>1 DEF Snapshot
  <2> QED BY <2>1, <2>2, NoteRevisionType
<1>3. CASE /\ ~ \E l \in Locators : Holds(l) /\ snap[l] # None
           /\ records[r] # None
           /\ \E l \in Locators : Holds(l) /\ snap[l] = None
  <2>1. SyncedRecord(snap, fresh, r) = [records[r] EXCEPT !.missing = TRUE]
    BY <1>3 DEF SyncedRecord
  <2>2. records[r] \in Revision
    BY <1>1, <1>3
  <2>3. [records[r] EXCEPT !.missing = TRUE] \in Revision
    BY <2>2 DEF Revision
  <2>4. [records[r] EXCEPT !.missing = TRUE] # None
    BY <2>3, NoneIsNoRow
  <2> QED BY <2>1, <2>3, <2>4
<1>4. CASE /\ ~ \E l \in Locators : Holds(l) /\ snap[l] # None
           /\ ~(records[r] # None /\ \E l \in Locators : Holds(l) /\ snap[l] = None)
  <2>1. SyncedRecord(snap, fresh, r) = records[r]
    BY <1>4 DEF SyncedRecord
  <2> QED BY <1>1, <2>1
<1> QED BY <1>2, <1>3, <1>4

\* The row of a review that is admitted is a row of the table.
LEMMA ReviewedRow ==
    ASSUME TypeOK, NEW r \in Records, NEW d \in Decisions, NEW e \in ReviewEvents,
           NEW k \in ReviewKeys, NEW p \in Records \cup {None}, Review(r, d, e, k, p)
    PROVE  /\ records[r] \in Revision
           /\ RowFor(r, d, e, k, p) \in ReviewRow
           /\ reviews' = Append(reviews, RowFor(r, d, e, k, p))
           /\ Permitted(r, d, p)
           /\ UNCHANGED <<records, revisions, bindings, syncs>>
<1>1. records[r] # None /\ Permitted(r, d, p)
  BY DEF Review, ReviewOutcome
<1>2. records[r] \in Revision
  BY <1>1 DEF TypeOK
<1>3. records[r].content \in Contents
  BY <1>2 DEF Revision
<1>4. RowFor(r, d, e, k, p) \in ReviewRow
  BY <1>3 DEF RowFor, ReviewRow
<1> QED BY <1>1, <1>2, <1>4 DEF Review

LEMMA CreateType ==
    ASSUME TypeOK, NEW r \in Records, NEW rev \in Revision, Create(r, rev)
    PROVE  /\ records[r] = None
           /\ records' = [records EXCEPT ![r] = rev]
           /\ revisions' = [revisions EXCEPT ![r] = AddRevision(@, rev)]
           /\ AddRevision(revisions[r], rev) \in Seq(Revision)
           /\ UNCHANGED <<reviews, bindings, syncs>>
<1>1. records[r] = None
  BY DEF Create, CreateOutcome
<1>2. revisions[r] \in Seq(Revision)
  BY DEF TypeOK
<1>3. AddRevision(revisions[r], rev) \in Seq(Revision)
  BY <1>2, AddRevisionType
<1> QED BY <1>1, <1>3 DEF Create

LEMMA NativeRevisionType ==
    ASSUME NEW c \in Contents, NEW bound \in Corrections
    PROVE  /\ NativeRevision(c, bound[1], bound[2]) \in Revision
           /\ NativeRevision(c, bound[1], bound[2]) # None
           /\ NativeRevision(c, bound[1], bound[2]).kind = "native"
<1>1. bound[1] \in Records \cup {None} /\ bound[2] \in Contents \cup {None}
  BY CorrectionsAssumption
<1>2. NativeRevision(c, bound[1], bound[2]) \in Revision
  BY <1>1 DEF NativeRevision, Revision
<1> QED BY <1>2, NoneIsNoRow DEF NativeRevision

LEMMA SyncType ==
    ASSUME TypeOK, NEW snap \in Snapshot, NEW e \in SyncEvents, NEW k \in SyncKeys,
           NEW fresh \in [NewNotes(snap) -> Records], Sync(snap, fresh, e, k)
    PROVE  TypeOK'
<1>1. bindings' \in [Locators -> Binding \cup {None}]
  BY SyncedBindingsType DEF Sync
<1>2. records' \in [Records -> Revision \cup {None}]
  BY SyncedRecordType DEF Sync
<1>3. revisions' \in [Records -> Seq(Revision)]
  <2> SUFFICES ASSUME NEW r \in Records
               PROVE  revisions'[r] \in Seq(Revision)
    BY DEF Sync
  <2>1. revisions[r] \in Seq(Revision)
    BY DEF TypeOK
  <2>2. CASE records'[r] = None
    BY <2>1, <2>2 DEF Sync
  <2>3. CASE records'[r] # None
    <3>1. records'[r] \in Revision
      BY <1>2, <2>3
    <3> QED BY <2>1, <2>3, <3>1, AddRevisionType DEF Sync
  <2> QED BY <2>2, <2>3
<1>4. syncs' \in Seq(SyncRow)
  <2>1. [event |-> e, key |-> k, snapshot |-> snap] \in SyncRow
    BY DEF SyncRow
  <2>2. syncs \in Seq(SyncRow)
    BY DEF TypeOK
  <2> QED BY <2>1, <2>2 DEF Sync
<1>5. reviews' \in Seq(ReviewRow)
  BY DEF TypeOK, Sync
<1> QED BY <1>1, <1>2, <1>3, <1>4, <1>5 DEF TypeOK

LEMMA TypeStep == TypeOK /\ [Next]_vars => TypeOK'
<1> SUFFICES ASSUME TypeOK, [Next]_vars PROVE TypeOK'
  OBVIOUS
<1>1. CASE CreateNative
  <2>1. PICK r \in Records, c \in Contents, bound \in Corrections :
             Create(r, NativeRevision(c, bound[1], bound[2]))
    BY <1>1 DEF CreateNative
  <2>2. NativeRevision(c, bound[1], bound[2]) \in Revision
    BY NativeRevisionType
  <2> DEFINE rev == NativeRevision(c, bound[1], bound[2])
  <2>3. /\ records' = [records EXCEPT ![r] = rev]
        /\ revisions' = [revisions EXCEPT ![r] = AddRevision(@, rev)]
        /\ AddRevision(revisions[r], rev) \in Seq(Revision)
        /\ UNCHANGED <<reviews, bindings, syncs>>
    BY <2>1, <2>2, CreateType
  <2> HIDE DEF rev
  <2> QED BY <2>2, <2>3 DEF TypeOK, rev
<1>2. CASE ReviewRecord
  <2>1. PICK r \in Records, d \in Decisions, e \in ReviewEvents, k \in ReviewKeys,
             p \in Records \cup {None} : Review(r, d, e, k, p)
    BY <1>2 DEF ReviewRecord
  <2>2. /\ RowFor(r, d, e, k, p) \in ReviewRow
        /\ reviews' = Append(reviews, RowFor(r, d, e, k, p))
        /\ UNCHANGED <<records, revisions, bindings, syncs>>
    BY <2>1, ReviewedRow
  <2>3. reviews' \in Seq(ReviewRow)
    BY <2>2 DEF TypeOK
  <2> QED BY <2>2, <2>3 DEF TypeOK
<1>3. CASE SyncObsidian
  BY <1>3, SyncType DEF SyncObsidian
<1>4. CASE UNCHANGED vars
  BY <1>4 DEF TypeOK, vars
<1> QED BY <1>1, <1>2, <1>3, <1>4 DEF Next

\* In every reachable state each table of the memory store holds rows of its
\* schema: in particular no step files a revision, a decision or a binding
\* under an identity, digest or locator that does not exist.
THEOREM TypeCorrect == Spec => []TypeOK
<1>1. Init => TypeOK
  BY DEF Init, TypeOK
<1> QED BY <1>1, TypeStep, PTL DEF Spec

-----------------------------------------------------------------------------
(* The review table: decisions on one revision, and on its replacement.    *)

\* Each step either files one admitted decision or leaves the decisions
\* alone; no step removes a record.
LEMMA StepOnReviews ==
    ASSUME TypeOK, [Next]_vars
    PROVE  /\ Stored \subseteq Stored'
           /\ \/ UNCHANGED reviews
              \/ \E r \in Records, d \in Decisions, e \in ReviewEvents, k \in ReviewKeys,
                    p \in Records \cup {None} : Review(r, d, e, k, p)
<1>1. CASE CreateNative
  <2>1. PICK r \in Records, c \in Contents, bound \in Corrections :
             Create(r, NativeRevision(c, bound[1], bound[2]))
    BY <1>1 DEF CreateNative
  <2>2. /\ NativeRevision(c, bound[1], bound[2]) \in Revision
        /\ NativeRevision(c, bound[1], bound[2]) # None
    BY NativeRevisionType
  <2>3. UNCHANGED reviews
    BY <2>1 DEF Create
  <2>4. \A q \in Records : records[q] # None => records'[q] # None
    BY <2>1, <2>2, CreateType DEF TypeOK
  <2> QED BY <2>3, <2>4 DEF Stored
<1>2. CASE ReviewRecord
  BY <1>2, ReviewedRow DEF ReviewRecord, Stored
<1>3. CASE SyncObsidian
  <2>1. PICK snap \in Snapshot, e \in SyncEvents, k \in SyncKeys :
             \E fresh \in [NewNotes(snap) -> Records] : Sync(snap, fresh, e, k)
    BY <1>3 DEF SyncObsidian
  <2>2. PICK fresh \in [NewNotes(snap) -> Records] : Sync(snap, fresh, e, k)
    BY <2>1
  <2>3. \A q \in Records : records[q] # None => records'[q] # None
    BY <2>2, SyncedRecordType DEF Sync
  <2> QED BY <2>2, <2>3 DEF Sync, Stored
<1>4. CASE UNCHANGED vars
  BY <1>4 DEF vars, Stored
<1> QED BY <1>1, <1>2, <1>3, <1>4 DEF Next

LEMMA ReviewAppends ==
    ASSUME TypeOK, NEW r \in Records, NEW d \in Decisions, NEW e \in ReviewEvents,
           NEW k \in ReviewKeys, NEW p \in Records \cup {None}, Review(r, d, e, k, p)
    PROVE  /\ Len(reviews) \in Nat
           /\ DOMAIN reviews = 1 .. Len(reviews)
           /\ DOMAIN reviews' = 1 .. (Len(reviews) + 1)
           /\ \A i \in DOMAIN reviews : reviews'[i] = reviews[i]
           /\ reviews'[Len(reviews) + 1] = RowFor(r, d, e, k, p)
           /\ \A i \in DOMAIN reviews : reviews[i] \in ReviewRow
<1>1. reviews \in Seq(ReviewRow)
  BY DEF TypeOK
<1>2. reviews' = Append(reviews, RowFor(r, d, e, k, p))
  BY ReviewedRow
<1>3. RowFor(r, d, e, k, p) \in ReviewRow
  BY ReviewedRow
<1> QED BY <1>1, <1>2, <1>3

\* What an approval in force means for the rows of that revision.
LEMMA ApprovedRows ==
    ASSUME TypeOK, ReviewLifecycle, NEW q \in Records, Approved(q)
    PROVE  \E i \in DOMAIN reviews :
              /\ reviews[i].record = q
              /\ reviews[i].content = records[q].content
              /\ reviews[i].decision = "approved"
              /\ RowsOf(q, records[q].content) = {i}
<1>1. PICK i \in RowsOf(q, records[q].content) :
           /\ reviews[i].decision = "approved"
           /\ \A j \in RowsOf(q, records[q].content) : j <= i
  BY DEF Approved, Decided
<1>2. i \in DOMAIN reviews /\ DOMAIN reviews \subseteq Int
  BY <1>1 DEF RowsOf, TypeOK
<1>3. ASSUME NEW j \in RowsOf(q, records[q].content), j # i PROVE FALSE
  <2>1. j \in DOMAIN reviews /\ j < i
    BY <1>1, <1>2, <1>3 DEF RowsOf
  <2>2. reviews[i].decision = "superseded"
    BY <1>1, <1>2, <2>1 DEF RowsOf, ReviewLifecycle
  <2> QED BY <1>1, <2>2
<1> QED BY <1>1, <1>2, <1>3 DEF RowsOf

\* The latest decision on a decided revision exists.
LatestRowExists ==
    \A r \in Records, c \in Contents :
        RowsOf(r, c) # {} => \E i \in RowsOf(r, c) : \A j \in RowsOf(r, c) : j <= i

ReviewInv == TypeOK /\ ReviewLifecycle /\ SupersessionGrounded /\ LatestRowExists

LEMMA LifecycleStep ==
    ASSUME TypeOK, ReviewLifecycle, [Next]_vars
    PROVE  ReviewLifecycle'
<1>1. CASE UNCHANGED reviews
  BY <1>1 DEF ReviewLifecycle
<1>2. ASSUME NEW r \in Records, NEW d \in Decisions, NEW e \in ReviewEvents,
             NEW k \in ReviewKeys, NEW p \in Records \cup {None}, Review(r, d, e, k, p)
      PROVE  ReviewLifecycle'
  <2> DEFINE n == Len(reviews) + 1
  <2>1. /\ Len(reviews) \in Nat
        /\ DOMAIN reviews = 1 .. Len(reviews)
        /\ DOMAIN reviews' = 1 .. n
        /\ \A i \in DOMAIN reviews : reviews'[i] = reviews[i]
        /\ reviews'[n] = RowFor(r, d, e, k, p)
    BY <1>2, ReviewAppends
  <2>2. Permitted(r, d, p)
    BY <1>2, ReviewedRow
  <2>3. ASSUME NEW i \in DOMAIN reviews', NEW j \in DOMAIN reviews', i < j,
               reviews'[i].record = reviews'[j].record,
               reviews'[i].content = reviews'[j].content
        PROVE  reviews'[i].decision = "approved" /\ reviews'[j].decision = "superseded"
    <3>1. CASE j < n
      <4>1. i \in DOMAIN reviews /\ j \in DOMAIN reviews
        BY <2>1, <2>3, <3>1
      <4> QED BY <2>1, <2>3, <4>1 DEF ReviewLifecycle
    <3>2. CASE j = n
      <4>1. i \in DOMAIN reviews
        BY <2>1, <2>3, <3>2
      <4>2. /\ reviews[i].record = r
            /\ reviews[i].content = records[r].content
        BY <2>1, <2>3, <3>2, <4>1 DEF RowFor
      <4>3. i \in RowsOf(r, records[r].content)
        BY <4>1, <4>2 DEF RowsOf
      <4>4. d = "superseded" /\ Approved(r)
        BY <2>2, <4>3 DEF Permitted, Undecided
      <4>5. reviews[i].decision = "approved"
        BY <4>3, <4>4, ApprovedRows
      <4> QED BY <2>1, <3>2, <4>1, <4>4, <4>5 DEF RowFor
    <3> QED BY <2>1, <3>1, <3>2
  <2> QED BY <2>3 DEF ReviewLifecycle
<1> QED BY <1>1, <1>2, StepOnReviews

LEMMA GroundedStep ==
    ASSUME TypeOK, ReviewLifecycle, SupersessionGrounded, [Next]_vars
    PROVE  SupersessionGrounded'
<1>1. Stored \subseteq Stored'
  BY StepOnReviews
<1>2. CASE UNCHANGED reviews
  BY <1>1, <1>2 DEF SupersessionGrounded
<1>3. ASSUME NEW r \in Records, NEW d \in Decisions, NEW e \in ReviewEvents,
             NEW k \in ReviewKeys, NEW p \in Records \cup {None}, Review(r, d, e, k, p)
      PROVE  SupersessionGrounded'
  <2> DEFINE n == Len(reviews) + 1
             Grounded(i) ==
                 /\ reviews[i].replacement \in Stored \ {reviews[i].record}
                 /\ \E j \in DOMAIN reviews :
                       /\ j < i
                       /\ reviews[j].record = reviews[i].replacement
                       /\ reviews[j].decision = "approved"
                 /\ \E j \in DOMAIN reviews :
                       /\ j < i
                       /\ reviews[j].record = reviews[i].record
                       /\ reviews[j].content = reviews[i].content
                       /\ reviews[j].decision = "approved"
  <2>1. /\ Len(reviews) \in Nat
        /\ DOMAIN reviews = 1 .. Len(reviews)
        /\ DOMAIN reviews' = 1 .. n
        /\ \A i \in DOMAIN reviews : reviews'[i] = reviews[i]
        /\ reviews'[n] = RowFor(r, d, e, k, p)
    BY <1>3, ReviewAppends
  <2>2. \A i \in DOMAIN reviews :
            reviews[i].decision = "superseded" => Grounded(i)
    BY DEF SupersessionGrounded
  <2>3. ASSUME NEW i \in DOMAIN reviews', reviews'[i].decision = "superseded"
        PROVE  Grounded(i)'
    <3>1. CASE i < n
      BY <1>1, <2>1, <2>2, <2>3, <3>1
    <3>2. CASE i = n
      <4>1. d = "superseded" /\ RowFor(r, d, e, k, p).replacement = p
            /\ RowFor(r, d, e, k, p).record = r
            /\ RowFor(r, d, e, k, p).content = records[r].content
        BY <2>1, <2>3, <3>2 DEF RowFor
      <4>2. Approved(r) /\ p \in Records \ {r} /\ Approved(p)
        BY <1>3, <4>1, ReviewedRow DEF Permitted
      <4>3. p \in Stored'
        BY <1>1, <4>2 DEF Approved, Stored
      <4>4. PICK j1 \in DOMAIN reviews :
                 reviews[j1].record = p /\ reviews[j1].decision = "approved"
        BY <4>2, ApprovedRows
      <4>5. PICK j2 \in DOMAIN reviews :
                 /\ reviews[j2].record = r
                 /\ reviews[j2].content = records[r].content
                 /\ reviews[j2].decision = "approved"
        BY <4>2, ApprovedRows
      <4>6. j1 \in DOMAIN reviews' /\ j1 < n /\ j2 \in DOMAIN reviews' /\ j2 < n
        BY <2>1
      <4> QED BY <2>1, <3>2, <4>1, <4>2, <4>3, <4>4, <4>5, <4>6
    <3> QED BY <2>1, <3>1, <3>2
  <2> QED BY <2>3 DEF SupersessionGrounded
<1> QED BY <1>2, <1>3, StepOnReviews

LEMMA LatestRowStep ==
    ASSUME TypeOK, LatestRowExists, [Next]_vars
    PROVE  LatestRowExists'
<1>1. CASE UNCHANGED reviews
  BY <1>1 DEF LatestRowExists, RowsOf
<1>2. ASSUME NEW r \in Records, NEW d \in Decisions, NEW e \in ReviewEvents,
             NEW k \in ReviewKeys, NEW p \in Records \cup {None}, Review(r, d, e, k, p),
             NEW q \in Records, NEW c \in Contents, RowsOf(q, c)' # {}
      PROVE  \E i \in RowsOf(q, c)' : \A j \in RowsOf(q, c)' : j <= i
  <2> DEFINE n == Len(reviews) + 1
  <2>1. /\ Len(reviews) \in Nat
        /\ DOMAIN reviews = 1 .. Len(reviews)
        /\ DOMAIN reviews' = 1 .. n
        /\ \A i \in DOMAIN reviews : reviews'[i] = reviews[i]
    BY <1>2, ReviewAppends
  <2>2. CASE n \in RowsOf(q, c)'
    <3>1. \A j \in RowsOf(q, c)' : j <= n
      BY <2>1 DEF RowsOf
    <3> QED BY <2>2, <3>1
  <2>3. CASE n \notin RowsOf(q, c)'
    <3>1. RowsOf(q, c)' = RowsOf(q, c)
      BY <2>1, <2>3 DEF RowsOf
    <3> QED BY <1>2, <3>1 DEF LatestRowExists
  <2> QED BY <2>2, <2>3
<1> QED BY <1>1, <1>2, StepOnReviews DEF LatestRowExists

LEMMA ReviewInvariant == Spec => []ReviewInv
<1>1. Init => ReviewInv
  BY DEF Init, ReviewInv, TypeOK, ReviewLifecycle, SupersessionGrounded,
         LatestRowExists, RowsOf
<1>2. ReviewInv /\ [Next]_vars => ReviewInv'
  BY TypeStep, LifecycleStep, GroundedStep, LatestRowStep DEF ReviewInv
<1> QED BY <1>1, <1>2, PTL DEF Spec

\* A human decision is final in the way _review_locked promises: for any
\* number of records, revisions, replays and synchronizations, a revision has
\* at most two decisions, an approval and then its supersession.
THEOREM ReviewLifecycleHolds == Spec => []ReviewLifecycle
<1>1. ReviewInv => ReviewLifecycle
  BY DEF ReviewInv
<1> QED BY <1>1, ReviewInvariant, PTL

\* No supersession ever stands without an earlier approval of the revision it
\* closes and of the stored, different record that replaces it.
THEOREM SupersessionGroundedHolds == Spec => []SupersessionGrounded
<1>1. ReviewInv => SupersessionGrounded
  BY DEF ReviewInv
<1> QED BY <1>1, ReviewInvariant, PTL

-----------------------------------------------------------------------------
(* The refinement: one admitted decision is one step of MemoryAuthority.   *)

StandingFacts ==
    \A r \in Records, c \in Contents :
        /\ Standing(r, c) = "undecided" <=> RowsOf(r, c) = {}
        /\ Standing(r, c) \in {"undecided"} \cup Decisions
        /\ \A d \in Decisions : Standing(r, c) = d <=> Decided(r, c, d)

\* With a latest row for each decided revision, Standing is its decision.
LEMMA StandingIsLatest == TypeOK /\ LatestRowExists => StandingFacts
<1> SUFFICES ASSUME TypeOK, LatestRowExists, NEW r \in Records, NEW c \in Contents
             PROVE  /\ Standing(r, c) = "undecided" <=> RowsOf(r, c) = {}
                    /\ Standing(r, c) \in {"undecided"} \cup Decisions
                    /\ \A d \in Decisions : Standing(r, c) = d <=> Decided(r, c, d)
  BY DEF StandingFacts
<1>1. CASE RowsOf(r, c) = {}
  BY <1>1 DEF Standing, Decided, Decisions
<1>2. CASE RowsOf(r, c) # {}
  <2>1. PICK i \in RowsOf(r, c) : \A j \in RowsOf(r, c) : j <= i
    BY <1>2 DEF LatestRowExists
  <2>2. RowsOf(r, c) \subseteq Int
    BY DEF RowsOf, TypeOK
  <2>3. reviews[i].decision \in Decisions
    <3>1. reviews[i] \in ReviewRow
      BY <2>1 DEF RowsOf, TypeOK
    <3> QED BY <3>1 DEF ReviewRow
  <2>4. \A d : Decided(r, c, d) <=> d = reviews[i].decision
    <3>1. \A j \in RowsOf(r, c) : (\A m \in RowsOf(r, c) : m <= j) => j = i
      BY <2>1, <2>2
    <3> QED BY <2>1, <3>1 DEF Decided
  <2>5. Standing(r, c) = reviews[i].decision
    BY <1>2, <2>3, <2>4 DEF Standing
  <2> QED BY <1>2, <2>3, <2>4, <2>5 DEF Decisions
<1> QED BY <1>1, <1>2

LEMMA StandingIsLatestNext == (TypeOK /\ LatestRowExists)' => StandingFacts'
BY StandingIsLatest, PTL

\* One decision moves the standing of the revision it is bound to, to d.
LEMMA ReviewMovesOneStanding ==
    ASSUME ReviewInv, ReviewInv', NEW r \in Records, NEW d \in Decisions,
           NEW e \in ReviewEvents, NEW k \in ReviewKeys, NEW p \in Records \cup {None},
           Review(r, d, e, k, p), NEW q \in Records, NEW c \in Contents
    PROVE  Standing(q, c)' =
              IF q = r /\ c = records[r].content THEN d ELSE Standing(q, c)
<1> DEFINE n == Len(reviews) + 1
<1>1. /\ Len(reviews) \in Nat
      /\ DOMAIN reviews = 1 .. Len(reviews)
      /\ DOMAIN reviews' = 1 .. n
      /\ \A i \in DOMAIN reviews : reviews'[i] = reviews[i]
      /\ reviews'[n] = RowFor(r, d, e, k, p)
  BY ReviewAppends DEF ReviewInv
<1>2. StandingFacts /\ StandingFacts'
  BY StandingIsLatest, StandingIsLatestNext DEF ReviewInv
<1>3. CASE q = r /\ c = records[r].content
  <2>1. n \in RowsOf(q, c)'
    BY <1>1, <1>3 DEF RowsOf, RowFor
  <2>2. \A j \in RowsOf(q, c)' : j <= n
    BY <1>1 DEF RowsOf
  <2>3. reviews'[n].decision = d
    BY <1>1 DEF RowFor
  <2>4. Decided(q, c, d)'
    BY <2>1, <2>2, <2>3 DEF Decided
  <2> QED BY <1>2, <1>3, <2>4 DEF StandingFacts
<1>4. CASE ~(q = r /\ c = records[r].content)
  <2>1. n \notin RowsOf(q, c)'
    BY <1>1, <1>4 DEF RowsOf, RowFor
  <2>2. RowsOf(q, c)' = RowsOf(q, c)
    BY <1>1, <2>1 DEF RowsOf
  <2>3. \A i \in RowsOf(q, c) : reviews'[i] = reviews[i]
    BY <1>1 DEF RowsOf
  <2>4. \A x \in Decisions : Decided(q, c, x)' <=> Decided(q, c, x)
    BY <2>2, <2>3 DEF Decided
  <2>5. \A x \in Decisions : Standing(q, c)' = x <=> Standing(q, c) = x
    BY <1>2, <2>4 DEF StandingFacts
  <2>6. Standing(q, c)' = "undecided" <=> Standing(q, c) = "undecided"
    BY <1>2, <2>2 DEF StandingFacts
  <2>7. /\ Standing(q, c) \in {"undecided"} \cup Decisions
        /\ Standing(q, c)' \in {"undecided"} \cup Decisions
    BY <1>2 DEF StandingFacts
  <2>8. Standing(q, c)' = Standing(q, c)
    BY <2>5, <2>6, <2>7
  <2> QED BY <1>4, <2>8
<1> QED BY <1>3, <1>4

LEMMA ReviewIsAuthorityStep ==
    ASSUME ReviewInv, ReviewInv', NEW r \in Records, NEW d \in Decisions,
           NEW e \in ReviewEvents, NEW k \in ReviewKeys, NEW p \in Records \cup {None},
           Review(r, d, e, k, p)
    PROVE  Authority!AuthorityNext
<1> DEFINE c == records[r].content
           before == [v \in Records \X Contents |-> Standing(v[1], v[2])]
<1>1. c \in Contents /\ Permitted(r, d, p) /\ UNCHANGED records
  BY ReviewedRow DEF ReviewInv, Revision
<1>2. StandingFacts
  BY StandingIsLatest DEF ReviewInv
<1>3. before' = [before EXCEPT ![<<r, c>>] = d]
  <2>1. \A v \in Records \X Contents :
            Standing(v[1], v[2])' = IF v[1] = r /\ v[2] = c THEN d ELSE Standing(v[1], v[2])
    BY ReviewMovesOneStanding
  <2>2. \A v \in Records \X Contents : (v[1] = r /\ v[2] = c) <=> v = <<r, c>>
    OBVIOUS
  <2>3. <<r, c>> \in Records \X Contents
    BY <1>1
  <2> QED BY <2>1, <2>2, <2>3
<1>4. CASE d \in {"approved", "rejected"} /\ Undecided(r)
  <2>1. before[<<r, c>>] = "undecided"
    BY <1>1, <1>2, <1>4 DEF StandingFacts, Undecided
  <2>2. <<r, c>> \in Authority!Revisions
    BY <1>1 DEF Authority!Revisions
  <2>3. Authority!Approve(<<r, c>>) \/ Authority!Reject(<<r, c>>)
    BY <1>3, <1>4, <2>1 DEF Authority!Approve, Authority!Reject
  <2> QED BY <2>2, <2>3 DEF Authority!AuthorityNext
<1>5. CASE d = "superseded" /\ Approved(r) /\ p \in Records \ {r} /\ Approved(p)
  <2> DEFINE b == records[p].content
  <2>1. b \in Contents
    BY <1>5 DEF Approved, ReviewInv, TypeOK, Revision
  <2>2. before[<<r, c>>] = "approved" /\ before[<<p, b>>] = "approved"
    BY <1>1, <1>2, <1>5, <2>1 DEF StandingFacts, Approved, Decisions
  <2>3. <<r, c>> \in Authority!Revisions /\ <<p, b>> \in Authority!Revisions
    BY <1>1, <1>5, <2>1 DEF Authority!Revisions
  <2>4. Authority!Supersede(<<r, c>>, <<p, b>>)
    BY <1>3, <1>5, <2>2 DEF Authority!Supersede
  <2> QED BY <2>3, <2>4 DEF Authority!AuthorityNext
<1> QED BY <1>1, <1>4, <1>5 DEF Permitted

\* The store, with its revisions, replays, conflicts and synchronizations,
\* implements the authority machine: only a human decision moves a revision,
\* and only along the transitions of MemoryAuthority.
THEOREM RefinesAuthority == Spec => ImplementsAuthority
<1> DEFINE authority == [v \in Records \X Contents |-> Standing(v[1], v[2])]
<1>1. Init => Authority!AuthorityInit
  <2> SUFFICES ASSUME Init PROVE Authority!AuthorityInit
    OBVIOUS
  <2>1. \A v \in Records \X Contents : Standing(v[1], v[2]) = "undecided"
    BY DEF Init, Standing, RowsOf
  <2> QED BY <2>1 DEF Authority!AuthorityInit, Authority!Revisions
<1>2. ReviewInv /\ ReviewInv' /\ [Next]_vars
         => [Authority!AuthorityNext]_authority
  <2> SUFFICES ASSUME ReviewInv, ReviewInv', [Next]_vars
               PROVE  Authority!AuthorityNext \/ authority' = authority
    OBVIOUS
  <2>1. CASE UNCHANGED reviews
    <3>1. \A q \in Records, c \in Contents : Standing(q, c)' = Standing(q, c)
      BY <2>1 DEF Standing, Decided, RowsOf
    <3> QED BY <3>1
  <2>2. CASE \E r \in Records, d \in Decisions, e \in ReviewEvents, k \in ReviewKeys,
                p \in Records \cup {None} : Review(r, d, e, k, p)
    BY <2>2, ReviewIsAuthorityStep
  <2> QED BY <2>1, <2>2, StepOnReviews DEF ReviewInv
<1> QED BY <1>1, <1>2, ReviewInvariant, PTL
        DEF Spec, ImplementsAuthority, Authority!AuthoritySpec

-----------------------------------------------------------------------------
(* Synchronization: the bindings and the records they hold.                *)

\* What the mirror says of one binding and of one synchronized record.
LEMMA Mirror ==
    ASSUME TypeOK, BindingsMirrorRecords
    PROVE  /\ \A l \in Locators : bindings[l] # None =>
                 /\ bindings[l] \in Binding
                 /\ bindings[l].record \in Stored
                 /\ records[bindings[l].record] \in Revision
                 /\ records[bindings[l].record].kind = "obsidian"
                 /\ records[bindings[l].record].locator = l
                 /\ records[bindings[l].record].content = bindings[l].content
           /\ \A l, m \in Locators :
                 (/\ bindings[l] # None
                  /\ bindings[m] # None
                  /\ bindings[l].record = bindings[m].record) => l = m
<1>1. ASSUME NEW l \in Locators, bindings[l] # None
      PROVE  /\ bindings[l] \in Binding
             /\ bindings[l].record \in Stored
             /\ records[bindings[l].record] \in Revision
             /\ records[bindings[l].record].kind = "obsidian"
             /\ records[bindings[l].record].locator = l
             /\ records[bindings[l].record].content = bindings[l].content
  <2>1. bindings[l] \in Binding
    BY <1>1 DEF TypeOK
  <2>2. bindings[l].record \in Records
    BY <2>1 DEF Binding
  <2> QED BY <1>1, <2>1, <2>2 DEF BindingsMirrorRecords, Stored, TypeOK
<1> QED BY <1>1

\* A synchronization never gives one record to two locators.
LEMMA OneLocatorPerRecord ==
    ASSUME TypeOK, BindingsMirrorRecords, NEW snap \in Snapshot,
           NEW fresh \in [NewNotes(snap) -> Records], FreshIds(snap, fresh),
           NEW l \in Locators, NEW m \in Locators,
           SyncedBindings(snap, fresh)[l] # None, SyncedBindings(snap, fresh)[m] # None,
           SyncedBindings(snap, fresh)[l].record = SyncedBindings(snap, fresh)[m].record
    PROVE  l = m
<1> DEFINE bound == SyncedBindings(snap, fresh)
           owner(o) == OwnerOf(snap, fresh, o)
<1>1. /\ \A o \in Locators : snap[o] # None => bound[o].record = owner(o)
      /\ \A o \in Locators : (snap[o] = None /\ bound[o] # None) =>
            ~MovedAway(snap, o) /\ bound[o] = bindings[o]
  BY DEF SyncedBindings
<1>2. \A o \in NewNotes(snap) : fresh[o] \notin Stored
  BY DEF FreshIds, NewNotes
<1>3. ASSUME NEW a \in Locators, NEW b \in Locators, snap[a] # None, snap[b] # None,
             owner(a) = owner(b)
      PROVE  a = b
  <2>1. CASE bindings[a] # None /\ bindings[b] # None
    BY <1>3, <2>1, OwnerOfNote, Mirror
  <2>2. CASE bindings[a] # None /\ IsRename(snap, b)
    <3>1. bindings[a].record = bindings[OriginOf(snap, b)].record
      BY <1>3, <2>2, OwnerOfNote
    <3>2. /\ OriginOf(snap, b) \in Locators
          /\ snap[OriginOf(snap, b)] = None
          /\ bindings[OriginOf(snap, b)] # None
      BY <1>3, <2>2, OwnerOfNote
    <3>3. a = OriginOf(snap, b)
      BY <2>2, <3>1, <3>2, Mirror
    <3> QED BY <1>3, <3>2, <3>3
  <2>3. CASE IsRename(snap, a) /\ bindings[b] # None
    <3>1. bindings[b].record = bindings[OriginOf(snap, a)].record
      BY <1>3, <2>3, OwnerOfNote
    <3>2. /\ OriginOf(snap, a) \in Locators
          /\ snap[OriginOf(snap, a)] = None
          /\ bindings[OriginOf(snap, a)] # None
      BY <1>3, <2>3, OwnerOfNote
    <3>3. b = OriginOf(snap, a)
      BY <2>3, <3>1, <3>2, Mirror
    <3> QED BY <1>3, <3>2, <3>3
  <2>4. CASE IsRename(snap, a) /\ IsRename(snap, b)
    <3>1. /\ OriginOf(snap, a) \in Locators
          /\ bindings[OriginOf(snap, a)] # None
          /\ bindings[OriginOf(snap, a)].content = snap[a]
          /\ owner(a) = bindings[OriginOf(snap, a)].record
      BY <1>3, <2>4, OwnerOfNote
    <3>2. /\ OriginOf(snap, b) \in Locators
          /\ bindings[OriginOf(snap, b)] # None
          /\ bindings[OriginOf(snap, b)].content = snap[b]
          /\ owner(b) = bindings[OriginOf(snap, b)].record
      BY <1>3, <2>4, OwnerOfNote
    <3>3. OriginOf(snap, a) = OriginOf(snap, b)
      <4> DEFINE oa == OriginOf(snap, a)
                 ob == OriginOf(snap, b)
      <4>1. bindings[oa].record = bindings[ob].record
        BY <1>3, <3>1, <3>2
      <4> HIDE DEF oa, ob
      <4>2. oa \in Locators /\ ob \in Locators /\ bindings[oa] # None /\ bindings[ob] # None
        BY <3>1, <3>2 DEF oa, ob
      <4>3. oa = ob
        BY <4>1, <4>2, Mirror
      <4> QED BY <4>3 DEF oa, ob
    <3>4. snap[a] = snap[b]
      BY <3>1, <3>2, <3>3
    <3>5. ~(a < b) /\ ~(b < a)
      BY <2>4, <3>4 DEF IsRename
    <3> QED BY <3>5, LocatorsAssumption
  <2>5. CASE bindings[a] = None /\ ~IsRename(snap, a)
    <3>1. a \in NewNotes(snap) /\ owner(a) = fresh[a]
      BY <1>3, <2>5, OwnerOfNote
    <3>2. owner(a) \notin Stored
      BY <1>2, <3>1
    <3>3. bindings[b] = None /\ ~IsRename(snap, b)
      BY <1>3, <3>2, OwnerOfNote, Mirror
    <3>4. b \in NewNotes(snap) /\ owner(b) = fresh[b]
      BY <1>3, <3>3, OwnerOfNote
    <3> QED BY <1>3, <3>1, <3>4 DEF FreshIds
  <2>6. CASE bindings[b] = None /\ ~IsRename(snap, b)
    <3>1. b \in NewNotes(snap) /\ owner(b) = fresh[b]
      BY <1>3, <2>6, OwnerOfNote
    <3>2. owner(b) \notin Stored
      BY <1>2, <3>1
    <3>3. bindings[a] = None /\ ~IsRename(snap, a)
      BY <1>3, <3>2, OwnerOfNote, Mirror
    <3>4. a \in NewNotes(snap) /\ owner(a) = fresh[a]
      BY <1>3, <3>3, OwnerOfNote
    <3> QED BY <1>3, <3>1, <3>4 DEF FreshIds
  <2> QED BY <2>1, <2>2, <2>3, <2>4, <2>5, <2>6
<1>4. ASSUME NEW a \in Locators, NEW b \in Locators, snap[a] # None, snap[b] = None,
             bound[b] # None, owner(a) = bindings[b].record
      PROVE  FALSE
  <2>1. bindings[b] # None /\ ~MovedAway(snap, b)
    BY <1>1, <1>4
  <2>2. CASE bindings[a] # None
    BY <1>4, <2>1, <2>2, OwnerOfNote, Mirror
  <2>3. CASE IsRename(snap, a)
    <3>1. OriginOf(snap, a) = b
      BY <1>4, <2>1, <2>3, OwnerOfNote, Mirror
    <3> QED BY <2>1, <2>3, <3>1 DEF MovedAway
  <2>4. CASE bindings[a] = None /\ ~IsRename(snap, a)
    <3>1. a \in NewNotes(snap) /\ owner(a) = fresh[a]
      BY <1>4, <2>4, OwnerOfNote
    <3>2. bindings[b].record \in Stored
      BY <2>1, Mirror
    <3> QED BY <1>2, <1>4, <3>1, <3>2
  <2> QED BY <2>2, <2>3, <2>4
<1>5. CASE snap[l] # None /\ snap[m] # None
  BY <1>1, <1>3, <1>5
<1>6. CASE snap[l] # None /\ snap[m] = None
  BY <1>1, <1>4, <1>6
<1>7. CASE snap[l] = None /\ snap[m] # None
  BY <1>1, <1>4, <1>7
<1>8. CASE snap[l] = None /\ snap[m] = None
  BY <1>1, <1>8, Mirror
<1> QED BY <1>5, <1>6, <1>7, <1>8

\* The revision a synchronization leaves on each record, by how it is bound.
LEMMA SyncedByBinding ==
    ASSUME TypeOK, BindingsMirrorRecords, NEW snap \in Snapshot,
           NEW fresh \in [NewNotes(snap) -> Records], FreshIds(snap, fresh),
           NEW r \in Records
    PROVE  \/ \E l \in Locators :
                 /\ snap[l] \in Contents
                 /\ SyncedBindings(snap, fresh)[l] = [content |-> snap[l], record |-> r]
                 /\ SyncedRecord(snap, fresh, r) = NoteRevision(snap[l], l)
           \/ \E l \in Locators :
                 /\ snap[l] = None
                 /\ SyncedBindings(snap, fresh)[l] = bindings[l]
                 /\ bindings[l] # None
                 /\ bindings[l].record = r
                 /\ SyncedRecord(snap, fresh, r) = [records[r] EXCEPT !.missing = TRUE]
           \/ /\ \A l \in Locators : SyncedBindings(snap, fresh)[l] # None =>
                     SyncedBindings(snap, fresh)[l].record # r
              /\ SyncedRecord(snap, fresh, r) = records[r]
<1> DEFINE bound == SyncedBindings(snap, fresh)
           Holds(l) == bound[l] # None /\ bound[l].record = r
<1>1. CASE \E l \in Locators : Holds(l) /\ snap[l] # None
  <2>1. PICK l \in Locators :
             /\ Holds(l) /\ snap[l] # None
             /\ SyncedRecord(snap, fresh, r) = NoteRevision(snap[l], l)
    BY <1>1 DEF SyncedRecord
  <2>2. snap[l] \in Contents
    BY <2>1 DEF Snapshot
  <2>3. bound[l] = [content |-> snap[l], record |-> OwnerOf(snap, fresh, l)]
    BY <2>1 DEF SyncedBindings
  <2>4. bound[l] = [content |-> snap[l], record |-> r]
    BY <2>1, <2>3
  <2> QED BY <2>1, <2>2, <2>4
<1>2. CASE /\ ~ \E l \in Locators : Holds(l) /\ snap[l] # None
           /\ \E l \in Locators : Holds(l) /\ snap[l] = None
  <2>1. PICK l \in Locators : Holds(l) /\ snap[l] = None
    BY <1>2
  <2>2. bound[l] = bindings[l]
    BY <2>1 DEF SyncedBindings
  <2>3. bindings[l] # None /\ bindings[l].record = r
    BY <2>1, <2>2
  <2>4. records[r] # None
    BY <2>3, Mirror DEF Stored
  <2>5. SyncedRecord(snap, fresh, r) = [records[r] EXCEPT !.missing = TRUE]
    BY <1>2, <2>4 DEF SyncedRecord
  <2> QED BY <2>1, <2>2, <2>3, <2>5
<1>3. CASE ~ \E l \in Locators : Holds(l)
  <2>1. SyncedRecord(snap, fresh, r) = records[r]
    BY <1>3 DEF SyncedRecord
  <2> QED BY <1>3, <2>1
<1> QED BY <1>1, <1>2, <1>3

\* A record that was bound stays bound, at its locator or at its new one.
LEMMA BoundStaysBound ==
    ASSUME TypeOK, BindingsMirrorRecords, NEW snap \in Snapshot,
           NEW fresh \in [NewNotes(snap) -> Records],
           NEW o \in Locators, bindings[o] # None
    PROVE  \E l \in Locators :
              /\ SyncedBindings(snap, fresh)[l] # None
              /\ SyncedBindings(snap, fresh)[l].record = bindings[o].record
              /\ l # o => /\ snap[o] = None
                         /\ snap[l] = bindings[o].content
<1> DEFINE bound == SyncedBindings(snap, fresh)
<1>1. SyncedBindings(snap, fresh) \in [Locators -> Binding \cup {None}]
  BY SyncedBindingsType
<1>2. CASE snap[o] # None
  <2>1. bound[o] = [content |-> snap[o], record |-> bindings[o].record]
    BY <1>2, OwnerOfNote DEF SyncedBindings
  <2>2. bound[o] \in Binding
    <3>1. snap[o] \in Contents /\ bindings[o].record \in Records
      BY <1>2, Mirror DEF Snapshot, Binding
    <3> QED BY <2>1, <3>1 DEF Binding
  <2>3. bound[o] # None
    BY <2>2, NoneIsNoRow
  <2> QED BY <2>1, <2>3
<1>3. CASE snap[o] = None /\ ~MovedAway(snap, o)
  <2>1. bound[o] = bindings[o]
    BY <1>3 DEF SyncedBindings
  <2> QED BY <2>1
<1>4. CASE snap[o] = None /\ MovedAway(snap, o)
  <2>1. PICK l \in Locators : IsRename(snap, l) /\ OriginOf(snap, l) = o
    BY <1>4 DEF MovedAway
  <2>2. snap[l] # None
    BY <2>1 DEF IsRename
  <2>3. /\ bindings[o].content = snap[l]
        /\ OwnerOf(snap, fresh, l) = bindings[o].record
    BY <2>1, <2>2, OwnerOfNote
  <2>4. bound[l] = [content |-> snap[l], record |-> bindings[o].record]
    BY <2>2, <2>3 DEF SyncedBindings
  <2>5. bound[l] \in Binding
    <3>1. snap[l] \in Contents /\ bindings[o].record \in Records
      BY <2>2, Mirror DEF Snapshot, Binding
    <3> QED BY <2>4, <3>1 DEF Binding
  <2>6. bound[l] # None
    BY <2>5, NoneIsNoRow
  <2> QED BY <1>4, <2>3, <2>4, <2>6
<1> QED BY <1>2, <1>3, <1>4

LEMMA SyncKeepsMirror ==
    ASSUME TypeOK, BindingsMirrorRecords, NEW snap \in Snapshot, NEW e \in SyncEvents,
           NEW k \in SyncKeys, NEW fresh \in [NewNotes(snap) -> Records],
           Sync(snap, fresh, e, k)
    PROVE  BindingsMirrorRecords'
<1> DEFINE bound == SyncedBindings(snap, fresh)
           rec(r) == SyncedRecord(snap, fresh, r)
<1>1. /\ FreshIds(snap, fresh)
      /\ bindings' = bound
      /\ \A r \in Records : records'[r] = rec(r)
  BY DEF Sync
<1>2. bound \in [Locators -> Binding \cup {None}]
  BY SyncedBindingsType
<1>3. ASSUME NEW l \in Locators, bound[l] # None
      PROVE  /\ bound[l].record \in Records
             /\ rec(bound[l].record) # None
             /\ rec(bound[l].record).kind = "obsidian"
             /\ rec(bound[l].record).locator = l
             /\ rec(bound[l].record).content = bound[l].content
  <2> DEFINE r == bound[l].record
  <2>1. r \in Records
    BY <1>2, <1>3 DEF Binding
  <2>2. \A m \in Locators : (bound[m] # None /\ bound[m].record = r) => m = l
    BY <1>1, <1>3, OneLocatorPerRecord
  <2>3. CASE \E m \in Locators :
                /\ snap[m] \in Contents
                /\ bound[m] = [content |-> snap[m], record |-> r]
                /\ rec(r) = NoteRevision(snap[m], m)
    <3>1. PICK m \in Locators :
               /\ snap[m] \in Contents
               /\ bound[m] = [content |-> snap[m], record |-> r]
               /\ rec(r) = NoteRevision(snap[m], m)
      BY <2>3
    <3>2. bound[m] \in Binding
      BY <2>1, <3>1 DEF Binding
    <3>3. m = l
      BY <2>2, <3>1, <3>2, NoneIsNoRow
    <3>4. /\ NoteRevision(snap[m], m).content = snap[m]
          /\ NoteRevision(snap[m], m).locator = m
          /\ NoteRevision(snap[m], m).kind = "obsidian"
          /\ NoteRevision(snap[m], m) # None
      BY <3>1, NoteRevisionType
    <3> QED BY <2>1, <3>1, <3>3, <3>4
  <2>4. CASE \E m \in Locators :
                /\ snap[m] = None
                /\ bound[m] = bindings[m]
                /\ bindings[m] # None
                /\ bindings[m].record = r
                /\ rec(r) = [records[r] EXCEPT !.missing = TRUE]
    <3>1. /\ bound[l] = bindings[l]
          /\ bindings[l] # None
          /\ bindings[l].record = r
          /\ rec(r) = [records[r] EXCEPT !.missing = TRUE]
      BY <2>2, <2>4
    <3>2. /\ records[r] \in Revision
          /\ records[r].kind = "obsidian"
          /\ records[r].locator = l
          /\ records[r].content = bound[l].content
      BY <3>1, Mirror
    <3>3. rec(r) \in Revision
      BY <3>1, <3>2 DEF Revision
    <3>4. rec(r) # None
      BY <3>3, NoneIsNoRow
    <3>5. /\ [records[r] EXCEPT !.missing = TRUE].kind = "obsidian"
          /\ [records[r] EXCEPT !.missing = TRUE].locator = l
          /\ [records[r] EXCEPT !.missing = TRUE].content = bound[l].content
      BY <3>2 DEF Revision
    <3> HIDE DEF rec, bound
    <3> QED BY <2>1, <3>1, <3>4, <3>5
  <2> QED BY <1>1, <1>3, <2>1, <2>3, <2>4, SyncedByBinding
<1>4. ASSUME NEW r \in Records, rec(r) # None, rec(r).kind = "obsidian"
      PROVE  \E l \in Locators : bound[l] # None /\ bound[l].record = r
  <2>1. SUFFICES ASSUME \A l \in Locators : bound[l] # None => bound[l].record # r
                 PROVE  FALSE
    OBVIOUS
  <2>2. rec(r) = records[r]
    <3>1. \A l \in Locators : bindings[l] # None => bindings[l].record # r
      BY <2>1, BoundStaysBound
    <3>2. \A l \in Locators : snap[l] \in Contents =>
              bound[l] # [content |-> snap[l], record |-> r]
      <4>1. \A l \in Locators : snap[l] \in Contents =>
                [content |-> snap[l], record |-> r] \in Binding
        BY DEF Binding
      <4> QED BY <2>1, <4>1, NoneIsNoRow
    <3> QED BY <1>1, <3>1, <3>2, SyncedByBinding
  <2>3. r \in Stored /\ records[r].kind = "obsidian"
    BY <1>4, <2>2 DEF Stored
  <2>4. records[r].locator \in Locators \cup {None}
    BY <2>3 DEF Stored, TypeOK, Revision
  <2>5. bindings[records[r].locator] # None /\ bindings[records[r].locator].record = r
    BY <2>3 DEF BindingsMirrorRecords
  <2>6. records[r].locator \in Locators
    BY <2>3, <2>4 DEF BindingsMirrorRecords
  <2> QED BY <2>1, <2>5, <2>6, BoundStaysBound
<1>5. ASSUME NEW l \in Locators, bindings'[l] # None
      PROVE  /\ records'[bindings'[l].record] # None
             /\ records'[bindings'[l].record].kind = "obsidian"
             /\ records'[bindings'[l].record].locator = l
             /\ records'[bindings'[l].record].content = bindings'[l].content
  BY <1>1, <1>3, <1>5
<1>6. ASSUME NEW r \in Records, records'[r] # None, records'[r].kind = "obsidian"
      PROVE  /\ records'[r].locator # None
             /\ bindings'[records'[r].locator] # None
             /\ bindings'[records'[r].locator].record = r
  <2>1. PICK l \in Locators : bound[l] # None /\ bound[l].record = r
    BY <1>1, <1>4, <1>6
  <2>2. records'[r].locator = l
    BY <1>1, <1>3, <2>1
  <2> QED BY <1>1, <2>1, <2>2, NoneAssumption
<1> QED BY <1>5, <1>6 DEF BindingsMirrorRecords, Stored

\* How any step treats the records and the bindings.
LEMMA StepOnRecords ==
    ASSUME TypeOK, [Next]_vars
    PROVE  \/ UNCHANGED <<records, revisions, bindings, syncs>>
           \/ \E r \in Records, rev \in Revision :
                 /\ rev.kind = "native"
                 /\ rev # None
                 /\ Create(r, rev)
           \/ \E snap \in Snapshot, e \in SyncEvents, k \in SyncKeys :
                 \E fresh \in [NewNotes(snap) -> Records] : Sync(snap, fresh, e, k)
<1>1. CASE CreateNative
  BY <1>1, NativeRevisionType DEF CreateNative
<1>2. CASE ReviewRecord
  BY <1>2 DEF ReviewRecord, Review
<1>3. CASE SyncObsidian
  BY <1>3 DEF SyncObsidian
<1>4. CASE UNCHANGED vars
  BY <1>4 DEF vars
<1> QED BY <1>1, <1>2, <1>3, <1>4 DEF Next

LEMMA MirrorStep ==
    ASSUME TypeOK, BindingsMirrorRecords, [Next]_vars
    PROVE  BindingsMirrorRecords'
<1>1. CASE UNCHANGED <<records, revisions, bindings, syncs>>
  BY <1>1 DEF BindingsMirrorRecords, Stored
<1>2. ASSUME NEW r \in Records, NEW rev \in Revision, rev.kind = "native", rev # None,
             Create(r, rev)
      PROVE  BindingsMirrorRecords'
  <2>1. /\ records[r] = None
        /\ \A q \in Records : records'[q] = IF q = r THEN rev ELSE records[q]
        /\ UNCHANGED bindings
    BY <1>2, CreateType DEF TypeOK
  <2>2. \A l \in Locators : bindings[l] # None => bindings[l].record # r
    BY <2>1 DEF BindingsMirrorRecords
  <2>3. \A l \in Locators : bindings[l] # None => bindings[l].record \in Records
    BY DEF TypeOK, Binding
  <2>4. \A l \in Locators : bindings'[l] # None =>
            records'[bindings'[l].record] = records[bindings[l].record]
    BY <2>1, <2>2, <2>3
  <2>5. \A q \in Records : (records'[q] # None /\ records'[q].kind = "obsidian") =>
            q \in Stored /\ records'[q] = records[q]
    BY <1>2, <2>1 DEF Stored
  <2> QED BY <2>1, <2>4, <2>5 DEF BindingsMirrorRecords, Stored
<1> QED BY <1>1, <1>2, SyncKeepsMirror, StepOnRecords

\* However notes are edited, copied, swapped, renamed and deleted, the binding
\* table and the synchronized records stay a one-to-one description of each
\* other: a synchronization neither merges two records nor loses one.
THEOREM BindingsMirrorRecordsHolds == Spec => []BindingsMirrorRecords
<1>1. Init => TypeOK /\ BindingsMirrorRecords
  BY DEF Init, TypeOK, BindingsMirrorRecords, Stored
<1>2. (TypeOK /\ BindingsMirrorRecords) /\ [Next]_vars => (TypeOK /\ BindingsMirrorRecords)'
  BY TypeStep, MirrorStep
<1> QED BY <1>1, <1>2, PTL DEF Spec

\* A record that changes its locator in a synchronization is a pure rename; a
\* native record is left alone.
LEMMA IdentityStep ==
    ASSUME TypeOK, TypeOK', BindingsMirrorRecords, [Next]_vars, NEW r \in Stored
    PROVE  /\ records[r].kind = records'[r].kind
           /\ records[r].kind = "native" => records'[r] = records[r]
           /\ records'[r].locator # records[r].locator =>
                 /\ records'[r].content = records[r].content
                 /\ syncs'[Len(syncs')].snapshot[records[r].locator] = None
<1>0. r \in Records /\ records[r] \in Revision
  BY DEF Stored, TypeOK
<1>1. CASE UNCHANGED <<records, revisions, bindings, syncs>>
  BY <1>1
<1>2. ASSUME NEW q \in Records, NEW rev \in Revision, Create(q, rev)
      PROVE  records'[r] = records[r]
  BY <1>0, <1>2, CreateType DEF TypeOK, Stored
<1>3. ASSUME NEW snap \in Snapshot, NEW e \in SyncEvents, NEW k \in SyncKeys,
             NEW fresh \in [NewNotes(snap) -> Records], Sync(snap, fresh, e, k)
      PROVE  /\ records[r].kind = records'[r].kind
             /\ records[r].kind = "native" => records'[r] = records[r]
             /\ records'[r].locator # records[r].locator =>
                   /\ records'[r].content = records[r].content
                   /\ syncs'[Len(syncs')].snapshot[records[r].locator] = None
  <2> DEFINE bound == SyncedBindings(snap, fresh)
  <2>1. /\ FreshIds(snap, fresh)
        /\ records'[r] = SyncedRecord(snap, fresh, r)
        /\ syncs' = Append(syncs, [event |-> e, key |-> k, snapshot |-> snap])
    BY <1>0, <1>3 DEF Sync
  <2>2. syncs'[Len(syncs')].snapshot = snap
    <3>1. syncs \in Seq(SyncRow)
      BY DEF TypeOK
    <3>2. syncs'[Len(syncs')] = [event |-> e, key |-> k, snapshot |-> snap]
      BY <2>1, <3>1
    <3> QED BY <3>2
  <2>3. CASE \E l \in Locators :
                /\ snap[l] \in Contents
                /\ bound[l] = [content |-> snap[l], record |-> r]
                /\ records'[r] = NoteRevision(snap[l], l)
    <3>1. PICK l \in Locators :
               /\ snap[l] \in Contents
               /\ bound[l] = [content |-> snap[l], record |-> r]
               /\ records'[r] = NoteRevision(snap[l], l)
      BY <2>3
    <3>2. /\ records'[r].content = snap[l]
          /\ records'[r].locator = l
          /\ records'[r].kind = "obsidian"
      BY <3>1, NoteRevisionType
    <3>3. snap[l] # None
      BY <3>1, NoneAssumption
    <3>4. r = OwnerOf(snap, fresh, l)
      BY <3>1, <3>3 DEF SyncedBindings
    <3>5. CASE bindings[l] # None
      <4>1. bindings[l].record = r
        BY <3>3, <3>4, <3>5, OwnerOfNote
      <4>2. records[r].kind = "obsidian" /\ records[r].locator = l
        BY <3>5, <4>1, Mirror
      <4> QED BY <3>2, <4>2
    <3>6. CASE IsRename(snap, l)
      <4> DEFINE o == OriginOf(snap, l)
      <4>1. /\ o \in Locators
            /\ bindings[o] # None
            /\ bindings[o].content = snap[l]
            /\ snap[o] = None
            /\ bindings[o].record = r
        BY <3>3, <3>4, <3>6, OwnerOfNote
      <4> HIDE DEF o
      <4>2. /\ records[r].kind = "obsidian"
            /\ records[r].locator = o
            /\ records[r].content = snap[l]
        BY <4>1, Mirror
      <4> QED BY <2>2, <3>2, <4>1, <4>2
    <3>7. CASE bindings[l] = None /\ ~IsRename(snap, l)
      <4>1. l \in NewNotes(snap) /\ r = fresh[l]
        BY <3>3, <3>4, <3>7, OwnerOfNote
      <4> QED BY <2>1, <4>1 DEF FreshIds
    <3> QED BY <3>5, <3>6, <3>7
  <2>4. CASE \E l \in Locators :
                /\ bindings[l] # None
                /\ bindings[l].record = r
                /\ records'[r] = [records[r] EXCEPT !.missing = TRUE]
    <3>1. records[r].kind = "obsidian"
      BY <2>4, Mirror
    <3>2. /\ records'[r].kind = records[r].kind
          /\ records'[r].locator = records[r].locator
      BY <1>0, <2>4 DEF Revision
    <3> QED BY <3>1, <3>2
  <2>5. CASE records'[r] = records[r]
    BY <2>5
  <2> QED BY <1>0, <2>1, <2>3, <2>4, <2>5, SyncedByBinding
<1> QED BY <1>1, <1>2, <1>3, StepOnRecords

\* Over any history, a memory record keeps the identity of its source: only a
\* pure rename moves it, and no synchronization rewrites a native record.
THEOREM IdentityFollowsSourceHolds == Spec => IdentityFollowsSource
<1>1. TypeOK /\ TypeOK' /\ BindingsMirrorRecords /\ [Next]_vars =>
         [\A r \in Stored :
             /\ records[r].kind = records'[r].kind
             /\ records[r].kind = "native" => records'[r] = records[r]
             /\ records'[r].locator # records[r].locator =>
                   /\ records'[r].content = records[r].content
                   /\ syncs'[Len(syncs')].snapshot[records[r].locator] = None]_vars
  BY IdentityStep
<1> QED BY <1>1, TypeCorrect, BindingsMirrorRecordsHolds, PTL DEF Spec, IdentityFollowsSource

\* What a synchronization with this index leaves in the store.
LEMMA SyncSetsStatus ==
    ASSUME TypeOK, BindingsMirrorRecords, BindingsMirrorRecords', NEW snap \in Snapshot,
           NEW e \in SyncEvents, NEW k \in SyncKeys,
           NEW fresh \in [NewNotes(snap) -> Records], Sync(snap, fresh, e, k)
    PROVE  SourceStatusTracksLastSync'
<1> DEFINE bound == SyncedBindings(snap, fresh)
<1>1. /\ FreshIds(snap, fresh)
      /\ bindings' = bound
      /\ \A r \in Records : records'[r] = SyncedRecord(snap, fresh, r)
      /\ syncs' = Append(syncs, [event |-> e, key |-> k, snapshot |-> snap])
  BY DEF Sync
<1>2. syncs'[Len(syncs')].snapshot = snap
  <2>1. syncs \in Seq(SyncRow)
    BY DEF TypeOK
  <2>2. syncs'[Len(syncs')] = [event |-> e, key |-> k, snapshot |-> snap]
    BY <1>1, <2>1
  <2> QED BY <2>2
<1>3. ASSUME NEW l \in Locators, snap[l] # None
      PROVE  bindings'[l] # None /\ bindings'[l].content = snap[l]
  <2>1. bound[l] = [content |-> snap[l], record |-> OwnerOf(snap, fresh, l)]
    BY <1>3 DEF SyncedBindings
  <2>2. bound[l] \in Binding
    BY <1>3, <2>1, OwnerOfNote DEF Binding, Snapshot
  <2> QED BY <1>1, <2>1, <2>2, NoneIsNoRow
<1>4. ASSUME NEW r \in Records, records'[r] # None, records'[r].kind = "obsidian"
      PROVE  records'[r].missing <=> \/ snap[records'[r].locator] = None
                                     \/ records'[r].content \in DeclaredMissing
  <2>1. CASE \E l \in Locators :
                /\ snap[l] \in Contents
                /\ records'[r] = NoteRevision(snap[l], l)
    <3>1. PICK l \in Locators :
               snap[l] \in Contents /\ records'[r] = NoteRevision(snap[l], l)
      BY <2>1
    <3>2. /\ records'[r].content = snap[l]
          /\ records'[r].locator = l
          /\ records'[r].missing <=> snap[l] \in DeclaredMissing
      BY <3>1, NoteRevisionType
    <3> QED BY <3>1, <3>2, NoneAssumption
  <2>2. CASE \E l \in Locators :
                /\ snap[l] = None
                /\ bindings[l] # None
                /\ bindings[l].record = r
                /\ records'[r] = [records[r] EXCEPT !.missing = TRUE]
    <3>1. PICK l \in Locators :
               /\ snap[l] = None
               /\ bindings[l] # None
               /\ bindings[l].record = r
               /\ records'[r] = [records[r] EXCEPT !.missing = TRUE]
      BY <2>2
    <3>2. records[r] \in Revision /\ records[r].locator = l
      BY <3>1, Mirror
    <3>3. records'[r].locator = l /\ records'[r].missing
      BY <3>1, <3>2 DEF Revision
    <3> QED BY <3>1, <3>3
  <2>3. CASE \A l \in Locators : bound[l] # None => bound[l].record # r
    <3>1. /\ records'[r].locator \in Locators
          /\ bound[records'[r].locator] # None
          /\ bound[records'[r].locator].record = r
      <4>1. SyncedRecord(snap, fresh, r) \in Revision
        BY <1>1, <1>4, SyncedRecordType
      <4>2. records'[r].locator \in Locators \cup {None}
        BY <1>1, <4>1 DEF Revision
      <4> QED BY <1>1, <1>4, <4>2 DEF BindingsMirrorRecords, Stored
    <3> QED BY <2>3, <3>1
  <2>4. \/ \E l \in Locators :
              /\ snap[l] \in Contents
              /\ records'[r] = NoteRevision(snap[l], l)
        \/ \E l \in Locators :
              /\ snap[l] = None
              /\ bindings[l] # None
              /\ bindings[l].record = r
              /\ records'[r] = [records[r] EXCEPT !.missing = TRUE]
        \/ \A l \in Locators : bound[l] # None => bound[l].record # r
    <3> DEFINE rec == SyncedRecord(snap, fresh, r)
               marked == [records[r] EXCEPT !.missing = TRUE]
    <3>1. \/ \E l \in Locators :
                /\ snap[l] \in Contents
                /\ bound[l] = [content |-> snap[l], record |-> r]
                /\ rec = NoteRevision(snap[l], l)
          \/ \E l \in Locators :
                /\ snap[l] = None
                /\ bound[l] = bindings[l]
                /\ bindings[l] # None
                /\ bindings[l].record = r
                /\ rec = marked
          \/ /\ \A l \in Locators : bound[l] # None => bound[l].record # r
             /\ rec = records[r]
      BY <1>1, SyncedByBinding
    <3>2. records'[r] = rec
      BY <1>1
    <3> HIDE DEF rec, marked, bound
    <3>3. \/ \E l \in Locators :
                snap[l] \in Contents /\ records'[r] = NoteRevision(snap[l], l)
          \/ \E l \in Locators :
                /\ snap[l] = None
                /\ bindings[l] # None
                /\ bindings[l].record = r
                /\ records'[r] = marked
          \/ \A l \in Locators : bound[l] # None => bound[l].record # r
      BY <3>1, <3>2
    <3> QED BY <3>3 DEF marked, bound
  <2> QED BY <2>1, <2>2, <2>3, <2>4, Zenon
<1>5. \A r \in Stored' : records'[r].kind = "obsidian" =>
          (records'[r].missing <=> \/ snap[records'[r].locator] = None
                                   \/ records'[r].content \in DeclaredMissing)
  BY <1>4 DEF Stored
<1>6. \A l \in Locators : syncs'[Len(syncs')].snapshot[l] # None =>
          bindings'[l] # None /\ bindings'[l].content = syncs'[Len(syncs')].snapshot[l]
  BY <1>2, <1>3
<1>7. \A r \in Stored' : records'[r].kind = "obsidian" =>
          (records'[r].missing <=>
              \/ syncs'[Len(syncs')].snapshot[records'[r].locator] = None
              \/ records'[r].content \in DeclaredMissing)
  BY <1>2, <1>5
<1> QED BY <1>6, <1>7, Zenon DEF SourceStatusTracksLastSync

LEMMA SourceStatusStep ==
    ASSUME TypeOK, BindingsMirrorRecords, BindingsMirrorRecords',
           SourceStatusTracksLastSync, [Next]_vars
    PROVE  SourceStatusTracksLastSync'
<1>1. CASE UNCHANGED <<records, revisions, bindings, syncs>>
  BY <1>1 DEF SourceStatusTracksLastSync, Stored
<1>2. ASSUME NEW q \in Records, NEW rev \in Revision, rev.kind = "native", Create(q, rev)
      PROVE  SourceStatusTracksLastSync'
  <2>1. /\ \A r \in Records : records'[r] = IF r = q THEN rev ELSE records[r]
        /\ UNCHANGED <<bindings, syncs>>
    BY <1>2, CreateType DEF TypeOK, Create
  <2>2. \A r \in Records : (records'[r] # None /\ records'[r].kind = "obsidian") =>
            r \in Stored /\ records'[r] = records[r]
    BY <1>2, <2>1 DEF Stored
  <2> QED BY <2>1, <2>2 DEF SourceStatusTracksLastSync, Stored
<1> QED BY <1>1, <1>2, SyncSetsStatus, StepOnRecords

\* After any history of creations, reviews and synchronizations, the store
\* mirrors the vault index that committed last.
THEOREM SourceStatusHolds == Spec => []SourceStatusTracksLastSync
<1> DEFINE Inv == TypeOK /\ BindingsMirrorRecords /\ SourceStatusTracksLastSync
<1>1. Init => Inv
  BY DEF Init, TypeOK, BindingsMirrorRecords, SourceStatusTracksLastSync, Stored
<1>2. Inv /\ [Next]_vars => Inv'
  BY TypeStep, MirrorStep, SourceStatusStep
<1>3. Inv => SourceStatusTracksLastSync
  OBVIOUS
<1> QED BY <1>1, <1>2, <1>3, PTL DEF Spec

-----------------------------------------------------------------------------
(* The revision table.                                                     *)

LEMMA RevisionsOnlyGrow ==
    ASSUME TypeOK, TypeOK', [Next]_vars, NEW r \in Records
    PROVE  /\ \A i \in DOMAIN revisions[r] :
                 i \in DOMAIN revisions'[r] /\ revisions'[r][i] = revisions[r][i]
           /\ \/ records'[r] = records[r]
              \/ \E i \in DOMAIN revisions'[r] : revisions'[r][i] = records'[r]
<1>1. revisions[r] \in Seq(Revision)
  BY DEF TypeOK
<1>2. CASE UNCHANGED <<records, revisions, bindings, syncs>>
  BY <1>2
<1>3. ASSUME NEW q \in Records, NEW rev \in Revision, Create(q, rev)
      PROVE  /\ \A i \in DOMAIN revisions[r] :
                   i \in DOMAIN revisions'[r] /\ revisions'[r][i] = revisions[r][i]
             /\ \/ records'[r] = records[r]
                \/ \E i \in DOMAIN revisions'[r] : revisions'[r][i] = records'[r]
  <2>1. CASE q = r
    <3>1. revisions'[r] = AddRevision(revisions[r], rev) /\ records'[r] = rev
      BY <1>3, <2>1, CreateType DEF TypeOK
    <3>2. /\ \E i \in DOMAIN AddRevision(revisions[r], rev) :
                AddRevision(revisions[r], rev)[i] = rev
          /\ \A i \in DOMAIN revisions[r] :
                /\ i \in DOMAIN AddRevision(revisions[r], rev)
                /\ AddRevision(revisions[r], rev)[i] = revisions[r][i]
      BY <1>1, AddRevisionType
    <3> QED BY <3>1, <3>2
  <2>2. CASE q # r
    BY <1>3, <2>2, CreateType DEF TypeOK
  <2> QED BY <2>1, <2>2
<1>4. ASSUME NEW snap \in Snapshot, NEW e \in SyncEvents, NEW k \in SyncKeys,
             NEW fresh \in [NewNotes(snap) -> Records], Sync(snap, fresh, e, k)
      PROVE  /\ \A i \in DOMAIN revisions[r] :
                   i \in DOMAIN revisions'[r] /\ revisions'[r][i] = revisions[r][i]
             /\ \/ records'[r] = records[r]
                \/ \E i \in DOMAIN revisions'[r] : revisions'[r][i] = records'[r]
  <2>1. CASE records'[r] = None
    <3>1. records[r] = None
      BY <1>4, <2>1, SyncedRecordType DEF Sync
    <3> QED BY <1>4, <2>1, <3>1 DEF Sync
  <2>2. CASE records'[r] # None
    <3>1. records'[r] \in Revision
      BY <2>2 DEF TypeOK
    <3>2. revisions'[r] = AddRevision(revisions[r], records'[r])
      BY <1>4, <2>2 DEF Sync
    <3>3. /\ \E i \in DOMAIN AddRevision(revisions[r], records'[r]) :
                AddRevision(revisions[r], records'[r])[i] = records'[r]
          /\ \A i \in DOMAIN revisions[r] :
                /\ i \in DOMAIN AddRevision(revisions[r], records'[r])
                /\ AddRevision(revisions[r], records'[r])[i] = revisions[r][i]
      BY <1>1, <3>1, AddRevisionType
    <3> QED BY <3>2, <3>3
  <2> QED BY <2>1, <2>2
<1> QED BY <1>2, <1>3, <1>4, StepOnRecords

LEMMA KeptStep ==
    ASSUME TypeOK, TypeOK', DecidedRevisionsAreKept, [Next]_vars
    PROVE  DecidedRevisionsAreKept'
<1>1. ASSUME NEW r \in Stored'
      PROVE  \E i \in DOMAIN revisions'[r] : revisions'[r][i] = records'[r]
  BY <1>1, RevisionsOnlyGrow DEF DecidedRevisionsAreKept, Stored
<1>2. \A r \in Records, c \in Contents :
          (\E i \in DOMAIN revisions[r] : revisions[r][i].content = c) =>
          (\E i \in DOMAIN revisions'[r] : revisions'[r][i].content = c)
  BY RevisionsOnlyGrow
<1>3. \A n \in DOMAIN reviews :
          reviews[n].record \in Records /\ reviews[n].content \in Contents
  <2>1. \A n \in DOMAIN reviews : reviews[n] \in ReviewRow
    BY DEF TypeOK
  <2> QED BY <2>1 DEF ReviewRow
<1>4. CASE UNCHANGED reviews
  BY <1>1, <1>2, <1>3, <1>4 DEF DecidedRevisionsAreKept
<1>5. ASSUME NEW r \in Records, NEW d \in Decisions, NEW e \in ReviewEvents,
             NEW k \in ReviewKeys, NEW p \in Records \cup {None}, Review(r, d, e, k, p)
      PROVE  DecidedRevisionsAreKept'
  <2>1. r \in Stored /\ UNCHANGED revisions
    BY <1>5, ReviewedRow, NoneIsNoRow DEF Stored
  <2>2. \E i \in DOMAIN revisions'[r] : revisions'[r][i].content = records[r].content
    BY <2>1 DEF DecidedRevisionsAreKept
  <2>3. \A n \in DOMAIN reviews' :
            \/ n \in DOMAIN reviews /\ reviews'[n] = reviews[n]
            \/ reviews'[n] = RowFor(r, d, e, k, p)
    BY <1>5, ReviewAppends
  <2> QED BY <1>1, <2>1, <2>2, <2>3 DEF DecidedRevisionsAreKept, RowFor
<1> QED BY <1>4, <1>5, StepOnReviews

\* Whatever a human decided about, and whatever is current, can be read back:
\* no write forgets a revision.
THEOREM DecidedRevisionsKept == Spec => []DecidedRevisionsAreKept
<1>1. Init => DecidedRevisionsAreKept
  BY DEF Init, DecidedRevisionsAreKept, Stored
<1>2. TypeOK /\ TypeOK' /\ DecidedRevisionsAreKept /\ [Next]_vars => DecidedRevisionsAreKept'
  BY KeptStep
<1> QED BY <1>1, <1>2, TypeCorrect, PTL DEF Spec

-----------------------------------------------------------------------------
(* Lineage among native records.                                           *)

\* Every decision on a native record is bound to its one revision.
NativeRows ==
    \A i \in DOMAIN reviews :
        /\ reviews[i].record \in Stored
        /\ records[reviews[i].record].kind = "native" =>
              reviews[i].content = records[reviews[i].record].content

LineageInv ==
    ReviewInv /\ BindingsMirrorRecords /\ NativeRows /\ NativeLineageEndsApproved

LEMMA NativeRowsStep ==
    ASSUME TypeOK, TypeOK', BindingsMirrorRecords, NativeRows, [Next]_vars
    PROVE  NativeRows'
<1>1. \A q \in Stored :
          /\ q \in Stored'
          /\ records'[q].kind = records[q].kind
          /\ records[q].kind = "native" => records'[q] = records[q]
  BY IdentityStep, StepOnReviews
<1>2. CASE UNCHANGED reviews
  <2> SUFFICES ASSUME NEW i \in DOMAIN reviews
               PROVE  /\ reviews[i].record \in Stored'
                      /\ records'[reviews[i].record].kind = "native" =>
                            reviews[i].content = records'[reviews[i].record].content
    BY <1>2 DEF NativeRows
  <2>1. /\ reviews[i].record \in Stored
        /\ records[reviews[i].record].kind = "native" =>
              reviews[i].content = records[reviews[i].record].content
    BY DEF NativeRows
  <2> QED BY <1>1, <2>1
<1>3. ASSUME NEW r \in Records, NEW d \in Decisions, NEW e \in ReviewEvents,
             NEW k \in ReviewKeys, NEW p \in Records \cup {None}, Review(r, d, e, k, p)
      PROVE  NativeRows'
  <2>1. r \in Stored /\ UNCHANGED records
    BY <1>3, ReviewedRow, NoneIsNoRow DEF Stored
  <2>2. \A n \in DOMAIN reviews' :
            \/ n \in DOMAIN reviews /\ reviews'[n] = reviews[n]
            \/ reviews'[n] = RowFor(r, d, e, k, p)
    BY <1>3, ReviewAppends
  <2>3. \A n \in DOMAIN reviews' :
            \/ n \in DOMAIN reviews /\ reviews'[n] = reviews[n]
            \/ /\ reviews'[n].record = r
               /\ reviews'[n].content = records[r].content
    BY <2>2 DEF RowFor
  <2>4. Stored' = Stored
    BY <2>1 DEF Stored
  <2> QED BY <2>1, <2>3, <2>4 DEF NativeRows
<1> QED BY <1>2, <1>3, StepOnReviews

\* A decision on another record leaves an approval in force.
LEMMA ApprovalStays ==
    ASSUME TypeOK, NEW q \in Records, Approved(q), NEW r \in Records, NEW d \in Decisions,
           NEW e \in ReviewEvents, NEW k \in ReviewKeys, NEW p \in Records \cup {None},
           Review(r, d, e, k, p), r # q
    PROVE  Approved(q)'
<1> DEFINE n == Len(reviews) + 1
<1>1. /\ Len(reviews) \in Nat
      /\ DOMAIN reviews = 1 .. Len(reviews)
      /\ DOMAIN reviews' = 1 .. n
      /\ \A i \in DOMAIN reviews : reviews'[i] = reviews[i]
      /\ reviews'[n].record = r
  <2>1. /\ Len(reviews) \in Nat
        /\ DOMAIN reviews = 1 .. Len(reviews)
        /\ DOMAIN reviews' = 1 .. n
        /\ \A i \in DOMAIN reviews : reviews'[i] = reviews[i]
        /\ reviews'[n] = RowFor(r, d, e, k, p)
    BY ReviewAppends
  <2> QED BY <2>1 DEF RowFor
<1>2. UNCHANGED records
  BY ReviewedRow
<1>3. RowsOf(q, records[q].content)' = RowsOf(q, records[q].content)
  BY <1>1, <1>2 DEF RowsOf
<1>4. \A i \in RowsOf(q, records[q].content) : reviews'[i] = reviews[i]
  BY <1>1 DEF RowsOf
<1>5. Decided(q, records[q].content, "approved")'
  BY <1>2, <1>3, <1>4 DEF Approved, Decided
<1> QED BY <1>2, <1>5 DEF Approved

\* The lineage property for one supersession and its replacement.
LineageOf(i, q) ==
    (/\ reviews[i].decision = "superseded"
     /\ reviews[i].replacement = q
     /\ records[q].kind = "native") =>
        /\ \A j \in DOMAIN reviews :
              (reviews[j].record = q /\ reviews[j].decision = "superseded") => i < j
        /\ \/ Approved(q)
           \/ \E j \in DOMAIN reviews :
                 reviews[j].record = q /\ reviews[j].decision = "superseded"

AllLineages == \A i \in DOMAIN reviews, q \in Stored : LineageOf(i, q)

LEMMA LineageByPair ==
    SupersessionGrounded => (NativeLineageEndsApproved <=> AllLineages)
<1> SUFFICES ASSUME SupersessionGrounded
             PROVE  NativeLineageEndsApproved <=> AllLineages
  OBVIOUS
<1>1. \A i \in DOMAIN reviews :
          reviews[i].decision = "superseded" => reviews[i].replacement \in Stored
  BY DEF SupersessionGrounded
<1>2. ASSUME NativeLineageEndsApproved PROVE AllLineages
  BY <1>2 DEF NativeLineageEndsApproved, AllLineages, LineageOf
<1>3. ASSUME AllLineages PROVE NativeLineageEndsApproved
  BY <1>1, <1>3 DEF NativeLineageEndsApproved, AllLineages, LineageOf
<1> QED BY <1>2, <1>3

LEMMA LineageByPairNext ==
    SupersessionGrounded' => (NativeLineageEndsApproved' <=> AllLineages')
BY LineageByPair, PTL

LEMMA LineageStep ==
    ASSUME LineageInv, TypeOK', SupersessionGrounded', [Next]_vars
    PROVE  NativeLineageEndsApproved'
<1> USE DEF LineageInv, ReviewInv
<1>1. \A q \in Stored :
          /\ q \in Stored'
          /\ records'[q].kind = records[q].kind
          /\ records[q].kind = "native" => records'[q] = records[q]
  BY IdentityStep, StepOnReviews
<1>2. /\ AllLineages
      /\ \A i \in DOMAIN reviews :
            reviews[i].decision = "superseded" => reviews[i].replacement \in Stored
  BY LineageByPair DEF SupersessionGrounded
<1>3. CASE UNCHANGED reviews
  <2> SUFFICES ASSUME NEW i \in DOMAIN reviews, NEW q \in Stored',
                      reviews[i].decision = "superseded", reviews[i].replacement = q,
                      records'[q].kind = "native"
               PROVE  /\ \A j \in DOMAIN reviews :
                            (/\ reviews[j].record = q
                             /\ reviews[j].decision = "superseded") => i < j
                      /\ \/ Approved(q)'
                         \/ \E j \in DOMAIN reviews :
                               /\ reviews[j].record = q
                               /\ reviews[j].decision = "superseded"
    BY <1>3, LineageByPairNext DEF AllLineages, LineageOf
  <2>1. q \in Stored
    BY <1>2
  <2>2. records[q].kind = "native" /\ records'[q] = records[q]
    BY <1>1, <2>1
  <2>3. Approved(q) => Approved(q)'
    BY <1>3, <2>2 DEF Approved, Decided, RowsOf
  <2> QED BY <1>2, <2>1, <2>2, <2>3 DEF AllLineages, LineageOf
<1>4. ASSUME NEW r \in Records, NEW d \in Decisions, NEW e \in ReviewEvents,
             NEW k \in ReviewKeys, NEW p \in Records \cup {None}, Review(r, d, e, k, p)
      PROVE  AllLineages'
  <2> DEFINE n == Len(reviews) + 1
  <2>1. /\ Len(reviews) \in Nat
        /\ DOMAIN reviews = 1 .. Len(reviews)
        /\ DOMAIN reviews' = 1 .. n
        /\ \A i \in DOMAIN reviews : reviews'[i] = reviews[i]
        /\ reviews'[n] = RowFor(r, d, e, k, p)
    BY <1>4, ReviewAppends
  <2>2. /\ reviews'[n].record = r
        /\ reviews'[n].decision = d
        /\ reviews'[n].replacement = p
    BY <2>1 DEF RowFor
  <2>3. UNCHANGED records /\ Permitted(r, d, p)
    BY <1>4, ReviewedRow
  <2>4. ASSUME NEW i \in DOMAIN reviews', NEW q \in Records,
               reviews'[i].decision = "superseded", reviews'[i].replacement = q,
               records[q].kind = "native"
        PROVE  /\ \A j \in DOMAIN reviews' :
                     (/\ reviews'[j].record = q
                      /\ reviews'[j].decision = "superseded") => i < j
               /\ \/ Approved(q)'
                  \/ \E j \in DOMAIN reviews' :
                        /\ reviews'[j].record = q
                        /\ reviews'[j].decision = "superseded"
    <3>1. CASE i # n
      <4>1. i \in DOMAIN reviews /\ reviews'[i] = reviews[i] /\ i < n
        BY <2>1, <3>1
      <4>2. q \in Stored
        BY <1>2, <2>4, <4>1
      <4>3. /\ \A j \in DOMAIN reviews :
                  (reviews[j].record = q /\ reviews[j].decision = "superseded") => i < j
            /\ \/ Approved(q)
               \/ \E j \in DOMAIN reviews :
                     reviews[j].record = q /\ reviews[j].decision = "superseded"
        BY <1>2, <2>4, <4>1, <4>2 DEF AllLineages, LineageOf
      <4>4. \A j \in DOMAIN reviews' :
                (reviews'[j].record = q /\ reviews'[j].decision = "superseded") => i < j
        BY <2>1, <4>1, <4>3
      <4>5. CASE Approved(q) /\ r = q
        <5>1. ~Undecided(r)
          BY <4>5, ApprovedRows DEF Undecided
        <5>2. d = "superseded"
          BY <2>3, <5>1 DEF Permitted
        <5> QED BY <2>1, <2>2, <4>4, <4>5, <5>2
      <4>6. CASE Approved(q) /\ r # q
        <5>1. Approved(q)'
          BY <1>4, <4>6, ApprovalStays
        <5> QED BY <4>4, <5>1
      <4>7. CASE \E j \in DOMAIN reviews :
                   reviews[j].record = q /\ reviews[j].decision = "superseded"
        BY <2>1, <4>4, <4>7
      <4> QED BY <4>3, <4>5, <4>6, <4>7
    <3>2. CASE i = n
      <4>1. d = "superseded" /\ q = p
        BY <2>2, <2>4, <3>2
      <4>2. q # r /\ Approved(q)
        BY <2>3, <4>1 DEF Permitted
      <4>3. Approved(q)'
        BY <1>4, <4>2, ApprovalStays
      <4>4. PICK a \in DOMAIN reviews :
                 /\ reviews[a].decision = "approved"
                 /\ RowsOf(q, records[q].content) = {a}
        BY <4>2, ApprovedRows
      <4>5. ASSUME NEW j \in DOMAIN reviews', reviews'[j].record = q,
                   reviews'[j].decision = "superseded"
            PROVE  FALSE
        <5>1. j \in DOMAIN reviews /\ reviews'[j] = reviews[j]
          BY <2>1, <2>2, <4>2, <4>5
        <5>2. reviews[j].content = records[q].content
          BY <2>4, <4>5, <5>1 DEF NativeRows
        <5>3. j \in RowsOf(q, records[q].content)
          BY <4>5, <5>1, <5>2 DEF RowsOf
        <5> QED BY <4>4, <4>5, <5>1, <5>3
      <4> QED BY <4>3, <4>5
    <3> QED BY <3>1, <3>2
  <2> QED BY <2>3, <2>4 DEF AllLineages, LineageOf, Stored
<1> QED BY <1>3, <1>4, StepOnReviews, LineageByPairNext

\* For native records, superseded_by always leads forward in time and ends in
\* an approved record: no number of corrections closes a lineage into a cycle
\* or leaves it ending in a record that lost its approval another way.
THEOREM NativeLineageHolds == Spec => []NativeLineageEndsApproved
<1>1. Init => LineageInv
  BY DEF Init, LineageInv, ReviewInv, TypeOK, ReviewLifecycle, SupersessionGrounded,
         LatestRowExists, RowsOf, BindingsMirrorRecords, Stored, NativeRows,
         NativeLineageEndsApproved
<1>2. LineageInv /\ [Next]_vars => LineageInv'
  BY TypeStep, LifecycleStep, GroundedStep, LatestRowStep, MirrorStep, NativeRowsStep,
     LineageStep DEF LineageInv, ReviewInv
<1>3. LineageInv => NativeLineageEndsApproved
  BY DEF LineageInv
<1> QED BY <1>1, <1>2, <1>3, PTL DEF Spec

=============================================================================
