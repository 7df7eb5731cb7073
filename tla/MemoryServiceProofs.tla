------------------------- MODULE MemoryServiceProofs -------------------------
(***************************************************************************)
(* Proofs about MemoryService for every number of clients and every set of *)
(* drafts: the clients only ever use the store as MemoryRepository allows, *)
(* so all that is proved about it holds among them too.                    *)
(***************************************************************************)
EXTENDS MemoryService, MemoryRepositoryProofs

-----------------------------------------------------------------------------
(* The clients and the store.                                              *)

\* Whatever a client does is a transaction of the store or leaves it alone.
LEMMA StoreStep ==
    ASSUME ServiceTypeOK, [ServiceNext]_serviceVars
    PROVE  [Next]_vars
<1>1. CASE CreateNode
  <2>1. PICK r \in Allocatable, c \in Contents : Create(r, NativeRevision(c, None, None))
    BY <1>1 DEF CreateNode
  <2>2. r \in Records
    BY AllocatableAssumption
  <2>3. /\ <<None, None>> \in Corrections
        /\ Create(r, NativeRevision(c, <<None, None>>[1], <<None, None>>[2]))
    BY <2>1, UnboundAssumption
  <2> QED BY <2>2, <2>3 DEF Next, CreateNative
<1>2. ASSUME NEW v \in Reviewers, SubmitReview(v)
      PROVE  [Next]_vars
  <2>1. reviewers[v].record \in Records
    BY <1>2 DEF SubmitReview, ServiceTypeOK
  <2> QED BY <1>2, <2>1 DEF SubmitReview, Next, ReviewRecord, store, vars
<1>3. ASSUME NEW s \in Scanners, StoreIndex(s)
      PROVE  [Next]_vars
  <2>1. scans[s].index \in Snapshot
    BY DEF ServiceTypeOK, ScanState
  <2> QED BY <1>3, <2>1 DEF StoreIndex, Next, SyncObsidian, store, vars
<1>4. ASSUME NEW a \in Agents, CreateCandidate(a)
      PROVE  [Next]_vars
  <2> DEFINE d == tools[a].draft
  <2>1. d \in Drafts
    BY <1>4 DEF CreateCandidate, ServiceTypeOK
  <2>2. Identity(d) \in Records \ Allocatable
    BY <2>1, IdentityAssumption DEF Identity, Calls
  <2>3. CASE Create(Identity(d), Candidate(d))
    <3>1. /\ <<d.target, d.expected>> \in Corrections
          /\ d.content \in Contents
          /\ Create(Identity(d), NativeRevision(d.content, <<d.target, d.expected>>[1],
                                                <<d.target, d.expected>>[2]))
      BY <2>1, <2>3, DraftsAssumption DEF Candidate
    <3> QED BY <2>2, <3>1 DEF Next, CreateNative
  <2>4. CASE UNCHANGED store
    BY <2>4 DEF store, vars
  <2> QED BY <1>4, <2>3, <2>4 DEF CreateCandidate
<1>5. CASE UNCHANGED store
  BY <1>5 DEF store, vars
<1> QED
  BY <1>1, <1>2, <1>3, <1>4, <1>5
  DEF ServiceNext, EditVault, ShowNode, ListNotes, ReadNote, ReceiveCall, CheckTarget,
      LookupCandidate, serviceVars

LEMMA UnaskedType == Unasked \in ScanState
<1>1. 0 \in 0 .. MaxEdits
  BY MaxEditsAssumption
<1>2. [l \in Locators |-> None] \in Snapshot
  BY DEF Snapshot
<1> QED BY <1>1, <1>2 DEF Unasked, ScanState

\* The clients' own state stays well typed.
LEMMA ServiceTypeStep ==
    ASSUME ServiceTypeOK, [ServiceNext]_serviceVars
    PROVE  ServiceTypeOK'
<1>1. TypeOK'
  BY StoreStep, TypeStep DEF ServiceTypeOK
<1>2. CASE EditVault
  <2>1. vault' \in Snapshot
    BY <1>2 DEF EditVault, ServiceTypeOK, Snapshot
  <2>2. edits' \in 0 .. MaxEdits
    BY <1>2, MaxEditsAssumption DEF EditVault, ServiceTypeOK
  <2> QED BY <1>1, <1>2, <2>1, <2>2 DEF EditVault, ServiceTypeOK
<1>3. CASE CreateNode
  BY <1>1, <1>3 DEF CreateNode, ServiceTypeOK
<1>4. ASSUME NEW v \in Reviewers, ShowNode(v) \/ SubmitReview(v)
      PROVE  ServiceTypeOK'
  <2>1. CASE ShowNode(v)
    <3>1. PICK r \in Stored :
             reviewers' = [reviewers EXCEPT ![v].at = "shown", ![v].record = r,
                                            ![v].shown = records[r].content]
      BY <2>1 DEF ShowNode
    <3>2. r \in Records /\ records[r].content \in Contents
      BY DEF Stored, ServiceTypeOK, TypeOK, Revision
    <3>3. reviewers' = [reviewers EXCEPT ![v] = [reviewers[v] EXCEPT
             !.at = "shown", !.record = r, !.shown = records[r].content]]
      BY <3>1 DEF ServiceTypeOK
    <3>4. [reviewers[v] EXCEPT !.at = "shown", !.record = r,
                               !.shown = records[r].content] \in ReviewerState
      BY <3>2 DEF ServiceTypeOK, ReviewerState
    <3>5. reviewers' \in [Reviewers -> ReviewerState]
      BY <3>3, <3>4 DEF ServiceTypeOK
    <3>6. \A u \in Reviewers : reviewers'[u].at # "idle" => reviewers'[u].record \in Records
      BY <3>2, <3>3 DEF ServiceTypeOK, ReviewerState
    <3> QED BY <1>1, <2>1, <3>5, <3>6 DEF ShowNode, ServiceTypeOK
  <2>2. CASE SubmitReview(v)
    <3>1. PICK d \in Decisions, e \in ReviewEvents, k \in ReviewKeys,
               p \in Records \cup {None} :
             reviewers' = [reviewers EXCEPT ![v].at = "done", ![v].event = e,
                 ![v].reply = ReviewOutcome(reviewers[v].record, d, e, k, p)]
      BY <2>2 DEF SubmitReview
    <3> DEFINE reply == ReviewOutcome(reviewers[v].record, d, e, k, p)
    <3>2. reply \in Outcomes
      BY DEF ReviewOutcome, Outcomes
    <3> HIDE DEF reply
    <3>3. reviewers[v].record \in Records
      BY <2>2 DEF SubmitReview, ServiceTypeOK
    <3>4. reviewers' = [reviewers EXCEPT ![v] = [reviewers[v] EXCEPT
             !.at = "done", !.event = e, !.reply = reply]]
      BY <3>1 DEF ServiceTypeOK, reply
    <3>5. [reviewers[v] EXCEPT !.at = "done", !.event = e, !.reply = reply]
             \in ReviewerState
      BY <3>2 DEF ServiceTypeOK, ReviewerState
    <3>6. reviewers' \in [Reviewers -> ReviewerState]
      BY <3>4, <3>5 DEF ServiceTypeOK
    <3>7. \A u \in Reviewers : reviewers'[u].at # "idle" => reviewers'[u].record \in Records
      BY <3>3, <3>4 DEF ServiceTypeOK, ReviewerState
    <3> QED BY <1>1, <2>2, <3>6, <3>7 DEF SubmitReview, ServiceTypeOK
  <2> QED BY <1>4, <2>1, <2>2
<1>5. ASSUME NEW s \in Scanners, ListNotes(s) \/ ReadNote(s) \/ StoreIndex(s)
      PROVE  ServiceTypeOK'
  <2>1. CASE ListNotes(s)
    <3>1. scans' = [scans EXCEPT ![s] =
             [scans[s] EXCEPT !.at = "reading", !.since = edits,
                              !.listed = {l \in Locators : vault[l] # None}]]
      BY <2>1 DEF ListNotes, ServiceTypeOK
    <3>2. [scans[s] EXCEPT !.at = "reading", !.since = edits,
                           !.listed = {l \in Locators : vault[l] # None}] \in ScanState
      BY DEF ServiceTypeOK, ScanState
    <3>3. scans' \in [Scanners -> ScanState]
      BY <3>1, <3>2 DEF ServiceTypeOK
    <3> QED BY <1>1, <2>1, <3>3 DEF ListNotes, ServiceTypeOK
  <2>2. CASE ReadNote(s)
    <3>1. PICK l \in scans[s].listed :
             scans' = [scans EXCEPT ![s].listed = @ \ {l}, ![s].index[l] = vault[l]]
      BY <2>2 DEF ReadNote
    <3>2. /\ scans[s] \in ScanState
          /\ scans[s].listed \ {l} \in SUBSET Locators
          /\ [scans[s].index EXCEPT ![l] = vault[l]] \in Snapshot
      BY DEF ServiceTypeOK, ScanState, Snapshot
    <3>3. scans' = [scans EXCEPT ![s] =
             [scans[s] EXCEPT !.listed = scans[s].listed \ {l},
                              !.index = [scans[s].index EXCEPT ![l] = vault[l]]]]
      BY <3>1 DEF ServiceTypeOK
    <3>4. scans' \in [Scanners -> ScanState]
      BY <3>2, <3>3 DEF ServiceTypeOK, ScanState
    <3> QED BY <1>1, <2>2, <3>4 DEF ReadNote, ServiceTypeOK
  <2>3. CASE StoreIndex(s)
    <3>1. /\ scans' = [scans EXCEPT ![s] = [Unasked EXCEPT !.at = "done"]]
          /\ asOf' \in 0 .. MaxEdits
          /\ UNCHANGED <<vault, edits, reviewers, tools>>
      BY <2>3 DEF StoreIndex, ServiceTypeOK, ScanState
    <3>2. [Unasked EXCEPT !.at = "done"] \in ScanState
      BY UnaskedType DEF ScanState
    <3>3. scans' \in [Scanners -> ScanState]
      BY <3>1, <3>2 DEF ServiceTypeOK
    <3> QED BY <1>1, <3>1, <3>3 DEF ServiceTypeOK
  <2> QED BY <1>5, <2>1, <2>2, <2>3
<1>6. ASSUME NEW a \in Agents,
             \/ ReceiveCall(a) \/ CheckTarget(a)
             \/ LookupCandidate(a) \/ CreateCandidate(a)
      PROVE  ServiceTypeOK'
  <2>1. CASE ReceiveCall(a)
    BY <1>1, <2>1 DEF ReceiveCall, ServiceTypeOK, ToolState
  <2>2. CASE CheckTarget(a)
    BY <1>1, <2>2 DEF CheckTarget, Answer, Replies, ServiceTypeOK, ToolState
  <2>3. CASE LookupCandidate(a)
    BY <1>1, <2>3 DEF LookupCandidate, Answer, Replies, ServiceTypeOK, ToolState
  <2>4. CASE CreateCandidate(a)
    BY <1>1, <2>4 DEF CreateCandidate, Answer, Replies, ServiceTypeOK, ToolState
  <2> QED BY <1>6, <2>1, <2>2, <2>3, <2>4
<1>7. CASE UNCHANGED serviceVars
  BY <1>1, <1>7 DEF serviceVars, ServiceTypeOK
<1> QED
  BY <1>2, <1>3, <1>4, <1>5, <1>6, <1>7 DEF ServiceNext

\* Reviewers only decide about records, scans only hand over notes, and tools
\* only create what they were asked, under identities of their own.
THEOREM ServiceTypeCorrect == ServiceSpec => []ServiceTypeOK
<1>1. ServiceInit => ServiceTypeOK
  <2> SUFFICES ASSUME ServiceInit PROVE ServiceTypeOK
    OBVIOUS
  <2>1. TypeOK
    BY DEF ServiceInit, Init, TypeOK
  <2>2. vault \in Snapshot /\ edits \in 0 .. MaxEdits /\ asOf \in 0 .. MaxEdits
    BY FirstVaultsAssumption, MaxEditsAssumption DEF ServiceInit
  <2>3. /\ reviewers \in [Reviewers -> ReviewerState]
        /\ \A v \in Reviewers : reviewers[v].at = "idle"
    BY DEF ServiceInit, ReviewerState
  <2>4. scans \in [Scanners -> ScanState]
    BY UnaskedType DEF ServiceInit
  <2>5. tools \in [Agents -> ToolState] /\ \A a \in Agents : tools[a].at = "idle"
    BY DEF ServiceInit, ToolState
  <2> QED BY <2>1, <2>2, <2>3, <2>4, <2>5 DEF ServiceTypeOK
<1> QED BY <1>1, ServiceTypeStep, PTL DEF ServiceSpec

\* Reviews, synchronizations and tool calls that interleave and read stale
\* state use the store only as MemoryRepository describes it: each of its
\* theorems holds of a workspace in use.
THEOREM ServiceImplementsRepository == ServiceSpec => Spec
<1>1. ServiceInit => Init
  BY DEF ServiceInit
<1>2. ServiceTypeOK /\ [ServiceNext]_serviceVars => [Next]_vars
  BY StoreStep
<1> QED BY <1>1, <1>2, ServiceTypeCorrect, PTL DEF ServiceSpec, Spec
-----------------------------------------------------------------------------
(* What a tool was told.                                                   *)

\* A call is answered once, about a record that no later step changes.
LEMMA AnsweredStep ==
    ASSUME ServiceTypeOK, ServiceTypeOK', BindingsMirrorRecords,
           AnsweredCandidatesStand, [ServiceNext]_serviceVars
    PROVE  AnsweredCandidatesStand'
<1> SUFFICES ASSUME NEW a \in Agents, tools'[a].at = "done", tools'[a].reply = "candidate"
             PROVE  records'[Identity(tools'[a].draft)] = Candidate(tools'[a].draft)
  BY DEF AnsweredCandidatesStand, Answered
<1> DEFINE d == tools[a].draft
<1>1. CASE tools'[a] = tools[a]
  <2>1. records[Identity(d)] = Candidate(d) /\ d \in Drafts
    BY <1>1 DEF AnsweredCandidatesStand, Answered, ServiceTypeOK
  <2>2. Identity(d) \in Records
    BY <2>1, IdentityAssumption DEF Identity, Calls
  <2>3. Candidate(d) \in Revision /\ Candidate(d).kind = "native"
    BY <2>1, DraftsAssumption, NativeRevisionType DEF Candidate, NativeRevision
  <2>4. Identity(d) \in Stored
    BY <2>1, <2>2, <2>3, NoneIsNoRow DEF Stored
  <2>5. records'[Identity(d)] = records[Identity(d)]
    BY <2>1, <2>3, <2>4, StoreStep, IdentityStep DEF ServiceTypeOK
  <2> QED BY <1>1, <2>1, <2>5
<1>2. CASE LookupCandidate(a)
  BY <1>2 DEF LookupCandidate, Answer, ServiceTypeOK, ToolState, store
<1>3. CASE CreateCandidate(a)
  <2>1. /\ tools'[a].draft = d /\ d \in Drafts
        /\ tools'[a].reply \in {"candidate", "request_conflict"}
    BY <1>3 DEF CreateCandidate, Answer, ServiceTypeOK, ToolState
  <2>2. Identity(d) \in Records
    BY <2>1, IdentityAssumption DEF Identity, Calls
  <2>3. CASE Create(Identity(d), Candidate(d))
    BY <2>1, <2>2, <2>3 DEF Create, ServiceTypeOK, TypeOK
  <2>4. CASE CreateOutcome(Identity(d), Candidate(d)) = "replayed" /\ UNCHANGED store
    BY <2>1, <2>4 DEF CreateOutcome, store
  <2>5. CASE Answer(a, "request_conflict")
    BY <2>5 DEF Answer, ServiceTypeOK, ToolState
  <2> QED BY <1>3, <2>3, <2>4, <2>5 DEF CreateCandidate
<1>4. CASE ReceiveCall(a) \/ CheckTarget(a)
  <2>1. tools[a] \in ToolState /\ tools \in [Agents -> ToolState]
    BY DEF ServiceTypeOK
  <2>2. CASE ReceiveCall(a)
    <3>1. tools'[a].at \in {"check", "lookup"}
      BY <2>1, <2>2 DEF ReceiveCall, ToolState
    <3> QED BY <3>1
  <2>3. CASE CheckTarget(a)
    <3>1. tools'[a].at = "lookup" \/ tools'[a].reply = "revision_conflict"
      BY <2>1, <2>3 DEF CheckTarget, Answer, ToolState
    <3> QED BY <3>1
  <2> QED BY <1>4, <2>2, <2>3
<1>5. ASSUME NEW b \in Agents, b # a,
             \/ ReceiveCall(b) \/ CheckTarget(b)
             \/ LookupCandidate(b) \/ CreateCandidate(b)
      PROVE  tools'[a] = tools[a]
  BY <1>5 DEF ReceiveCall, CheckTarget, LookupCandidate, CreateCandidate, Answer,
              ServiceTypeOK
<1>6. CASE UNCHANGED tools
  BY <1>1, <1>6
<1> QED
  BY <1>1, <1>2, <1>3, <1>4, <1>5, <1>6
  DEF ServiceNext, EditVault, CreateNode, ShowNode, SubmitReview, ListNotes, ReadNote,
      StoreIndex, serviceVars

\* What a client was told about its candidate stays true, for any number of
\* calls, retries, reviews and synchronizations beside it.
THEOREM AnsweredCandidatesStandHolds == ServiceSpec => []AnsweredCandidatesStand
<1>1. ServiceInit => AnsweredCandidatesStand
  BY DEF ServiceInit, AnsweredCandidatesStand, Answered
<1>2. /\ ServiceTypeOK /\ ServiceTypeOK' /\ BindingsMirrorRecords
      /\ AnsweredCandidatesStand /\ [ServiceNext]_serviceVars
      => AnsweredCandidatesStand'
  BY AnsweredStep
<1> QED
  BY <1>1, <1>2, ServiceTypeCorrect, ServiceImplementsRepository,
     BindingsMirrorRecordsHolds, PTL
  DEF ServiceSpec

-----------------------------------------------------------------------------
(* What a correction points at.                                            *)

\* Between the check of a correction and its creation the revision it names
\* may stop being current; it is not forgotten.
CheckedTargetsAreKept ==
    \A a \in Agents :
        (tools[a].at \in {"lookup", "create"} /\ tools[a].draft.target # None) =>
            VariantsOf(tools[a].draft.target, tools[a].draft.expected) # {}

CorrectionInv == CheckedTargetsAreKept /\ CorrectionsReachTheirTarget

LEMMA CheckedTargetsStep ==
    ASSUME ServiceTypeOK, ServiceTypeOK', DecidedRevisionsAreKept,
           CheckedTargetsAreKept, [ServiceNext]_serviceVars
    PROVE  CheckedTargetsAreKept'
<1> SUFFICES ASSUME NEW a \in Agents, tools'[a].at \in {"lookup", "create"},
                    tools'[a].draft.target # None
             PROVE  (VariantsOf(tools[a].draft.target, tools[a].draft.expected) # {})'
  BY DEF CheckedTargetsAreKept
<1> DEFINE d == tools[a].draft
<1>1. ASSUME tools'[a].draft = d, d \in Drafts, VariantsOf(d.target, d.expected) # {}
      PROVE  (VariantsOf(tools[a].draft.target, tools[a].draft.expected) # {})'
  <2>1. d.target \in Records /\ d.expected \in Contents \cup {None}
    BY <1>1, DraftsAssumption, CorrectionsAssumption
  <2>2. [Next]_vars
    BY StoreStep
  <2>3. VariantsOf(d.target, d.expected)' # {}
    BY <1>1, <2>1, <2>2, RevisionsOnlyGrow DEF VariantsOf, ServiceTypeOK
  <2> QED BY <1>1, <2>3 DEF VariantsOf
<1>2. CASE tools'[a] = tools[a]
  BY <1>1, <1>2 DEF CheckedTargetsAreKept, ServiceTypeOK
<1>3. CASE CheckTarget(a)
  <2>1. BindsCurrentTarget(d) /\ tools'[a].draft = d /\ d \in Drafts
    BY <1>3 DEF CheckTarget, Answer, ServiceTypeOK, ToolState
  <2>2. d.target \in Stored
    BY <2>1, DraftsAssumption DEF BindsCurrentTarget, Stored
  <2>3. VariantsOf(d.target, d.expected) # {}
    BY <2>1, <2>2 DEF BindsCurrentTarget, DecidedRevisionsAreKept, VariantsOf
  <2> QED BY <1>1, <2>1, <2>3
<1>4. CASE LookupCandidate(a)
  <2>1. tools[a].at = "lookup" /\ tools'[a].draft = d /\ d \in Drafts
    BY <1>4 DEF LookupCandidate, Answer, ServiceTypeOK, ToolState
  <2> QED BY <1>1, <2>1 DEF CheckedTargetsAreKept
<1>5. CASE ReceiveCall(a)
  <2>1. tools'[a].at = "lookup" /\ tools'[a].draft \in Drafts
        /\ tools'[a].draft.tool # "correct"
    BY <1>5 DEF ReceiveCall, ServiceTypeOK, ToolState
  <2> QED BY <2>1, DraftsAssumption
<1>6. CASE CreateCandidate(a)
  BY <1>6 DEF CreateCandidate, Answer, ServiceTypeOK, ToolState
<1>7. ASSUME NEW b \in Agents, b # a,
             \/ ReceiveCall(b) \/ CheckTarget(b)
             \/ LookupCandidate(b) \/ CreateCandidate(b)
      PROVE  tools'[a] = tools[a]
  BY <1>7 DEF ReceiveCall, CheckTarget, LookupCandidate, CreateCandidate, Answer,
              ServiceTypeOK
<1>8. CASE UNCHANGED tools
  BY <1>2, <1>8
<1> QED
  BY <1>2, <1>3, <1>4, <1>5, <1>6, <1>7, <1>8
  DEF ServiceNext, EditVault, CreateNode, ShowNode, SubmitReview, ListNotes, ReadNote,
      StoreIndex, serviceVars

\* A record that is a correction was created as one, from a checked draft.
LEMMA CorrectionStep ==
    ASSUME ServiceTypeOK, ServiceTypeOK', BindingsMirrorRecords, CorrectionInv,
           [ServiceNext]_serviceVars
    PROVE  CorrectionsReachTheirTarget'
<1> SUFFICES ASSUME NEW r \in Records, records'[r] # None, records'[r].target # None
             PROVE  (VariantsOf(records[r].target, records[r].expected) # {})'
  BY DEF CorrectionsReachTheirTarget, Stored
<1>1. ASSUME NEW t \in Records, NEW h \in Contents \cup {None}, VariantsOf(t, h) # {},
             records'[r].target = t, records'[r].expected = h
      PROVE  (VariantsOf(records[r].target, records[r].expected) # {})'
  <2>1. [Next]_vars
    BY StoreStep
  <2>2. VariantsOf(t, h)' # {}
    BY <1>1, <2>1, RevisionsOnlyGrow DEF VariantsOf, ServiceTypeOK
  <2> QED BY <1>1, <2>2 DEF VariantsOf
<1>2. ASSUME records[r] # None, records'[r].target = records[r].target,
             records'[r].expected = records[r].expected
      PROVE  (VariantsOf(records[r].target, records[r].expected) # {})'
  <2>1. records[r].target \in Records /\ records[r].expected \in Contents \cup {None}
    BY <1>2 DEF ServiceTypeOK, TypeOK, Revision
  <2>2. VariantsOf(records[r].target, records[r].expected) # {}
    BY <1>2 DEF CorrectionInv, CorrectionsReachTheirTarget, Stored
  <2> QED BY <1>1, <1>2, <2>1, <2>2
<1>3. CASE CreateNode
  <2>1. PICK q \in Allocatable, c \in Contents : Create(q, NativeRevision(c, None, None))
    BY <1>3 DEF CreateNode
  <2>2. records' = [records EXCEPT ![q] = NativeRevision(c, None, None)]
    BY <2>1 DEF Create
  <2>3. records'[r] = records[r]
    BY <2>2 DEF NativeRevision, ServiceTypeOK, TypeOK
  <2> QED BY <1>2, <2>3
<1>4. ASSUME NEW a \in Agents, CreateCandidate(a)
      PROVE  (VariantsOf(records[r].target, records[r].expected) # {})'
  <2> DEFINE d == tools[a].draft
  <2>1. d \in Drafts /\ tools[a].at = "create"
    BY <1>4 DEF CreateCandidate, ServiceTypeOK
  <2>2. CASE records'[r] = records[r]
    BY <1>2, <2>2
  <2>3. CASE records'[r] # records[r]
    <3>1. Create(Identity(d), Candidate(d))
      BY <1>4, <2>3 DEF CreateCandidate, store
    <3>2. records'[r] = Candidate(d)
      BY <2>3, <3>1 DEF Create, ServiceTypeOK, TypeOK
    <3>3. records'[r].target = d.target /\ records'[r].expected = d.expected
      BY <3>2 DEF Candidate, NativeRevision
    <3>4. VariantsOf(d.target, d.expected) # {}
      BY <2>1, <3>3 DEF CorrectionInv, CheckedTargetsAreKept
    <3>5. d.target \in Records /\ d.expected \in Contents \cup {None}
      BY <2>1, <3>3, DraftsAssumption, CorrectionsAssumption
    <3> QED BY <1>1, <3>3, <3>4, <3>5
  <2> QED BY <2>2, <2>3
<1>5. ASSUME NEW s \in Scanners, StoreIndex(s)
      PROVE  (VariantsOf(records[r].target, records[r].expected) # {})'
  <2>1. CASE UNCHANGED store
    BY <1>2, <2>1 DEF store
  <2>2. CASE ~UNCHANGED store
    <3>1. PICK snap \in Snapshot, e \in SyncEvents, k \in SyncKeys :
             \E fresh \in [NewNotes(snap) -> Records] : Sync(snap, fresh, e, k)
      BY <1>5, <2>2 DEF StoreIndex, store, ServiceTypeOK, ScanState
    <3>2. PICK fresh \in [NewNotes(snap) -> Records] : Sync(snap, fresh, e, k)
      BY <3>1
    <3>3. FreshIds(snap, fresh) /\ records'[r] = SyncedRecord(snap, fresh, r)
      BY <3>2 DEF Sync
    <3>4. TypeOK /\ records[r] \in Revision \cup {None}
      BY DEF ServiceTypeOK, TypeOK
    <3>6. \/ \E l \in Locators : records'[r] = NoteRevision(snap[l], l)
          \/ records'[r] = records[r]
          \/ records'[r] = [records[r] EXCEPT !.missing = TRUE] /\ \E l \in Locators :
                bindings[l] # None /\ bindings[l].record = r
      <4>1. \/ \E l \in Locators :
                  /\ snap[l] \in Contents
                  /\ SyncedBindings(snap, fresh)[l] = [content |-> snap[l], record |-> r]
                  /\ SyncedRecord(snap, fresh, r) = NoteRevision(snap[l], l)
            \/ \E l \in Locators :
                  /\ snap[l] = None
                  /\ SyncedBindings(snap, fresh)[l] = bindings[l]
                  /\ bindings[l] # None
                  /\ bindings[l].record = r
                  /\ SyncedRecord(snap, fresh, r) = [records[r] EXCEPT !.missing = TRUE]
            \/ /\ \A l \in Locators : SyncedBindings(snap, fresh)[l] # None =>
                       SyncedBindings(snap, fresh)[l].record # r
               /\ SyncedRecord(snap, fresh, r) = records[r]
        BY <3>3, <3>4, SyncedByBinding
      <4> QED BY <3>3, <4>1, Zenon
    <3>7. \A l \in Locators : NoteRevision(snap[l], l).target = None
      BY DEF NoteRevision
    <3>8. records[r] # None /\ records[r] \in Revision
      BY <3>4, <3>6, <3>7 DEF BindingsMirrorRecords
    <3>9. /\ [records[r] EXCEPT !.missing = TRUE].target = records[r].target
          /\ [records[r] EXCEPT !.missing = TRUE].expected = records[r].expected
      BY <3>8 DEF Revision
    <3>10. records'[r].target = records[r].target /\ records'[r].expected = records[r].expected
      BY <3>6, <3>7, <3>9
    <3> QED BY <1>2, <3>8, <3>10
  <2> QED BY <2>1, <2>2
<1>6. CASE UNCHANGED records
  BY <1>2, <1>6
<1>7. ASSUME NEW v \in Reviewers, SubmitReview(v)
      PROVE  UNCHANGED records
  BY <1>7 DEF SubmitReview, Review, store
<1>8. ASSUME NEW a \in Agents, ReceiveCall(a) \/ CheckTarget(a) \/ LookupCandidate(a)
      PROVE  UNCHANGED records
  BY <1>8 DEF ReceiveCall, CheckTarget, LookupCandidate, store
<1> QED
  BY <1>3, <1>4, <1>5, <1>6, <1>7, <1>8
  DEF ServiceNext, EditVault, ShowNode, ListNotes, ReadNote, serviceVars, store

\* Whatever a correction names can be read back, though its target may move
\* on while the call is under way and ever after.
THEOREM CorrectionsReachTheirTargetHolds == ServiceSpec => []CorrectionsReachTheirTarget
<1>1. ServiceInit => CorrectionInv
  BY DEF ServiceInit, Init, CorrectionInv, CheckedTargetsAreKept,
         CorrectionsReachTheirTarget, Stored
<1>2. /\ ServiceTypeOK /\ ServiceTypeOK' /\ BindingsMirrorRecords
      /\ DecidedRevisionsAreKept /\ CorrectionInv /\ [ServiceNext]_serviceVars
      => CorrectionInv'
  BY CheckedTargetsStep, CorrectionStep DEF CorrectionInv
<1>3. CorrectionInv => CorrectionsReachTheirTarget
  BY DEF CorrectionInv
<1> QED
  BY <1>1, <1>2, <1>3, ServiceTypeCorrect, ServiceImplementsRepository,
     BindingsMirrorRecordsHolds, DecidedRevisionsKept, PTL
  DEF ServiceSpec

-----------------------------------------------------------------------------
(* What a synchronization leaves behind.                                   *)

\* A scan beside which nothing was edited has read what is there, and the one
\* stored last is what is there.
ScansFollowVault ==
    /\ asOf <= edits
    /\ \A s \in Scanners :
          /\ scans[s].since <= edits
          /\ scans[s].at = "idle" => scans[s].index = Unasked.index
          /\ (scans[s].at = "reading" /\ scans[s].since = edits) =>
                \A l \in Locators \ scans[s].listed : scans[s].index[l] = vault[l]
    /\ (syncs # <<>> /\ asOf = edits) => syncs[Len(syncs)].snapshot = vault

LEMMA ScansStep ==
    ASSUME ServiceTypeOK, ServiceTypeOK', ScansFollowVault, [ServiceNext]_serviceVars
    PROVE  ScansFollowVault'
<1>1. /\ edits \in Nat /\ asOf \in Nat
      /\ \A s \in Scanners : scans[s] \in ScanState /\ scans[s].since \in Nat
  BY MaxEditsAssumption DEF ServiceTypeOK, ScanState
<1>2. CASE EditVault
  BY <1>1, <1>2 DEF EditVault, ScansFollowVault, store
<1>3. CASE UNCHANGED <<syncs, vault, edits, scans, asOf>>
  BY <1>3 DEF ScansFollowVault
<1>4. ASSUME NEW s \in Scanners, ListNotes(s)
      PROVE  ScansFollowVault'
  <2>1. /\ scans'[s].at = "reading" /\ scans'[s].since = edits
        /\ scans'[s].listed = {l \in Locators : vault[l] # None}
        /\ scans'[s].index = Unasked.index
        /\ \A t \in Scanners \ {s} : scans'[t] = scans[t]
        /\ UNCHANGED <<syncs, vault, edits, asOf>>
    BY <1>4 DEF ListNotes, ServiceTypeOK, ScanState, ScansFollowVault, store
  <2>2. \A l \in Locators : Unasked.index[l] = None
    BY DEF Unasked
  <2> QED BY <1>1, <2>1, <2>2 DEF ScansFollowVault
<1>5. ASSUME NEW s \in Scanners, ReadNote(s)
      PROVE  ScansFollowVault'
  <2>1. PICK l \in scans[s].listed :
           scans' = [scans EXCEPT ![s].listed = @ \ {l}, ![s].index[l] = vault[l]]
    BY <1>5 DEF ReadNote
  <2>2. /\ scans'[s].at = scans[s].at /\ scans[s].at = "reading"
        /\ scans'[s].since = scans[s].since
        /\ scans'[s].listed = scans[s].listed \ {l}
        /\ scans'[s].index = [scans[s].index EXCEPT ![l] = vault[l]]
        /\ \A t \in Scanners \ {s} : scans'[t] = scans[t]
        /\ UNCHANGED <<syncs, vault, edits, asOf>>
    BY <1>5, <2>1 DEF ReadNote, ServiceTypeOK, ScanState, store
  <2>3. l \in Locators /\ scans[s].index \in Snapshot
    BY DEF ServiceTypeOK, ScanState
  <2> QED BY <2>2, <2>3 DEF ScansFollowVault, Snapshot
<1>6. ASSUME NEW s \in Scanners, StoreIndex(s)
      PROVE  ScansFollowVault'
  <2>1. /\ scans'[s].at = "done" /\ scans'[s].since = 0
        /\ \A t \in Scanners \ {s} : scans'[t] = scans[t]
        /\ UNCHANGED <<vault, edits>>
    BY <1>6 DEF StoreIndex, Unasked, ServiceTypeOK
  <2>2. \A t \in Scanners :
           /\ scans'[t].since <= edits'
           /\ scans'[t].at = "idle" => scans'[t].index = Unasked.index
           /\ (scans'[t].at = "reading" /\ scans'[t].since = edits') =>
                \A l \in Locators \ scans'[t].listed : scans'[t].index[l] = vault'[l]
    BY <1>1, <2>1 DEF ScansFollowVault
  <2>3. CASE UNCHANGED <<store, asOf>>
    BY <2>1, <2>2, <2>3 DEF ScansFollowVault, store
  <2>4. CASE ~UNCHANGED <<store, asOf>>
    <3> DEFINE snap == scans[s].index
    <3>1. PICK e \in SyncEvents, k \in SyncKeys :
             /\ syncs' = Append(syncs, [event |-> e, key |-> k, snapshot |-> snap])
             /\ asOf' = scans[s].since
      BY <1>6, <2>4 DEF StoreIndex, Sync
    <3>2. syncs \in Seq(SyncRow)
      BY DEF ServiceTypeOK, TypeOK
    <3>3. syncs'[Len(syncs')].snapshot = snap
      BY <3>1, <3>2
    <3>4. scans[s].since = edits => snap = vault
      <4>1. snap \in Snapshot /\ vault \in Snapshot
        BY DEF ServiceTypeOK, ScanState
      <4>2. scans[s].since = edits => \A l \in Locators : snap[l] = vault[l]
        BY <1>6 DEF StoreIndex, ScansFollowVault
      <4> QED BY <4>1, <4>2 DEF Snapshot
    <3> QED BY <2>1, <2>2, <3>1, <3>3, <3>4 DEF ScansFollowVault
  <2> QED BY <2>3, <2>4
<1>7. ASSUME NEW v \in Reviewers, ShowNode(v) \/ SubmitReview(v)
      PROVE  UNCHANGED <<syncs, vault, edits, scans, asOf>>
  BY <1>7 DEF ShowNode, SubmitReview, Review, store
<1>8. ASSUME NEW a \in Agents,
             \/ ReceiveCall(a) \/ CheckTarget(a)
             \/ LookupCandidate(a) \/ CreateCandidate(a)
      PROVE  UNCHANGED <<syncs, vault, edits, scans, asOf>>
  BY <1>8 DEF ReceiveCall, CheckTarget, LookupCandidate, CreateCandidate, Create, store
<1>9. CASE CreateNode
  BY <1>3, <1>9 DEF CreateNode, Create
<1> QED
  BY <1>2, <1>3, <1>4, <1>5, <1>6, <1>7, <1>8, <1>9 DEF ServiceNext, serviceVars, store

\* However scans and edits interleave, a store that was last synchronized from
\* a scan beside which nothing was edited mirrors the vault.
THEOREM QuietSyncMirrorsVaultHolds == ServiceSpec => []QuietSyncMirrorsVault
<1>1. ServiceInit => ScansFollowVault
  BY DEF ServiceInit, Init, ScansFollowVault, Unasked
<1>2. ServiceTypeOK /\ ServiceTypeOK' /\ ScansFollowVault /\ [ServiceNext]_serviceVars
      => ScansFollowVault'
  BY ScansStep
<1>3. /\ TypeOK /\ BindingsMirrorRecords /\ SourceStatusTracksLastSync /\ ScansFollowVault
      => QuietSyncMirrorsVault
  BY DEF TypeOK, Binding, BindingsMirrorRecords, SourceStatusTracksLastSync,
         ScansFollowVault, QuietSyncMirrorsVault
<1> QED
  BY <1>1, <1>2, <1>3, ServiceTypeCorrect, ServiceImplementsRepository, TypeCorrect,
     BindingsMirrorRecordsHolds, SourceStatusHolds, PTL
  DEF ServiceSpec
=============================================================================
