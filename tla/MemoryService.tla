---------------------------- MODULE MemoryService ----------------------------
(***************************************************************************)
(* The clients of the memory store: the HTTP handlers of                   *)
(* src/oscillink_agent/memory/routes.py, the vault scan of                 *)
(* memory/obsidian.py, and the remember and correct tools of               *)
(* integrations/mcp/server.py, which runs in a process of its own.         *)
(*                                                                         *)
(* The store serializes transactions (MemoryRepository); what a client     *)
(* read before its transaction may be stale in it.  A reviewer reads a     *)
(* node and decides later, a scan reads one file after the other while the *)
(* user edits the vault, a tool checks its target and its identity in      *)
(* transactions of their own.  A client that dies simply stops.            *)
(*                                                                         *)
(* Data abstraction.  A draft's content stands for everything a tool call  *)
(* writes besides its binding.  Files that hold no note are not listed,    *)
(* and the directories are listed in one step.                             *)
(***************************************************************************)
EXTENDS ProjectMemory

CONSTANTS Reviewers, Scanners, Agents,  \* one review, one sync, one tool call each
          Drafts,       \* [request, tool, content, target, expected] of tool calls
          IdentityOf,   \* <<request, tool>> -> the identity derived from it
          FirstVaults,  \* the vaults the user may start with
          MaxEdits      \* bound on the edits of the vault

Calls == {<<d.request, d.tool>> : d \in Drafts}

ASSUME DraftsAssumption ==
    \A d \in Drafts :
        /\ d.content \in Contents
        /\ <<d.target, d.expected>> \in Corrections
        /\ \/ d.tool = "remember" /\ d.target = None
           \/ d.tool = "correct" /\ d.target \in Records

ASSUME MaxEditsAssumption == MaxEdits \in Nat

ASSUME UnboundAssumption == <<None, None>> \in Corrections

\* Derived identities differ for different requests and tools, and from the
\* ones the store allocates.
ASSUME IdentityAssumption ==
    /\ \A call \in Calls : IdentityOf[call] \in Records \ Allocatable
    /\ \A a, b \in Calls : IdentityOf[a] = IdentityOf[b] => a = b

ASSUME FirstVaultsAssumption == FirstVaults \subseteq Snapshot

VARIABLES vault,      \* locator -> content of the note there, or None
          edits,      \* edits of the vault so far
          reviewers,  \* reviewer -> what was shown and what was asked
          scans,      \* sync request -> its scan so far
          tools,      \* tool call -> its place in the handler and its draft
          asOf        \* the edits there were when the scan stored last began

store == <<records, revisions, reviews, bindings, syncs>>
serviceVars == <<store, vault, edits, reviewers, scans, tools, asOf>>

-----------------------------------------------------------------------------
(* The user edits the vault: writes, deletes or moves a note.              *)

EditVault ==
    /\ edits < MaxEdits
    /\ \/ \E l \in Locators, c \in Contents \cup {None} :
             vault[l] # c /\ vault' = [vault EXCEPT ![l] = c]
       \/ \E l, m \in Locators :
             /\ vault[l] # None /\ vault[m] = None
             /\ vault' = [vault EXCEPT ![l] = None, ![m] = vault[l]]
    /\ edits' = edits + 1
    /\ UNCHANGED <<store, reviewers, scans, tools, asOf>>

-----------------------------------------------------------------------------
(* create_memory_node.                                                     *)

CreateNode ==
    /\ \E r \in Allocatable, c \in Contents : Create(r, NativeRevision(c, None, None))
    /\ UNCHANGED <<vault, edits, reviewers, scans, tools, asOf>>

-----------------------------------------------------------------------------
(* memory_node and review_memory_node.                                     *)

\* The workspace shows a node.
ShowNode(v) ==
    /\ reviewers[v].at = "idle"
    /\ \E r \in Stored :
          reviewers' = [reviewers EXCEPT ![v].at = "shown", ![v].record = r,
                                         ![v].shown = records[r].content]
    /\ UNCHANGED <<store, vault, edits, scans, tools, asOf>>

\* The request names the node and the decision, not the content that was shown.
SubmitReview(v) ==
    /\ reviewers[v].at = "shown"
    /\ \E d \in Decisions, e \in ReviewEvents, k \in ReviewKeys,
          p \in Records \cup {None} :
          LET outcome == ReviewOutcome(reviewers[v].record, d, e, k, p)
          IN  /\ reviewers' = [reviewers EXCEPT ![v].at = "done", ![v].event = e,
                                                ![v].reply = outcome]
              /\ \/ Review(reviewers[v].record, d, e, k, p)
                 \/ outcome # "reviewed" /\ UNCHANGED store
    /\ UNCHANGED <<vault, edits, scans, tools, asOf>>

-----------------------------------------------------------------------------
(* sync_obsidian_memory: index the vault, then store the index.            *)

Unasked ==
    [at |-> "idle", listed |-> {}, index |-> [l \in Locators |-> None], since |-> 0]

\* build_reviewed_obsidian_index lists the notes before it reads them.
ListNotes(s) ==
    /\ scans[s].at = "idle"
    /\ scans' = [scans EXCEPT ![s].at = "reading", ![s].since = edits,
                              ![s].listed = {l \in Locators : vault[l] # None}]
    /\ UNCHANGED <<store, vault, edits, reviewers, tools, asOf>>

\* A note that is gone by now is an issue, not a note.
ReadNote(s) ==
    /\ scans[s].at = "reading"
    /\ \E l \in scans[s].listed :
          /\ \A m \in scans[s].listed : l <= m
          /\ scans' = [scans EXCEPT ![s].listed = @ \ {l}, ![s].index[l] = vault[l]]
    /\ UNCHANGED <<store, vault, edits, reviewers, tools, asOf>>

StoreIndex(s) ==
    /\ scans[s].at = "reading" /\ scans[s].listed = {}
    /\ \E e \in SyncEvents, k \in SyncKeys :
          LET index == scans[s].index
              outcome == SyncOutcome(index, e, k)
          IN  /\ scans' = [scans EXCEPT ![s] = [Unasked EXCEPT !.at = "done"]]
              /\ \/ /\ \E fresh \in [NewNotes(index) -> Records] :
                           Sync(index, fresh, e, k)
                    /\ asOf' = scans[s].since
                 \/ outcome # "synchronized" /\ UNCHANGED <<store, asOf>>
    /\ UNCHANGED <<vault, edits, reviewers, tools>>

-----------------------------------------------------------------------------
(* The remember and correct tools.                                         *)

Identity(draft) == IdentityOf[<<draft.request, draft.tool>>]

Candidate(draft) == NativeRevision(draft.content, draft.target, draft.expected)

Answer(a, reply) == tools' = [tools EXCEPT ![a].at = "done", ![a].reply = reply]

ReceiveCall(a) ==
    /\ tools[a].at = "idle"
    /\ \E draft \in Drafts :
          tools' = [tools EXCEPT ![a].draft = draft,
                       ![a].at = IF draft.tool = "correct" THEN "check" ELSE "lookup"]
    /\ UNCHANGED <<store, vault, edits, reviewers, scans, asOf>>

\* A slip: the target only has to be there.
BindsStoredTarget(draft) == records[draft.target] # None

\* The correction names the current revision of its target.
BindsCurrentTarget(draft) ==
    /\ records[draft.target] # None
    /\ records[draft.target].content = draft.expected

CheckTarget(a) ==
    /\ tools[a].at = "check"
    /\ \/ /\ BindsCurrentTarget(tools[a].draft)
          /\ tools' = [tools EXCEPT ![a].at = "lookup"]
       \/ /\ ~BindsCurrentTarget(tools[a].draft)
          /\ Answer(a, "revision_conflict")
    /\ UNCHANGED <<store, vault, edits, reviewers, scans, asOf>>

\* A request that was served before is compared with what it created.
LookupCandidate(a) ==
    LET draft == tools[a].draft
        existing == records[Identity(draft)]
    IN  /\ tools[a].at = "lookup"
        /\ \/ existing = None /\ tools' = [tools EXCEPT ![a].at = "create"]
           \/ existing = Candidate(draft) /\ Answer(a, "candidate")
           \/ existing \notin {None, Candidate(draft)} /\ Answer(a, "request_conflict")
        /\ UNCHANGED <<store, vault, edits, reviewers, scans, asOf>>

CreateCandidate(a) ==
    LET draft == tools[a].draft
        outcome == CreateOutcome(Identity(draft), Candidate(draft))
    IN  /\ tools[a].at = "create"
        /\ \/ /\ Create(Identity(draft), Candidate(draft))
              /\ Answer(a, "candidate")
           \/ /\ outcome = "replayed" /\ Answer(a, "candidate")
              /\ UNCHANGED store
           \/ /\ outcome = "conflict" /\ Answer(a, "request_conflict")
              /\ UNCHANGED store
        /\ UNCHANGED <<vault, edits, reviewers, scans, asOf>>

-----------------------------------------------------------------------------

ServiceInit ==
    /\ Init
    /\ vault \in FirstVaults
    /\ edits = 0
    /\ reviewers = [v \in Reviewers |->
          [at |-> "idle", record |-> None, shown |-> None, event |-> None, reply |-> None]]
    /\ scans = [s \in Scanners |-> Unasked]
    /\ tools = [a \in Agents |-> [at |-> "idle", draft |-> None, reply |-> None]]
    /\ asOf = 0

ServiceNext ==
    \/ EditVault
    \/ CreateNode
    \/ \E v \in Reviewers : ShowNode(v) \/ SubmitReview(v)
    \/ \E s \in Scanners : ListNotes(s) \/ ReadNote(s) \/ StoreIndex(s)
    \/ \E a \in Agents :
          ReceiveCall(a) \/ CheckTarget(a) \/ LookupCandidate(a) \/ CreateCandidate(a)

ServiceSpec == ServiceInit /\ [][ServiceNext]_serviceVars

-----------------------------------------------------------------------------
(* Safety.                                                                 *)

Outcomes == {"not_found", "conflict", "invalid_transition", "replayed", "reviewed"}

Replies == {"candidate", "revision_conflict", "request_conflict"}

ReviewerState ==
    [at : {"idle", "shown", "done"}, record : Records \cup {None},
     shown : Contents \cup {None}, event : ReviewEvents \cup {None},
     reply : Outcomes \cup {None}]

ScanState ==
    [at : {"idle", "reading", "done"}, listed : SUBSET Locators,
     index : Snapshot, since : 0 .. MaxEdits]

ToolState ==
    [at : {"idle", "check", "lookup", "create", "done"},
     draft : Drafts \cup {None}, reply : Replies \cup {None}]

ServiceTypeOK ==
    /\ TypeOK
    /\ vault \in Snapshot
    /\ edits \in 0 .. MaxEdits
    /\ asOf \in 0 .. MaxEdits
    /\ reviewers \in [Reviewers -> ReviewerState]
    /\ scans \in [Scanners -> ScanState]
    /\ tools \in [Agents -> ToolState]
    /\ \A v \in Reviewers : reviewers[v].at # "idle" => reviewers[v].record \in Records
    /\ \A a \in Agents : tools[a].at # "idle" => tools[a].draft \in Drafts

Answered(a) == tools[a].at = "done" /\ tools[a].reply = "candidate"

\* A tool call that was answered "candidate" stands in the store exactly as it
\* was asked, for good: retries, other arguments under its request id and
\* synchronizations beside it never change what its client was told.
AnsweredCandidatesStand ==
    \A a \in Agents : Answered(a) =>
        records[Identity(tools[a].draft)] = Candidate(tools[a].draft)

\* docs/project-memory-contract.md line 86: a correction "points backward to
\* the exact revision it supersedes".  However the target moves on between
\* the check and the creation, or later, that revision can be read back.
CorrectionsReachTheirTarget ==
    \A r \in Stored : records[r].target # None =>
        VariantsOf(records[r].target, records[r].expected) # {}

\* If the user has not edited the vault since the scan stored last began, the
\* store mirrors it, whatever torn or late scans left behind before that one.
QuietSyncMirrorsVault ==
    (syncs # <<>> /\ asOf = edits) =>
        /\ \A l \in Locators : vault[l] # None =>
              /\ bindings[l] # None
              /\ bindings[l].content = vault[l]
              /\ records[bindings[l].record].content = vault[l]
        /\ \A r \in Stored : records[r].kind = "obsidian" =>
              (records[r].missing <=> \/ vault[records[r].locator] = None
                                      \/ records[r].content \in DeclaredMissing)

\* docs/memory-contract.md line 58: "Every decision is bound to the reviewed
\* content digest".  The code binds it to the digest it finds in the store
\* when the request arrives.
DecisionsBindTheReviewedText ==
    \A v \in Reviewers : reviewers[v].reply = "reviewed" =>
        \A i \in DOMAIN reviews :
            reviews[i].event = reviewers[v].event => reviews[i].content = reviewers[v].shown

=============================================================================
