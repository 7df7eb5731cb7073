# Oscillink Agent: a verification project

TLA+ specifications of the parts of Oscillink Agent that decide what the
product remembers, what it sends to a model and what a model may read, with
the TLC configurations that check them and TLAPS proofs about them.
Paths below are relative to the repository; `src/oscillink_agent` is left out
of most of them.

## The system

A local, Windows-first application: a FastAPI server in one process, SQLite
databases and a content-addressed artifact directory under one data root, a
read-only Obsidian vault, a browser client and an MCP server over stdio that
opens the same databases. FastAPI runs each blocking handler in a thread of a
pool, each request opens its own connections, and writes run under
`BEGIN IMMEDIATE`. So the unit of interleaving is one transaction, one
provider call or one file access, and the process may end between any two.

| Component | State | Operations | Hard behaviour |
| --- | --- | --- | --- |
| product memory repository (`memory/repository.py`) | current records, append-only revisions, review rows, source bindings, synchronization rows | `create_native`, `review`, `sync_obsidian`, reads | identity over renames and copies, authority per exact revision, retries |
| memory routes and service (`memory/routes.py`) | none of its own; reads the vault | review, create, synchronize | a snapshot or a reviewed text that is stale when it is stored |
| Obsidian indexer (`memory/obsidian.py`) | none | one scan of the vault | a scan torn by an editor |
| event ledger (`storage/sqlite.py`, `agent_runtime/repository.py`, `agent_runtime/contracts.py`) | events with unique ids and keys | `append`, `append_many`, lookups, `reconstruct_run` | replay against conflict, derived keys |
| agent runtime (`agent_runtime/service.py`) | locals of each request | `create_chat_message` | crashes around the provider call, concurrent sends, retries |
| capability loop and broker (`capabilities/`) | grants in `capabilities.sqlite3` | `decide_file_read_request`, `register_grant`, `execute_file_read` | decisions on stale inspections, single use, expiry |
| retrieval and context (`retrieval/`, `context/`) | none | rank, compile under a token budget | currency of what is selected, the edge of the budget, records left out in silence |
| MCP server (`integrations/mcp/server.py`) | none of its own | context, remember, correct, explain | check and create in separate transactions |
| proposals (`proposals/`) | proposal and decision events | list, decide | one decision per proposal, replays of it |
| artifact imports (`artifact_imports/`, `storage/imports.py`, `storage/artifacts.py`) | artifacts, import and association events | import and associate | a file edited between two sends, a crash between two events |
| workspace export and restore (`workspaces/export.py`) | bundle, staging, rollback and active directories | export, inspect, restore | copies at different times beside running requests, two renames, failures between them |
| storage migrations (`storage/migrations/`) | schema versions | migrate | none the program reaches (see below) |
| providers, domain, evaluation, status, health, API composition, web client | none that matters here | | |

Interactions: the runtime asks retrieval and the context compiler for approved
revisions, appends to the ledger, calls the provider and appends again. The
capability loop reads a run back from the ledger (`inspect`,
`reconstruct_run`), appends its decision, moves a grant through the broker's
store, reads a file and makes one follow-up call. Memory reviews and
synchronizations go on beside both. The MCP server uses the memory repository
of the same data root from another process. An import stores an artifact,
appends its outcome and a proposal that names a memory; a decision reads both
events back and appends the review of the proposal. An export copies the four
stores one after the other while all of this goes on; a restore replaces them
together.

What makes the parts correct: an exact revision's authority only moves along
the review lifecycle, and records keep their identity over vault changes; the
events of a run always read back as a run, an identity or a key names one
event; a message leaves for the model at most once per run and only when the
intent is durable; every answer a client got is the durable one; a
file is read only under a recorded human decision, once; a run comes to rest; a
query accounts for every stored record; a client is only told of an import or a
decision that is on record; no workspace, live, exported or set aside, has a
reference that leads nowhere, and a restore never loses the one it replaces.

## Modules

| Module | Models | Correspondence |
| --- | --- | --- |
| `MemoryRepository` | `SQLiteMemoryRepository` | one variable per table; one action per writing method (`CreateNative`, `ReviewRecord`, `SyncObsidian`), each one transaction. Calls that raise roll back and are no step; `CreateOutcome`, `ReviewOutcome` and `SyncOutcome` name how a call ends |
| `MemoryAuthority` | the abstract promise: a state machine per exact revision | what `MemoryRepository` implements, through `authority <- Standing` |
| `ObsidianNoteLoop` | the loop over notes in `_sync_obsidian_locked`, note by note, as a fold | the order-free definitions of `MemoryRepository` are checked against it |
| `ProjectMemory` | ranking eligibility and the MCP `explain` tool, over a repository state | operators only |
| `MemoryService` | the clients of the store: `memory/routes.py`, the vault scan of `memory/obsidian.py`, `remember` and `correct` of the MCP server | composes the repository with the vault and with one reviewer, scan or tool call per request; `at` is its place, each step one transaction or one file access |
| `EventLedger` | `SQLiteEventStore.append_many` and `reconstruct_run` | `ledger` is one sequence per run; `EntryOutcome` has the outcomes of `_append_one`, `Accepted`/`Extended` those of the transaction |
| `AgentRun` | `create_chat_message` | a thread per request; `at` is its place, one action per transaction or provider call |
| `CapabilityLoop` | `decide_file_read_request` and the broker, composed with the chats of `AgentRun` | the same threads, ledger and provider; `grants` is the broker's table |
| `RunContract` | the abstract promise about one run: its phases on record and the effects it may have in each | what `CapabilityLoop` implements: `Phase` reads the last event, the effects are counted in `calls` and `reads` |
| `ContextSelection` | `rank_memory_records`, `compile_context` with the validators of its manifest, and `_recall`, over a repository state | operators only; one turn of the budget loop is `Take`, the loop a fold |
| `ProvenanceLedger` | the two stores of imports and proposals: the ledger with artifact references and the unique index on reviews, and the artifact files | `events`, `artifacts`; `AppendOutcome` has the outcomes of `_append_one` |
| `ArtifactImports` | `import_artifact` with the importer of `storage/imports.py` | a thread per request; `at` is its place, each step one read of the file system or one transaction |
| `Proposals` | `decide_memory_proposal` and the projection of proposals | a thread per decision, over the same ledger as the imports |
| `WorkspaceRecovery` | `export_workspace` and `restore_workspace`, beside imports, decisions and the reads of the capability loop | composes all writers of the four stores with the steps of one export and one restore; `temporaries` are the files `put` has open |
| `MC*` | values of the constants for TLC | |
| `MemoryRepositoryProofs`, `ObsidianNoteLoopProofs`, `ContextSelectionProofs`, `MemoryServiceProofs`, `WorkspaceProofs`, `AgentRunProofs`, `CapabilityLoopProofs`, `RunContractProofs` | the theorems | each extends the module it is about; the first four build on the first, the last three on each other |

Places of a chat thread: `idle`, `compile` (key unused so far), `prepare`
(context chosen), `dispatch` (request, context and intent durable),
`generating` (call out), `finish` (outcome in hand), `done`. Of a decision
thread: `look` (inspected), `decide`, `register`, `claim`, `execute`, `read`,
`observe`, `load`, `followup`, `dispatch`, `generating`, `finish`, with `fail`
for a refusal on its way to the ledger. A thread that is killed is `crashed`:
nothing of it is left but what it committed. A restarted process has no state
but the stores, so a crash of the process is a crash of each of its threads,
and a request after it is another thread.

Places of an import: `open` (target resolved, key unused), `publish` (file
open), `record` (outcome in hand), `associate` (outcome on record). Of a
decision on a proposal: `project`, `append`, `confirm`. Of a read beside an
export: `put` (grant spent), `link` (temporary file written), `observe`. An
export counts the stores it has copied; 4 means the artifacts are listed. A
restore is `staged`, `away` (first rename done), `published` (second rename
done), then `done`, or `failed` or `crashed`.

Definitions whose comment starts with "A slip" are plausible bugs of the
operator after them. No specification uses them; they show which property
would notice.

Abstractions, beyond those in the headers of the modules:

- bytes, titles, texts and scopes are model values; a content is the bytes and
  so their digest. Vault locators are numbers in the order of the index, which
  is all the note loop uses;
- ranking and the token budget choose any subset of the approved revisions:
  what is checked holds for each choice;
- the clock is read as `Stamp`. `recorded_at` is the only field in which two
  sends of one request differ, so whether two threads can read the same time
  is a parameter. The passing runs give threads different stamps;
- keys are a client's key with the suffixes the handlers append, with their
  lengths: the limit of 128 characters and the keys that are spelled like a
  derived one are part of the model;
- a provider call ends in an answer, a tool request, a declared failure (one
  kind stands for `request`, `response` and `timeout`, which the handlers treat
  alike) or any other exception;
- file access ends in a read or a refusal; a grant may expire at any moment.

## Runs

| Run | Instance | What it shows |
| --- | --- | --- |
| `memory_reviews` | 3 records, 2 contents, 2 locators, 3 review keys and events, 2 synchronizations; in every state 2 queries, a budget of 3 tokens and every order of the identities | authority, supersession, lineage, kept revisions, refinement of `MemoryAuthority`; recall accounts for every record and spends the budget by rank |
| `obsidian_sync` | 5 records, 2 contents, 3 locators, 3 synchronizations | identity over renames, copies and ambiguous renames; the declarative synchronization equals the note loop |
| `memory_service` | 4 records (2 the store allocates, 2 derived from requests), 2 contents, 2 locators, 1 edit of the vault, 2 scans, 2 tool calls out of 3 drafts, 1 reviewer | answers of the tools stay true, corrections reach their target, an undisturbed synchronization mirrors the vault |
| `chat_runs` | 3 requests over 2 runs, 3 keys (one spelled like a derived key, one too long to derive from), crashes and memory changes | one dispatch per run, reconstructible runs, durable answers |
| `tool_runs` | 1 run, 3 decision requests out of 4 inputs, 3 tool requests (plain, without extension, of an unknown scope), crashes | authorized single reads, grounded follow-ups, refinement of `RunContract` |
| `tool_runs_rest` | 1 run, 1 decision, no crash | every run comes to rest |
| `workspace` | 2 imports of one file with and without a target under one id and key, 2 contents of the file, 2 decisions out of 3 on its association, 1 read, 1 export, 1 restore, crashes; at most 2 at work at once | durable answers, grounded associations, final decisions; live, exported and replaced workspaces are closed, grants stay spent, a restore loses nothing |

Why the bounds are enough for what they are asked: a supersession chain needs
three records to have a middle; an ambiguous rename needs two absent locators
with the bytes of a new note, hence three locators; a torn scan needs one edit
beside it, and its repair a second scan; two drafts under one request id make a
retry that differs; a race needs two requests
of one run and a late retry a third; the four decision inputs contain a
repetition, a reversal under one key, and another decision under another key.
A budget of 3 has room for both contents (2 tokens and 1) but not for the
longer one twice, so a record is left out before one that still fits. In
`workspace` two imports of one request and two contents are what it takes to
mix the artifact of one with the outcome of the other; the export counts as
one of the requests at work (`MaxInFlight`), so each writer meets it in every
position, and each pair of writers meets without it.
Symmetry is declared over identities that no operator compares by order
(records, events, keys, threads); it is not used in the run with liveness or
where a constant distinguishes a value.

Bounds of `WorkspaceRecovery` that are not constants: one bundle and one
restore, and the model stops at a restore that failed, died or kept its
rollback directory, because nothing after it changes what it kept. A restore
starts when nothing is at work: `docs/workspace-recovery.md` asks for a
maintenance window, and the code has no lock that would enforce one.

`CHECK_DEADLOCK FALSE`: every run is finite by its bounds (each request is
used once), and a system without requests rests.

Liveness uses weak fairness of each thread's own steps: a thread the operating
system does not kill runs on, and each provider adapter bounds its call by a
timeout. Nothing is assumed of clients, humans or the order of threads.

### Disagreements with the documentation

Five runs expect a violation.

- `explain_vs_retrieval`. A revision row that was stored before is not stored
  again (`INSERT OR IGNORE`, `memory/repository.py:336`), and `explain` reads the
  row stored last. A note that went missing and came back is selected by
  retrieval and explained as `missing_source`.
- `reviewed_text`. A review names a record and a decision, and the store binds
  it to the text it holds when the request arrives (`memory/repository.py:651`).
  `docs/memory-contract.md:58` says that every decision is bound to the reviewed
  digest: after a synchronization between the display and the decision it is
  another one.
- `coarse_clock`. When two sends of one message read the same time, the second
  transaction is an exact replay of the first (`storage/sqlite.py:135`) and both
  dispatch. `docs/build-plan.md:110` promises that ambiguous retries do not
  redispatch. System clocks that advance in steps of milliseconds make it
  possible; `chat_runs` shows that it is the only way.
- `overlapping_decisions`. The request is found pending by an inspection
  (`capabilities/service.py:233`) and the decision is appended later, with no
  check of the run's last event in that transaction. Two different decisions
  that overlap are both recorded, and the file is read twice or after a denial.
  The browser disables its buttons while a decision is under way
  (`apps/web/src/CapabilityApprovalPanel.tsx:94`), so `tool_runs` takes
  `Overlap = FALSE` and shows what holds then.
- `follow_ups_settle`. The follow-up call records declared failures only
  (`capabilities/service.py:457`); the first call records any exception as an
  interruption. Another exception leaves the run in progress for good.

## Proofs

`MemoryRepositoryProofs` proves, for all sets of records, contents, locators,
events and keys, every property the two memory runs check except the three
about loops, which the two modules after it prove. The assumptions are those in
`MemoryRepository`: allocatable identities are identities, locators are
naturals, `None` is none of the values. `Records` need not be finite.

- `TypeCorrect`: the type invariant is inductive once the helpers are typed
  (`SyncedBindingsType`, `SyncedRecordType`); the point is that a rename finds
  exactly one origin, so that the owner of a note is a record (`OwnerOfNote`).
- `ReviewLifecycleHolds`, `SupersessionGroundedHolds`: inductive with
  `TypeOK` and `LatestRowExists` (a decided revision has a latest row, which
  ties `Decided` to the sequence of rows); `ReviewInv` is their conjunction.
- `RefinesAuthority`: under `ReviewInv` a review moves the standing of exactly
  one revision (`ReviewMovesOneStanding`), by a step of `MemoryAuthority`; a
  creation or a synchronization moves none.
- `BindingsMirrorRecordsHolds`: with `TypeOK` it is inductive. The core is
  `OneLocatorPerRecord`: in one synchronization no record ends up with two
  locators, because a rename needs a single origin that is absent from the
  snapshot. `IdentityFollowsSourceHolds` and `SourceStatusHolds` rest on it.
- `DecidedRevisionsKept`: revision rows only grow (`RevisionsOnlyGrow`), and a
  review is bound to a current revision, which has a row.
- `NativeLineageHolds`: needs `NativeRows` (a native record's reviews are bound
  to its one revision, because synchronizations leave it alone), so an approval
  of a replacement can only end by a later supersession (`ApprovalStays`).

`ObsidianNoteLoopProofs` and `ContextSelectionProofs` prove the properties about
loops that the models write as folds, each by induction over the places of the
sequence that is folded. The induction theorems of the library take the property
as an operator; here it is the set of those numbers, or of those subsets of a
finite set, that have it (`UpTo`, `UpToSet`), and the induction comes from the
least element the library proves to exist. `Sortable` and `NumberingIsOnto` say
that a finite set with an order has the numbering that `NotesInOrder` and
`Ranked` choose; both modules choose it by its description, since the sorting
operator of the library is one the prover does not know.

- `SyncDoesTheNoteLoop` supposes finitely many locators. `NoteLoop` unfolds
  `FoldLeft` into a value after each note. The invariant is `After`: the notes
  passed are bound to their owners, and an origin that one of them took over is
  bound no longer. One turn keeps it (`NoteStepAdds`), because what the turn
  finds at absent locators is one origin exactly when the note is a rename
  (`OriginsLeft`): an earlier note with the same bytes has already taken it.
  `OneLocatorPerRecord` of `MemoryRepositoryProofs` says that no note undoes what
  another wrote, and `MarkedIsSynced` does the second loop.
- `RecallAlwaysAccounts` and `BudgetAlwaysGoesByRank` suppose finitely many
  records. `TokensAdd` is the fact about `TokensIn` they need: its sum does not
  depend on the order of the fold. `SelectionInv` is the invariant of the loop:
  items and omissions divide the records seen so far, the total is the sum over
  the items, and each record seen was omitted exactly when it did not fit beside
  the items before it. `EligibleIsRetrievable` rests on `LatestRowExists`: without
  it, a decided revision would have no standing.

`MemoryServiceProofs` proves every property of `memory_service`, for any number
of clients, drafts and edits. Its assumptions are about constants: a draft is
well formed, derived identities are distinct and never allocated.

- `ServiceTypeCorrect` and `ServiceImplementsRepository` go together: typed
  clients take only steps of the repository (`StoreStep`), so `ServiceSpec`
  implies `Spec` and everything above holds of a workspace in use.
- `AnsweredCandidatesStandHolds`: a candidate is a native record, which no step
  changes (`IdentityStep`).
- `CorrectionsReachTheirTargetHolds`: the strengthening `CheckedTargetsAreKept`
  says that what a call found at its check is still in the revision table when
  it creates; it follows from `DecidedRevisionsKept` and `RevisionsOnlyGrow`.
- `QuietSyncMirrorsVaultHolds`: the strengthening `ScansFollowVault` says that a
  scan without an edit beside it agrees with the vault on what it has read, and
  that the snapshot stored last, if it is of such a scan, is the vault.
  `SourceStatusHolds` and `BindingsMirrorRecordsHolds` do the rest.

`WorkspaceProofs` proves every property of `workspace`, for any number of
imports, decisions and reads, any requests, contents and targets, and any
number of requests at work. The assumptions are those of `ArtifactImports` and
`Proposals`: requests name targets that may exist, verdicts are the two, and
`None` is no reply. Ids and keys of requests may be shared and repeated at will.

The inductive invariant `IInv` has five parts. `Sound(Live)`: the ledger has
one event per id, one review per proposal, a cause for every event, a target
for every association and a spent grant and an artifact for whatever refers to
one. `ClientsTyped` and `ClientsKnow`: what a client holds in its locals or was
told is on record (`Imported`, `Associated`, `OnRecord`). `ExportInv`: what an
export has copied is a part of the live workspace, and closed as far as it got:
towards the memory after two copies, the grants after three, the artifacts once
they are listed. `RestoreInv`: where the replaced workspace is in each phase.

- Requests only add (`RequestKeeps`, `Grows`), so what a client knows stays true
  (`OthersKeepKnowing`) and what was copied earlier stays a part of what is
  copied later. `AppendKeepsSound` does the work of every append.
- `ImportAnswersDurable` and `AssociationsGrounded`: a thread at `associate`
  knows its import (`RecordOutcomeKeeps`); the association it appends names it.
- `DecisionsFinal`: the unique index keeps `Sound`, hence the second projection
  finds the verdict that was appended (`VerdictShows`): the handler's check that
  it does is never the branch taken.
- `WorkspacesClosed` and `GrantsSpent`: from `PublishBundleSound`. They need the
  order of the copies: the ledger first, the artifacts last.
- `RestoreLossless`: the only steps that do not grow are those of a restore, and
  then no client is at work (`Quiet`) and none knows anything (`StartOver`).

`AgentRunProofs` proves every property of `chat_runs`, for any number of
requests, runs, keys, memories and answers, with crashes and with memory that
changes. The assumptions are those of the modules (a request names a run and a
key, no client key is longer than the limit, chats and decisions are different
threads) and one hypothesis of every theorem:

- `DistinctStamps`: no two threads read the same time. `coarse_clock` shows that
  it is needed: the transactions of two sends are told apart by `recorded_at`
  alone, so with equal times both dispatch. It says nothing of which thread is
  first, and the keys, ids and inputs of requests may be shared at will.

The invariant is `ChatInv`. `LedgerInv` is its part about the stores: runs are
sequences of recorded events (`LedgerOfSequences`), the event at each place of a
run has one of the operations of that place and is caused by the one before it,
no transaction leaves a run half written (`Trajectories`), an id and a key name
one event (`UniqueEvents`), and every recorded key was accepted (`KeysFit`).
`ThreadInv` is its part about the threads: a thread past `prepare` wrote the
last event of its run, and nobody has written after it (`OwnsRun`); an answer it
gave is the last event (`AnswerStands`).

- `AcceptedMeansNew` is where the clock enters: a transaction that commits is
  new as a whole, since an exact replay would need the stamp of another thread.
  `TransactionLedger` then keeps `LedgerInv` over every append of every handler.
- `TransactionKeeps`: a step of one thread leaves what the others rely on
  (`Extends`: runs only grow, a settled run not at all, and a chat takes no run
  beyond five events). With it each action has one lemma (`DispatchKeeps`,
  `ChatFinishKeeps`, ...), and `ChatNextInv` puts them together.
- `LedgerStaysIntact`, `RunsAlwaysReconstruct`, `AtMostOneDispatch`,
  `AnswersStayDurable` and `SettledRunsAlwaysStay` follow from `ChatInv`.

`CapabilityLoopProofs` proves every property of `tool_runs` that is an
invariant or an action property, for any number of chats, deciders, decisions
and tools. It has one more hypothesis:

- `~Overlap`: only repetitions of one decision are under way together. It is the
  browser's promise (`apps/web/src/CapabilityApprovalPanel.tsx:94`) and not the
  server's; `overlapping_decisions` shows that the properties fail without it.

The invariant is `Inv`: `ChatInv`, and `DecideInv` for what decisions add. What
a decider inspected is still a beginning of the run, and a decision that got in
between was sent under the same key (`SeenStands`): hence the append of a stale
decision is refused. From its decision on a decider wrote the last event of the
run (`OwnsTail`) and holds its grant (`OwnsGrant`); what it has read and sent so
far is a function of its place (`EffectsInPlace`); a read stands behind a claim
and a used grant (`ReadClaimed`), a follow-up call behind its intent and its
read (`FollowUpRecorded`).

- `StepKeeps` reduces a step to the part of its thread: `Respects` says what
  others rely on, `OwnPart` what the thread has to show for itself. Every action
  has a lemma; `NextEvent` does the work of those that append one event.
- `OneReader` is the reason for `AtMostOneRead`: who reads for a run wrote its
  seventh event, and that has one stamp.

`RunContractProofs` proves that `CapabilityLoop` implements `RunContract`
(`RunsKeepTheirContract`). The refinement mapping reads the phase of a run from
its last event and counts its calls and reads. `PhaseNow` gives the phase from
the place and the operation of that event, `Effects` says that no effect
happened twice, and then each action that writes, calls or reads is shown to be
one action of the contract (`PrepareAsks`, `DispatchSends`, ...), or to be
refused by the ledger and to leave the runs alone (`QuietStep`).

Some definitions of the models have the form they have for the proofs.
`Extended` builds a run with `Inserted`, a comprehension over the places of a
transaction, where a filter of the sequence would be recursive. `GrantRows` names
the type of the broker's table. `Ranked` and `NotesInOrder` choose a sequence by
its order instead of calling a sorting operator. The assumptions
`ChatInputsAssumption` and `DecideInputsAssumption` say of the constants what the
request models of the code validate, `NoneAssumption`, `NoRowAssumption` and
`NoneIsNoManifest` that the empty values are none of the others; TLC evaluates
them on every run.

Model-checked only: the liveness property `RunsComeToRest`. The prover has no
rules for fairness and `ENABLED`. Every invariant, action property and refinement
of a passing run is proved.

## Plan

Done: every module of the table, checked; every invariant, action property and
refinement the passing runs check, proved. Next, in this order:

1. `overlapping_decisions` in the abstract: which properties of a run survive
   decisions that overlap, and the weakest hypothesis for the others.
2. What `RunsComeToRest` needs that is not liveness: that from every state in
   which a thread is at work one of its steps is permitted.
3. A reviewer that repeats a request in `MemoryService`, once it is settled what
   the repetition of a review of an older revision should be told.

## Not modelled

- Storage migrations. The stores compare their one schema version and refuse
  another; `apply_sqlite_migrations` is called by a test and by nothing of the
  program.
- Workspace credentials (`workspaces/service.py`): one comparison, no state.
- Parsing of Markdown and frontmatter, the projection of memory for the browser,
  evaluation reports, status and health, the wiring in `api.py`, the HTTP
  exchange with providers and the browser's own state: text processing, pure
  rendering, or input and output, without state that another part relies on.
- Domain models: validated records. What their validators refuse appears where
  a handler can run into it (`KeyValid`, `ValidManifest`).
- Associations of imports with notes of the vault index: the target of an import
  is a product record here. The replacement of an existing export, which only a
  test asks for.
- That an export succeeds. A temporary file of `put` in the artifact directory
  makes an export fail (`workspaces/export.py:158`), and one that a crash left
  there makes every later one fail until it is removed, although
  `docs/workspace-recovery.md:28` says that unknown files are excluded.
  `WorkspaceRecovery` has the behaviour (`temporaries`, `ExportStops`); success
  would be a promise to a client that tries again, and no client does.
- Bytes that rot in a store, and hashes that would notice.
