--------------------------- MODULE WorkspaceRecovery ---------------------------
(***************************************************************************)
(* Export and restore of a whole workspace: export_workspace and           *)
(* restore_workspace of src/oscillink_agent/workspaces/export.py, beside   *)
(* the requests that write its stores: imports, proposal decisions and the *)
(* reads of the capability loop.                                           *)
(*                                                                         *)
(* An export copies the databases one after the other, each in one         *)
(* transaction, then the artifacts one by one, while requests go on.  A    *)
(* restore replaces the whole directory in two renames.  Either may fail   *)
(* or die in between.                                                      *)
(*                                                                         *)
(* Environment.  docs/workspace-recovery.md: a restore is done in a        *)
(* maintenance window, so no request is in flight from its start to its    *)
(* end.                                                                    *)
(*                                                                         *)
(* Data abstraction.  A workspace is its event ledger, its memory records, *)
(* its spent grants and its artifacts.  Hashes, manifests and versions are *)
(* left out: a bundle is what was copied.  One export and one restore.     *)
(***************************************************************************)
EXTENDS Proposals, Integers, Sequences

CONSTANTS Reads,         \* threads that read one file for the agent under one grant
          MaxInFlight    \* bound of the model: requests at work at once

VARIABLES spent,        \* grants of the capability database that are used up
          reads,        \* thread -> its place between the claim and the observation
          temporaries,  \* threads whose temporary file lies beside the artifacts
          export,       \* the export: its place and what it has copied
          bundle,       \* the published export, or None
          restore,      \* the restore: its place and the workspace it replaces
          aside         \* the rollback directory, or None

storeVars == <<events, memory, spent, artifacts>>

clientVars == <<imports, decisions, reads, temporaries>>

recoveryVars == <<export, bundle, restore, aside>>

vars == <<proposalVars, spent, reads, temporaries, recoveryVars>>

Workspace(e, m, s, a) == [events |-> e, memory |-> m, spent |-> s, artifacts |-> a]

Live == Workspace(events, memory, spent, artifacts)

Empty == Workspace({}, {}, {}, {})

LiveBecomes(w) ==
    /\ events' = w.events /\ memory' = w.memory
    /\ spent' = w.spent /\ artifacts' = w.artifacts

-----------------------------------------------------------------------------
(* A read of the capability loop, from its claim to its observation.       *)

GotoRead(t, place) == reads' = [reads EXCEPT ![t] = place]

\* The observation of thread t; its artifact is a content of its own.
Observation(t) ==
    [id |-> <<t, "observation">>, key |-> <<t, "observation">>, op |-> "observation",
     parent |-> None, artifact |-> t, about |-> None, detail |-> None]

\* The broker marks the grant consumed and reads the file.
SpendGrant(t) ==
    /\ reads[t] = "idle"
    /\ GotoRead(t, "put")
    /\ spent' = spent \cup {t}
    /\ UNCHANGED <<proposalVars, temporaries>>

\* put opens a temporary file in the directory of the address.
OpenTemporary(t) ==
    /\ reads[t] = "put"
    /\ GotoRead(t, "link")
    /\ temporaries' = temporaries \cup {t}
    /\ UNCHANGED <<proposalVars, spent>>

\* put links the complete file to its address and removes the temporary name.
LinkArtifact(t) ==
    /\ reads[t] = "link"
    /\ GotoRead(t, "observe")
    /\ artifacts' = Published(t)
    /\ temporaries' = temporaries \ {t}
    /\ UNCHANGED <<events, memory, imports, decisions, spent>>

\* Whether or not the ledger takes it, the read is over.
RecordObservation(t) ==
    /\ reads[t] = "observe"
    /\ events' = Appended(Observation(t), AppendOutcome(Observation(t), FALSE))
    /\ GotoRead(t, "done")
    /\ UNCHANGED <<artifacts, memory, imports, decisions, spent, temporaries>>

\* A thread that dies between two steps of put leaves its temporary file.
ReadCrash(t) ==
    /\ MayCrash
    /\ reads[t] \notin {"idle", "done"}
    /\ GotoRead(t, "done")
    /\ UNCHANGED <<proposalVars, spent, temporaries>>

ReadStep(t) ==
    \/ SpendGrant(t) \/ OpenTemporary(t) \/ LinkArtifact(t)
    \/ RecordObservation(t) \/ ReadCrash(t)

-----------------------------------------------------------------------------
(* export_workspace.                                                       *)

NoExport == [at |-> 0, copy |-> Empty, listed |-> {}, leftovers |-> {}]

\* A slip: the memory database is copied before the ledger.
StoreOrderMemoryFirst == <<"memory", "events", "spent">>

\* A slip: the capability database is copied before the ledger.
StoreOrderGrantsFirst == <<"spent", "events", "memory">>

\* _DATABASES: the order in which the databases are backed up.
StoreOrder == <<"events", "memory", "spent">>

\* _backup_sqlite: the next database, in one transaction.
BackUpStore ==
    /\ bundle = None
    /\ export.at < Len(StoreOrder)
    /\ LET store == StoreOrder[export.at + 1]
       IN  export' = [export EXCEPT !.at = @ + 1, !.copy[store] = Live[store]]
    /\ UNCHANGED <<storeVars, clientVars, bundle, restore, aside>>

CopyingArtifacts == export.at = Len(StoreOrder) + 1

\* The artifact directories are listed.
ListArtifacts ==
    /\ export.at = Len(StoreOrder)
    /\ export' = [export EXCEPT !.at = @ + 1, !.listed = artifacts,
                                !.leftovers = temporaries]
    /\ UNCHANGED <<storeVars, clientVars, bundle, restore, aside>>

\* Artifacts never change, so they are as good as copied when the manifest is
\* written and the staging directory gets its final name.  What was there when
\* the listing began is copied for certain, what arrived meanwhile may be.  A
\* temporary file that stayed from the listing on would have been found.
PublishBundle ==
    /\ CopyingArtifacts
    /\ export.leftovers \cap temporaries = {}
    /\ \E late \in SUBSET (artifacts \ export.listed) :
          bundle' = [export.copy EXCEPT !.artifacts = export.listed \cup late]
    /\ export' = NoExport
    /\ UNCHANGED <<storeVars, clientVars, restore, aside>>

\* The export finds a temporary file in the artifact store, or its process
\* dies: what was staged is dropped, or left where nothing looks for it.
ExportStops ==
    /\ \/ CopyingArtifacts /\ export.leftovers \cup temporaries # {}
       \/ export.at # 0 /\ MayCrash
    /\ export' = NoExport
    /\ UNCHANGED <<storeVars, clientVars, bundle, restore, aside>>

ExportStep == BackUpStore \/ ListArtifacts \/ PublishBundle \/ ExportStops

-----------------------------------------------------------------------------
(* restore_workspace.                                                      *)

NoRestore == [at |-> "idle", before |-> None]

GotoRestore(place) == restore' = [restore EXCEPT !.at = place]

Busy ==
    {t \in Imports : imports[t].at \notin {"idle", "done"}}
    \cup {t \in Deciders : decisions[t].at \notin {"idle", "done"}}
    \cup {t \in Reads : reads[t] \notin {"idle", "done"}}

InFlight == Cardinality(Busy) + IF export.at = 0 THEN 0 ELSE 1

Quiet == Busy = {} /\ export.at = 0

\* Requests are served before the maintenance window and after a restore that
\* is done.  (A bound of the model: it stops at a restore that failed, died or
\* could not delete the rollback directory, where nothing is left to change
\* what it kept.)
Serving == restore.at = "idle" \/ (restore.at = "done" /\ aside = None)

\* Answers from before a restore are about the workspace it replaced.
ClientsStartOver ==
    /\ imports' = [t \in Imports |->
          IF imports[t].at = "done" THEN [Idle EXCEPT !.at = "done"] ELSE imports[t]]
    /\ decisions' = [t \in Deciders |->
          IF decisions[t].at = "done" THEN [Undecided EXCEPT !.at = "done"]
          ELSE decisions[t]]
    /\ UNCHANGED <<reads, temporaries>>

\* The bundle is inspected, copied to a sibling directory and checked there.
StageRestore ==
    /\ restore.at = "idle" /\ bundle # None /\ Quiet
    /\ restore' = [at |-> "staged", before |-> Live]
    /\ UNCHANGED <<storeVars, clientVars, export, bundle, aside>>

\* A slip: the active directory is emptied to make room.
SetAsideNothing == Empty

SetAside == Live

\* os.replace(active, backup): there is no active workspace.  Stores that are
\* opened there now would be empty.
MoveAway ==
    /\ restore.at = "staged"
    /\ LiveBecomes(Empty)
    /\ aside' = SetAside
    /\ ClientsStartOver
    /\ GotoRestore("away")
    /\ UNCHANGED <<export, bundle>>

\* os.replace(staging, active).
MoveIn ==
    /\ restore.at = "away"
    /\ LiveBecomes(bundle)
    /\ temporaries' = {}
    /\ GotoRestore("published")
    /\ UNCHANGED <<imports, decisions, reads, export, bundle, aside>>

\* The second rename fails: the workspace is renamed back.
PutBack ==
    /\ restore.at = "away"
    /\ LiveBecomes(aside)
    /\ aside' = None
    /\ GotoRestore("failed")
    /\ UNCHANGED <<clientVars, export, bundle>>

\* The first rename fails, or a check before it: nothing has changed.
RestoreRefused ==
    /\ restore.at = "staged"
    /\ GotoRestore("failed")
    /\ UNCHANGED <<storeVars, clientVars, export, bundle, aside>>

\* The rollback directory is deleted; an error of that is suppressed.
DropAside ==
    /\ restore.at = "published"
    /\ aside' \in {None, aside}
    /\ restore' = [at |-> "done", before |-> None]
    /\ UNCHANGED <<storeVars, clientVars, export, bundle>>

\* The process dies and is started again.
RestoreCrash ==
    /\ MayCrash
    /\ restore.at \in {"staged", "away", "published"}
    /\ temporaries' = IF restore.at = "away" THEN {} ELSE temporaries
    /\ GotoRestore("crashed")
    /\ UNCHANGED <<storeVars, imports, decisions, reads, export, bundle, aside>>

RestoreStep ==
    \/ StageRestore \/ MoveAway \/ MoveIn \/ PutBack \/ RestoreRefused
    \/ DropAside \/ RestoreCrash

-----------------------------------------------------------------------------

Init ==
    /\ ProposalInit
    /\ spent = {} /\ reads = [t \in Reads |-> "idle"] /\ temporaries = {}
    /\ export = NoExport /\ bundle = None
    /\ restore = NoRestore /\ aside = None

Request ==
    \/ ProposalNext /\ UNCHANGED <<spent, reads, temporaries, recoveryVars>>
    \/ \E t \in Reads : ReadStep(t) /\ UNCHANGED recoveryVars

Next ==
    \/ Serving /\ (Request \/ ExportStep) /\ InFlight' <= MaxInFlight
    \/ RestoreStep

Spec == Init /\ [][Next]_vars

-----------------------------------------------------------------------------
(* Safety.                                                                 *)

ImportPlaces ==
    {"idle", "open", "publish", "record", "associate", "done"}

RecoveryTypeOK ==
    /\ \A e \in events : e.artifact \in Contents \cup Reads \cup {None}
    /\ artifacts \subseteq Contents \cup Reads
    /\ memory \subseteq Targets /\ spent \subseteq Reads
    /\ temporaries \subseteq Reads
    /\ \A t \in Imports :
          /\ imports[t].at \in ImportPlaces
          /\ imports[t].at = "associate" => imports[t].request.target \in memory
    /\ export.at \in 0 .. Len(StoreOrder) + 1
    /\ export.listed \subseteq artifacts

\* The references of a workspace lead somewhere: the artifact of every event
\* is stored, its cause is on record and an association finds its target.
Closed(w) ==
    \A e \in w.events :
        /\ e.artifact # None => e.artifact \in w.artifacts
        /\ e.parent # None => \E p \in w.events : p.id = e.parent
        /\ e.op = "association" => e.about \in w.memory

\* Whatever is written while the parts of an export are copied one after the
\* other, no bundle, no restored workspace and no live one has a reference
\* that leads nowhere.
WorkspacesAreClosed ==
    /\ Closed(Live)
    /\ bundle # None => Closed(bundle)
    /\ aside # None => Closed(aside)

\* "Reuse fails after restart": a workspace that shows what was read under a
\* grant shows the grant as used up, also when it is restored from a bundle
\* whose parts were copied at different times.
GrantsStaySpent ==
    \A w \in {Live, bundle} \ {None} :
        \A e \in w.events : e.op = "observation" => e.artifact \in w.spent

Contains(w, v) ==
    /\ v.events \subseteq w.events /\ v.memory \subseteq w.memory
    /\ v.spent \subseteq w.spent /\ v.artifacts \subseteq w.artifacts

\* "A malformed or corrupt bundle never partially replaces the active
\* workspace": from its start until it is done, and after any failure or
\* crash in it, the replaced workspace is whole, in place or in the rollback
\* directory; a restore that is done has put the whole bundle in its place.
RestoreLosesNothing ==
    /\ restore.at \in {"staged", "away", "published", "failed", "crashed"} =>
          restore.before = aside \/ Contains(Live, restore.before)
    /\ restore.at \in {"published", "done"} => Contains(Live, bundle)

=============================================================================
