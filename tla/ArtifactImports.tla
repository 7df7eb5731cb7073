--------------------------- MODULE ArtifactImports ---------------------------
(***************************************************************************)
(* Governed file imports: import_artifact of                               *)
(* src/oscillink_agent/artifact_imports/service.py with the importer of    *)
(* src/oscillink_agent/storage/imports.py.                                 *)
(*                                                                         *)
(* Each request runs in a thread of its own.  It reads a file that its     *)
(* owner may edit, publishes the content, appends the outcome of the       *)
(* import and, when it names a memory, appends a proposal to associate the *)
(* two.  The last two are separate transactions; other threads, edits and  *)
(* a crash may come between any two steps.                                 *)
(*                                                                         *)
(* Data abstraction.  A source is a scope with a target path.  Its owner   *)
(* edits it at any time, so a copy of it may have any content.  Failures   *)
(* whose code a replay can name (an unavailable source, an unknown scope,  *)
(* a rejected path, extension or size) are one outcome, "refused"; those   *)
(* it cannot (a length that changed, a failed read) are "broken".  Request *)
(* ids stand for the fields sent with them.  A target is a product record; *)
(* associations with notes of the vault index are left out.                *)
(***************************************************************************)
EXTENDS ProvenanceLedger

CONSTANTS Imports,          \* threads that run one import request
          ImportRequests,   \* [id, key, source, target]
          Sources, Contents, Targets,
          MayCrash          \* the process may die in the middle of a request

ASSUME ImportRequestsAssumption ==
    \A r \in ImportRequests : r.source \in Sources /\ r.target \in Targets \cup {None}

\* A client without an answer has been told nothing.
ASSUME NoneAssumption == None \notin {"imported", "resolved", "not_projected"}

VARIABLES memory,    \* records of the product memory, by identity
          imports    \* thread -> its place in the handler and its locals

importVars == <<events, artifacts, memory, imports>>

Idle ==
    [at |-> "idle", request |-> None, content |-> None, outcome |-> None,
     reply |-> None, artifact |-> None]

AssociationId(id) == <<id, "association">>

AssociationKey(key) == <<key, "association">>

-----------------------------------------------------------------------------
(* Events.                                                                 *)

\* _outcome_event: the success names its artifact and whether it was new.
OutcomeEvent(t) ==
    LET r == imports[t].request
        stored == imports[t].outcome \in {"new", "known"}
    IN  [id |-> r.id, key |-> r.key, op |-> IF stored THEN "import" ELSE "import_failed",
         parent |-> None, artifact |-> IF stored THEN imports[t].content ELSE None,
         about |-> r.source, detail |-> imports[t].outcome]

AssociationEvent(t) ==
    LET r == imports[t].request
    IN  [id |-> AssociationId(r.id), key |-> AssociationKey(r.key),
         op |-> "association", parent |-> r.id, artifact |-> imports[t].content,
         about |-> r.target, detail |-> "pending_review"]

\* _import_event_matches_request.
Matches(e, r) ==
    e.id = r.id /\ e.op \in {"import", "import_failed"} /\ e.about = r.source

\* The association a replay of request r with import event e looks for.
AssociationStands(e, r) ==
    \E a \in EventsWithKey(AssociationKey(r.key)) :
        /\ a.id = AssociationId(r.id) /\ a.op = "association"
        /\ a.parent = r.id /\ a.artifact = e.artifact /\ a.about = r.target

\* A slip: a replay does not look for the association.
ReplayOfAlone(e, r) ==
    IF ~Matches(e, r) THEN "idempotency_conflict"
    ELSE IF e.op = "import_failed"
         THEN IF e.detail = "refused" THEN "refused" ELSE "idempotency_conflict"
    ELSE "imported"

\* What a request is told whose key belongs to event e already.  An import
\* that failed for a reason no replay can name, and one whose association is
\* not on record (its thread died before it), are conflicts for good.
ReplayOf(e, r) ==
    IF ~Matches(e, r) THEN "idempotency_conflict"
    ELSE IF e.op = "import_failed"
         THEN IF e.detail = "refused" THEN "refused" ELSE "idempotency_conflict"
    ELSE IF r.target = None
         THEN IF EventsWithKey(AssociationKey(r.key)) = {}
              THEN "imported" ELSE "idempotency_conflict"
    ELSE IF AssociationStands(e, r) THEN "imported" ELSE "idempotency_conflict"

-----------------------------------------------------------------------------
(* import_artifact.                                                        *)

Goto(t, place) == imports' = [imports EXCEPT ![t].at = place]

\* The client is told of an artifact, or of an error without one.
Answer(t, request, artifact) ==
    imports' = [imports EXCEPT ![t] =
       [Idle EXCEPT !.at = "done", !.request = request,
                    !.reply = "imported", !.artifact = artifact]]

Refuse(t, reply) ==
    imports' = [imports EXCEPT ![t] = [Idle EXCEPT !.at = "done", !.reply = reply]]

\* A slip: a target that does not exist is not noticed.
ResolvesLater(r) == TRUE

\* The target, when there is one, is a stored record.
Resolves(r) == r.target \in memory \cup {None}

\* The target is resolved, then the key is looked up, then the association of
\* an import that is found.  Records and events are never removed, so the
\* three reads are as good as one.
LookUp(t) ==
    /\ imports[t].at = "idle"
    /\ \E r \in ImportRequests :
          \/ /\ ~Resolves(r)
             /\ Refuse(t, "node_not_found")
          \/ /\ Resolves(r) /\ EventsWithKey(r.key) = {}
             /\ imports' = [imports EXCEPT ![t].at = "open", ![t].request = r]
          \/ /\ Resolves(r)
             /\ \E e \in EventsWithKey(r.key) :
                   IF ReplayOf(e, r) = "imported" THEN Answer(t, r, e.artifact)
                   ELSE Refuse(t, ReplayOf(e, r))
    /\ UNCHANGED <<events, artifacts, memory>>

\* import_selected opens the file and takes its size, or is refused.  A scope
\* whose directory is gone is found out before, and caught nowhere.
OpenSource(t) ==
    /\ imports[t].at = "open"
    /\ \/ Goto(t, "publish")
       \/ imports' = [imports EXCEPT ![t].at = "record", ![t].outcome = "refused"]
       \/ Refuse(t, "error")
    /\ UNCHANGED <<events, artifacts, memory>>

\* put_stream copies the file and links the copy to its address.  A file whose
\* length is not the one it had when it was opened gives no copy.
PublishSource(t) ==
    /\ imports[t].at = "publish"
    /\ \/ \E content \in Contents :
             /\ artifacts' = Published(content)
             /\ imports' = [imports EXCEPT
                   ![t].at = "record", ![t].content = content,
                   ![t].outcome = IF content \in artifacts THEN "known" ELSE "new"]
       \/ /\ imports' = [imports EXCEPT ![t].at = "record", ![t].outcome = "broken"]
          /\ UNCHANGED artifacts
    /\ UNCHANGED <<events, memory>>

\* Where a request goes after its outcome is on record.
AfterRecord(t) ==
    IF imports[t].outcome = "refused" THEN Refuse(t, "refused")
    ELSE IF imports[t].outcome = "broken" THEN Refuse(t, "error")
    ELSE IF imports[t].request.target = None
         THEN Answer(t, imports[t].request, imports[t].content)
    ELSE Goto(t, "associate")

\* import_and_record appends the outcome.  A refusal of the ledger is caught
\* nowhere: the client gets an error.
RecordOutcome(t) ==
    /\ imports[t].at = "record"
    /\ \E sameTick \in BOOLEAN :
          LET outcome == AppendOutcome(OutcomeEvent(t), sameTick)
          IN  /\ events' = Appended(OutcomeEvent(t), outcome)
              /\ IF Committed(outcome) THEN AfterRecord(t) ELSE Refuse(t, "error")
    /\ UNCHANGED <<artifacts, memory>>

\* The proposal to associate the artifact with the target.
ProposeAssociation(t) ==
    /\ imports[t].at = "associate"
    /\ \E sameTick \in BOOLEAN :
          LET outcome == AppendOutcome(AssociationEvent(t), sameTick)
          IN  /\ events' = Appended(AssociationEvent(t), outcome)
              /\ IF Committed(outcome)
                 THEN Answer(t, imports[t].request, imports[t].content)
                 ELSE Refuse(t, "error")
    /\ UNCHANGED <<artifacts, memory>>

\* The process dies, or a thread of it is killed: the client gets no answer.
ImportCrash(t) ==
    /\ MayCrash
    /\ imports[t].at \notin {"idle", "done"}
    /\ Refuse(t, "error")
    /\ UNCHANGED <<events, artifacts, memory>>

\* A memory record is created; none is ever removed.
RecordCreated ==
    /\ \E target \in Targets : memory' = memory \cup {target}
    /\ UNCHANGED <<events, artifacts, imports>>

ImportInit ==
    /\ events = {} /\ artifacts = {} /\ memory = {}
    /\ imports = [t \in Imports |-> Idle]

ImportStep(t) ==
    \/ LookUp(t) \/ OpenSource(t) \/ PublishSource(t)
    \/ RecordOutcome(t) \/ ProposeAssociation(t) \/ ImportCrash(t)

ImportNext == (\E t \in Imports : ImportStep(t)) \/ RecordCreated

ImportSpec == ImportInit /\ [][ImportNext]_importVars

-----------------------------------------------------------------------------
(* Safety.                                                                 *)

\* "Returns idempotent canonical replays": whatever the file has become since,
\* a client that is told of an import, by the first answer or by a replay, is
\* told of the artifact on record under its key and id, and of an association
\* that is on record when it asked for one.
ImportAnswersAreDurable ==
    \A t \in Imports : imports[t].reply = "imported" =>
        LET r == imports[t].request
        IN  \E e \in events :
               /\ e.key = r.key /\ e.id = r.id /\ e.op = "import" /\ e.about = r.source
               /\ e.artifact = imports[t].artifact
               /\ r.target # None => AssociationStands(e, r)

\* An association proposes what was imported: its parent is a successful
\* import of exactly its artifact, and its target exists.  Two sends of one
\* request that read different contents never mix.
AssociationsAreGrounded ==
    \A a \in events : a.op = "association" =>
        /\ a.about \in memory
        /\ \E e \in events : e.id = a.parent /\ e.op = "import" /\ e.artifact = a.artifact

=============================================================================
