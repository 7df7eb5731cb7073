--------------------------- MODULE WorkspaceProofs ---------------------------
(***************************************************************************)
(* Proofs about WorkspaceRecovery for every number of imports, decisions   *)
(* and reads, every set of requests, contents and targets, and any number  *)
(* of requests in flight.                                                  *)
(*                                                                         *)
(* The inductive invariant says that the live workspace, the bundle and    *)
(* the rollback directory are sound, that clients only know what is on     *)
(* record, that what an export has copied is closed as far as it got, and  *)
(* where the replaced workspace is in each phase of a restore.             *)
(***************************************************************************)
EXTENDS WorkspaceRecovery, TLAPS

-----------------------------------------------------------------------------
(* The invariant.                                                          *)

\* What holds of a ledger by itself.
SoundEvents(es) ==
    /\ \A e1, e2 \in es : e1.id = e2.id => e1 = e2
    /\ \A e1, e2 \in es :
          IsReview(e1) /\ IsReview(e2) /\ e1.about = e2.about => e1 = e2
    /\ \A e \in es : e.parent # None => \E p \in es : p.id = e.parent
    /\ \A a \in es : a.op = "association" =>
          \E e \in es : e.id = a.parent /\ e.op = "import" /\ e.artifact = a.artifact

KnowsTargets(es, m) == \A e \in es : e.op = "association" => e.about \in m

KnowsGrants(es, s) == \A e \in es : e.op = "observation" => e.artifact \in s

HasArtifacts(es, a) == \A e \in es : e.artifact # None => e.artifact \in a

Stores == Contents \cup Reads

Sound(w) ==
    /\ SoundEvents(w.events)
    /\ KnowsTargets(w.events, w.memory)
    /\ KnowsGrants(w.events, w.spent)
    /\ HasArtifacts(w.events, w.artifacts)
    /\ w.memory \subseteq Targets /\ w.spent \subseteq Reads
    /\ w.artifacts \subseteq Stores

ImportLocals ==
    [at : ImportPlaces, request : ImportRequests \cup {None},
     content : Contents \cup {None},
     outcome : {"new", "known", "refused", "broken"} \cup {None},
     reply : {"imported", "refused", "idempotency_conflict", "node_not_found", "error"}
             \cup {None},
     artifact : Stores \cup {None}]

DeciderLocals ==
    [at : {"idle", "project", "append", "confirm", "done"},
     request : DecisionRequests \cup {None},
     reply : {"resolved", "idempotency_conflict", "proposal_not_found",
              "already_resolved", "error", "not_projected"} \cup {None}]

ClientsTyped ==
    /\ imports \in [Imports -> ImportLocals]
    /\ decisions \in [Deciders -> DeciderLocals]
    /\ reads \in [Reads -> {"idle", "put", "link", "observe", "done"}]
    /\ temporaries \subseteq Reads

\* The import of request r gave artifact c.
Imported(r, c) ==
    \E e \in events : /\ e.key = r.key /\ e.id = r.id /\ e.op = "import"
                      /\ e.about = r.source /\ e.artifact = c

\* The association of import r with its target proposes artifact c.
Associated(r, c) ==
    \E a \in EventsWithKey(AssociationKey(r.key)) :
        /\ a.id = AssociationId(r.id) /\ a.op = "association"
        /\ a.parent = r.id /\ a.artifact = c /\ a.about = r.target

ImportKnows(t) ==
    LET i == imports[t]
    IN  /\ i.at = "idle" => i = Idle
        /\ i.at \in {"open", "publish", "record", "associate"} =>
              /\ i.request \in ImportRequests
              /\ Resolves(i.request)
              /\ i.reply = None
        /\ i.at = "record" => i.outcome \in {"new", "known", "refused", "broken"}
        /\ i.at = "associate" =>
              i.request.target # None /\ Imported(i.request, i.content)
        /\ i.reply = "imported" =>
              /\ Imported(i.request, i.artifact)
              /\ i.request.target # None => Associated(i.request, i.artifact)

\* Decision request r is on record.
OnRecord(r) ==
    /\ Proposed(r.proposal)
    /\ \E e \in ReviewsOf(r.proposal) : e.id = r.id /\ e.detail = r.verdict

DeciderKnows(t) ==
    LET d == decisions[t]
    IN  /\ d.at = "idle" => d.reply = None
        /\ d.at \in {"project", "append", "confirm"} =>
              d.request \in DecisionRequests /\ d.reply = None
        /\ d.at = "append" => Proposed(d.request.proposal)
        /\ d.at = "confirm" => OnRecord(d.request)
        /\ d.reply = "resolved" => OnRecord(d.request)
        /\ d.reply # "not_projected"

ClientsKnow ==
    /\ \A t \in Imports : ImportKnows(t)
    /\ \A t \in Deciders : DeciderKnows(t)
    /\ \A t \in Reads : reads[t] \in {"put", "link", "observe"} => t \in spent

Copies ==
    [events : SUBSET events, memory : SUBSET memory, spent : SUBSET spent,
     artifacts : SUBSET artifacts]

Exports ==
    [at : 0 .. 4, copy : Copies, listed : SUBSET artifacts, leftovers : SUBSET Reads]

\* What is copied stays closed, whatever is written beside the export.
CopyClosed(at, copy, listed) ==
    /\ SoundEvents(copy.events)
    /\ at >= 2 => KnowsTargets(copy.events, copy.memory)
    /\ at >= 3 => KnowsGrants(copy.events, copy.spent)
    /\ at >= 4 => HasArtifacts(copy.events, listed)

ExportInv ==
    /\ export \in Exports
    /\ export.at = 0 => export = NoExport
    /\ CopyClosed(export.at, export.copy, export.listed)

RestoreInv ==
    /\ restore = [at |-> restore.at, before |-> restore.before]
    /\ restore.at \in {"idle", "staged", "away", "published", "done", "failed", "crashed"}
    /\ restore.at # "idle" => bundle # None
    /\ bundle # None => Sound(bundle) /\ export.at = 0
    /\ aside # None => Sound(aside)
    /\ restore.at \notin {"idle", "done"} => Quiet
    /\ restore.at \in {"idle", "staged"} => aside = None
    /\ restore.at = "staged" => restore.before = Live
    /\ restore.at = "away" =>
          /\ restore.before = aside /\ Sound(aside)
          /\ \A t \in Imports : imports[t].reply # "imported"
          /\ \A t \in Deciders : decisions[t].reply # "resolved"
    /\ restore.at = "published" => restore.before = aside
    /\ restore.at \in {"failed", "crashed"} =>
          restore.before = aside \/ Contains(Live, restore.before)
    /\ restore.at \in {"published", "done"} => Contains(Live, bundle)

IInv == Sound(Live) /\ ClientsTyped /\ ClientsKnow /\ ExportInv /\ RestoreInv

-----------------------------------------------------------------------------
(* The ledger.                                                             *)

\* What an append does: the ledger stays sound, loses nothing, and holds the
\* event whenever the sender is not told of an error.
LEMMA AppendKeepsSound ==
    ASSUME Sound(Live), NEW e, NEW sameTick \in BOOLEAN,
           e.op = "association" =>
              /\ e.about \in memory
              /\ \E i \in events : /\ i.id = e.parent /\ i.op = "import"
                                   /\ i.artifact = e.artifact,
           e.op = "observation" => e.artifact \in spent,
           events' = Appended(e, AppendOutcome(e, sameTick)),
           UNCHANGED <<memory, spent, artifacts>>
    PROVE  /\ Sound(Live)'
           /\ events \subseteq events'
           /\ Committed(AppendOutcome(e, sameTick)) => e \in events'
<1> DEFINE outcome == AppendOutcome(e, sameTick)
<1>1. CASE outcome = "inserted"
  <2>1. events' = events \cup {e}
    BY <1>1 DEF Appended
  <2>2. /\ e.parent # None => e.parent \in EventIds
        /\ e.artifact # None => e.artifact \in artifacts
        /\ e.id \notin EventIds
        /\ ~AlreadyReviewed(e)
    BY <1>1 DEF AppendOutcome
  <2>3. SoundEvents(events)'
    <3>1. SoundEvents(events)
      BY DEF Sound, Live, Workspace
    <3>2. \A e1, e2 \in events' : e1.id = e2.id => e1 = e2
      BY <2>1, <2>2, <3>1 DEF SoundEvents, EventIds
    <3>3. \A e1, e2 \in events' :
             IsReview(e1) /\ IsReview(e2) /\ e1.about = e2.about => e1 = e2
      BY <2>1, <2>2, <3>1 DEF SoundEvents, AlreadyReviewed, ReviewsOf
    <3>4. \A f \in events' : f.parent # None => \E p \in events' : p.id = f.parent
      BY <2>1, <2>2, <3>1 DEF SoundEvents, EventIds
    <3>5. \A a \in events' : a.op = "association" =>
             \E f \in events' : f.id = a.parent /\ f.op = "import" /\ f.artifact = a.artifact
      BY <2>1, <3>1 DEF SoundEvents
    <3> QED BY <3>2, <3>3, <3>4, <3>5 DEF SoundEvents
  <2>4. /\ KnowsTargets(events', memory) /\ KnowsGrants(events', spent)
        /\ HasArtifacts(events', artifacts)
    BY <2>1, <2>2 DEF Sound, Live, Workspace, KnowsTargets, KnowsGrants, HasArtifacts
  <2> QED BY <2>1, <2>3, <2>4 DEF Sound, Live, Workspace
<1>2. CASE outcome # "inserted"
  <2>1. events' = events
    BY <1>2 DEF Appended
  <2>2. Committed(outcome) => e \in events
    BY <1>2 DEF Committed, AppendOutcome
  <2> QED BY <2>1, <2>2 DEF Sound, Live, Workspace
<1> QED BY <1>1, <1>2

-----------------------------------------------------------------------------
(* The clients.                                                            *)

Grows ==
    /\ events \subseteq events' /\ memory \subseteq memory'
    /\ spent \subseteq spent' /\ artifacts \subseteq artifacts'

\* What is on record stays on record.
LEMMA RecordsStay ==
    ASSUME Grows
    PROVE  /\ \A r, c : Imported(r, c) => Imported(r, c)'
           /\ \A r, c : Associated(r, c) => Associated(r, c)'
           /\ \A p : Proposed(p) => Proposed(p)'
           /\ \A r : OnRecord(r) => OnRecord(r)'
           /\ \A r : Resolves(r) => Resolves(r)'
<1>1. \A p : Proposed(p) => Proposed(p)'
  BY DEF Grows, Proposed
<1>2. \A r : OnRecord(r) => OnRecord(r)'
  BY <1>1 DEF Grows, OnRecord, ReviewsOf
<1> QED BY <1>1, <1>2 DEF Grows, Imported, Associated, EventsWithKey, Resolves

\* A client that does not move keeps what it knows.
LEMMA OthersKeepKnowing ==
    ASSUME ClientsKnow, Grows
    PROVE  /\ \A t \in Imports : imports'[t] = imports[t] => ImportKnows(t)'
           /\ \A t \in Deciders : decisions'[t] = decisions[t] => DeciderKnows(t)'
           /\ \A t \in Reads : reads'[t] = reads[t] =>
                 (reads'[t] \in {"put", "link", "observe"} => t \in spent')
<1>1. ASSUME NEW t \in Imports, imports'[t] = imports[t]
      PROVE  ImportKnows(t)'
  <2> ImportKnows(t)
    BY DEF ClientsKnow
  <2> QED BY <1>1, RecordsStay DEF ImportKnows
<1>2. ASSUME NEW t \in Deciders, decisions'[t] = decisions[t]
      PROVE  DeciderKnows(t)'
  <2> DeciderKnows(t)
    BY DEF ClientsKnow
  <2> QED BY <1>2, RecordsStay DEF DeciderKnows
<1> QED BY <1>1, <1>2 DEF ClientsKnow, Grows

LEMMA ImportMoves ==
    ASSUME ClientsTyped, ClientsKnow, Grows, NEW t \in Imports,
           imports' \in [Imports -> ImportLocals],
           \A u \in Imports \ {t} : imports'[u] = imports[u],
           ImportKnows(t)', UNCHANGED <<decisions, reads, temporaries>>
    PROVE  ClientsTyped' /\ ClientsKnow'
BY OthersKeepKnowing DEF ClientsTyped, ClientsKnow

\* A request that ends without an artifact knows nothing.
LEMMA RefuseMoves ==
    ASSUME ClientsTyped, ClientsKnow, Grows, NEW t \in Imports,
           NEW reply \in {"refused", "idempotency_conflict", "node_not_found", "error"},
           Refuse(t, reply), UNCHANGED <<decisions, reads, temporaries>>
    PROVE  ClientsTyped' /\ ClientsKnow'
<1>1. [Idle EXCEPT !.at = "done", !.reply = reply] \in ImportLocals
  BY DEF Idle, ImportLocals, ImportPlaces
<1>2. /\ imports' \in [Imports -> ImportLocals]
      /\ \A u \in Imports \ {t} : imports'[u] = imports[u]
      /\ imports'[t] = [Idle EXCEPT !.at = "done", !.reply = reply]
  BY <1>1 DEF Refuse, ClientsTyped
<1>3. ImportKnows(t)'
  BY <1>2 DEF ImportKnows, Idle
<1> QED BY <1>2, <1>3, ImportMoves

\* A request that is answered knows what is on record.
LEMMA AnswerMoves ==
    ASSUME ClientsTyped, ClientsKnow, Grows, NEW t \in Imports,
           NEW r \in ImportRequests, NEW c \in Stores \cup {None},
           Answer(t, r, c), Imported(r, c)', r.target # None => Associated(r, c)',
           UNCHANGED <<decisions, reads, temporaries>>
    PROVE  ClientsTyped' /\ ClientsKnow'
<1> DEFINE x == [Idle EXCEPT !.at = "done", !.request = r,
                             !.reply = "imported", !.artifact = c]
<1>1. x \in ImportLocals
  BY DEF Idle, ImportLocals, ImportPlaces
<1>2. /\ imports' \in [Imports -> ImportLocals]
      /\ \A u \in Imports \ {t} : imports'[u] = imports[u]
      /\ imports'[t] = x
  BY <1>1 DEF Answer, ClientsTyped
<1>3. /\ imports'[t].at = "done" /\ imports'[t].request = r
      /\ imports'[t].reply = "imported" /\ imports'[t].artifact = c
  BY <1>2 DEF Idle
<1>4. ImportKnows(t)'
  BY <1>3 DEF ImportKnows
<1> QED BY <1>2, <1>4, ImportMoves

\* The artifact of an event is stored.
LEMMA EventArtifact ==
    ASSUME Sound(Live), NEW e \in events
    PROVE  e.artifact \in Stores \cup {None}
BY DEF Sound, Live, Workspace, HasArtifacts

LEMMA LookUpKeeps ==
    ASSUME Sound(Live), ClientsTyped, ClientsKnow, NEW t \in Imports, LookUp(t),
           UNCHANGED <<decisions, spent, reads, temporaries>>
    PROVE  ClientsTyped' /\ ClientsKnow'
<1>1. Grows
  BY DEF LookUp, Grows
<1>2. PICK r \in ImportRequests :
          \/ ~Resolves(r) /\ Refuse(t, "node_not_found")
          \/ /\ Resolves(r)
             /\ imports' = [imports EXCEPT ![t].at = "open", ![t].request = r]
          \/ \E e \in EventsWithKey(r.key) :
                IF ReplayOf(e, r) = "imported" THEN Answer(t, r, e.artifact)
                ELSE Refuse(t, ReplayOf(e, r))
  BY DEF LookUp
<1>3. CASE Refuse(t, "node_not_found")
  BY <1>1, <1>3, RefuseMoves DEF LookUp
<1>4. CASE Resolves(r) /\ imports' = [imports EXCEPT ![t].at = "open", ![t].request = r]
  <2>1. imports[t] = Idle
    BY DEF LookUp, ClientsKnow, ImportKnows
  <2>2. [Idle EXCEPT !.at = "open", !.request = r] \in ImportLocals
    BY DEF Idle, ImportLocals, ImportPlaces
  <2>3. /\ imports' \in [Imports -> ImportLocals]
        /\ \A u \in Imports \ {t} : imports'[u] = imports[u]
        /\ imports'[t] = [Idle EXCEPT !.at = "open", !.request = r]
    BY <1>4, <2>1, <2>2 DEF ClientsTyped
  <2>4. /\ imports'[t].at = "open" /\ imports'[t].request = r
        /\ imports'[t].reply = None
    BY <2>3 DEF Idle
  <2>5. Resolves(r)'
    BY <1>1, <1>4, RecordsStay
  <2>6. ImportKnows(t)'
    BY <2>4, <2>5, NoneAssumption DEF ImportKnows, Resolves
  <2> QED BY <1>1, <2>3, <2>6, ImportMoves DEF LookUp
<1>5. ASSUME NEW e \in EventsWithKey(r.key),
             IF ReplayOf(e, r) = "imported" THEN Answer(t, r, e.artifact)
             ELSE Refuse(t, ReplayOf(e, r))
      PROVE  ClientsTyped' /\ ClientsKnow'
  <2>1. CASE ReplayOf(e, r) = "imported"
    <3>1. /\ e \in events /\ e.key = r.key /\ e.id = r.id /\ e.about = r.source
          /\ e.op = "import"
      BY <1>5, <2>1 DEF ReplayOf, Matches, EventsWithKey
    <3>2. Imported(r, e.artifact)
      BY <3>1 DEF Imported
    <3>3. r.target # None => Associated(r, e.artifact)
      BY <2>1 DEF ReplayOf, AssociationStands, Associated
    <3>4. /\ Imported(r, e.artifact)'
          /\ r.target # None => Associated(r, e.artifact)'
      BY <1>1, <3>2, <3>3 DEF Grows, Imported, Associated, EventsWithKey
    <3>5. e.artifact \in Stores \cup {None}
      BY <3>1, EventArtifact
    <3>6. Answer(t, r, e.artifact)
      BY <1>5, <2>1
    <3> QED BY <1>1, <3>4, <3>5, <3>6, AnswerMoves DEF LookUp
  <2>2. CASE ReplayOf(e, r) # "imported"
    <3>1. ReplayOf(e, r) \in {"refused", "idempotency_conflict"}
      BY <2>2 DEF ReplayOf
    <3> QED BY <1>1, <1>5, <2>2, <3>1, RefuseMoves DEF LookUp
  <2> QED BY <2>1, <2>2
<1> QED BY <1>2, <1>3, <1>4, <1>5

LEMMA OpenSourceKeeps ==
    ASSUME Sound(Live), ClientsTyped, ClientsKnow, NEW t \in Imports, OpenSource(t),
           UNCHANGED <<decisions, spent, reads, temporaries>>
    PROVE  ClientsTyped' /\ ClientsKnow'
<1>1. Grows
  BY DEF OpenSource, Grows
<1>2. imports[t] \in ImportLocals /\ ImportKnows(t) /\ imports[t].at = "open"
  BY DEF OpenSource, ClientsTyped, ClientsKnow
<1>3. PICK r \in ImportRequests :
         imports[t].request = r /\ imports[t].reply = None /\ Resolves(r)'
  BY <1>1, <1>2, RecordsStay DEF ImportKnows
<1>4. CASE Goto(t, "publish")
  <2> DEFINE x == [imports[t] EXCEPT !.at = "publish"]
  <2>1. x \in ImportLocals
    BY <1>2 DEF ImportLocals, ImportPlaces
  <2>2. /\ imports' \in [Imports -> ImportLocals] /\ imports'[t] = x
        /\ \A u \in Imports \ {t} : imports'[u] = imports[u]
    BY <1>4, <2>1 DEF Goto, ClientsTyped
  <2>3. /\ imports'[t].at = "publish" /\ imports'[t].request = imports[t].request
        /\ imports'[t].reply = None
    BY <1>2, <1>3, <2>2 DEF ImportLocals
  <2>4. ImportKnows(t)'
    BY <1>3, <2>3, NoneAssumption DEF ImportKnows, Resolves, OpenSource
  <2> QED BY <1>1, <2>2, <2>4, ImportMoves DEF OpenSource
<1>5. CASE imports' = [imports EXCEPT ![t].at = "record", ![t].outcome = "refused"]
  <2> DEFINE x == [imports[t] EXCEPT !.at = "record", !.outcome = "refused"]
  <2>1. x \in ImportLocals
    BY <1>2 DEF ImportLocals, ImportPlaces
  <2>2. /\ imports' \in [Imports -> ImportLocals] /\ imports'[t] = x
        /\ \A u \in Imports \ {t} : imports'[u] = imports[u]
    BY <1>5, <2>1 DEF ClientsTyped
  <2>3. /\ imports'[t].at = "record" /\ imports'[t].request = imports[t].request
        /\ imports'[t].reply = None /\ imports'[t].outcome = "refused"
    BY <1>2, <1>3, <2>2 DEF ImportLocals
  <2>4. ImportKnows(t)'
    BY <1>3, <2>3, NoneAssumption DEF ImportKnows, Resolves, OpenSource
  <2> QED BY <1>1, <2>2, <2>4, ImportMoves DEF OpenSource
<1>6. CASE Refuse(t, "error")
  BY <1>1, <1>6, RefuseMoves DEF OpenSource
<1> QED BY <1>4, <1>5, <1>6 DEF OpenSource

LEMMA PublishSourceKeeps ==
    ASSUME Sound(Live), ClientsTyped, ClientsKnow, NEW t \in Imports, PublishSource(t),
           UNCHANGED <<decisions, spent, reads, temporaries>>
    PROVE  Sound(Live)' /\ ClientsTyped' /\ ClientsKnow' /\ Grows
<1>1. /\ artifacts \subseteq artifacts' /\ artifacts' \subseteq artifacts \cup Contents
      /\ UNCHANGED <<events, memory, spent>>
  BY DEF PublishSource, Published
<1>2. Grows
  BY <1>1 DEF Grows
<1>3. Sound(Live)'
  BY <1>1 DEF Sound, Live, Workspace, HasArtifacts, Stores
<1>4. imports[t] \in ImportLocals /\ ImportKnows(t) /\ imports[t].at = "publish"
  BY DEF PublishSource, ClientsTyped, ClientsKnow
<1>5. PICK r \in ImportRequests :
         imports[t].request = r /\ imports[t].reply = None /\ Resolves(r)'
  BY <1>2, <1>4, RecordsStay DEF ImportKnows
<1> DEFINE After(c, o) ==
              [imports EXCEPT ![t] = [imports[t] EXCEPT
                  !.at = "record", !.content = c, !.outcome = o]]
<1>6. PICK c \in Contents \cup {None}, o \in {"new", "known", "broken"} :
         imports' = After(c, o)
  <2>1. ASSUME NEW c \in Contents,
               imports' = [imports EXCEPT
                   ![t].at = "record", ![t].content = c,
                   ![t].outcome = IF c \in artifacts THEN "known" ELSE "new"]
        PROVE  imports' = After(c, "known") \/ imports' = After(c, "new")
    <3>1. CASE c \in artifacts
      BY <2>1, <3>1
    <3>2. CASE c \notin artifacts
      BY <2>1, <3>2
    <3> QED BY <3>1, <3>2
  <2>2. ASSUME imports' = [imports EXCEPT ![t].at = "record", ![t].outcome = "broken"]
        PROVE  imports' = After(imports[t].content, "broken")
    BY <1>4, <2>2 DEF ImportLocals
  <2>3. imports[t].content \in Contents \cup {None}
    BY <1>4 DEF ImportLocals
  <2>4. \/ \E c \in Contents :
              imports' = [imports EXCEPT
                   ![t].at = "record", ![t].content = c,
                   ![t].outcome = IF c \in artifacts THEN "known" ELSE "new"]
        \/ imports' = [imports EXCEPT ![t].at = "record", ![t].outcome = "broken"]
    BY DEF PublishSource
  <2> HIDE DEF After
  <2>5. CASE \E c \in Contents :
                imports' = [imports EXCEPT
                   ![t].at = "record", ![t].content = c,
                   ![t].outcome = IF c \in artifacts THEN "known" ELSE "new"]
    <3>1. PICK c \in Contents : imports' = After(c, "known") \/ imports' = After(c, "new")
      BY <2>1, <2>5, Zenon
    <3> QED BY <3>1
  <2>6. CASE imports' = [imports EXCEPT ![t].at = "record", ![t].outcome = "broken"]
    <3>1. imports' = After(imports[t].content, "broken")
      BY <2>2, <2>6, Zenon
    <3> QED BY <2>3, <3>1
  <2> QED BY <2>4, <2>5, <2>6, Zenon
<1> DEFINE x == [imports[t] EXCEPT !.at = "record", !.content = c, !.outcome = o]
<1>7. x \in ImportLocals
  BY <1>4 DEF ImportLocals, ImportPlaces
<1>8. /\ imports' \in [Imports -> ImportLocals] /\ imports'[t] = x
      /\ \A u \in Imports \ {t} : imports'[u] = imports[u]
  BY <1>6, <1>7 DEF ClientsTyped
<1>9. /\ imports'[t].at = "record" /\ imports'[t].request = imports[t].request
      /\ imports'[t].reply = None /\ imports'[t].outcome = o
  BY <1>4, <1>5, <1>8 DEF ImportLocals
<1>10. ImportKnows(t)'
  BY <1>5, <1>9, NoneAssumption DEF ImportKnows, Resolves, PublishSource
<1> QED BY <1>2, <1>3, <1>8, <1>10, ImportMoves

LEMMA RecordOutcomeKeeps ==
    ASSUME Sound(Live), ClientsTyped, ClientsKnow, NEW t \in Imports, RecordOutcome(t),
           UNCHANGED <<decisions, spent, reads, temporaries>>
    PROVE  Sound(Live)' /\ ClientsTyped' /\ ClientsKnow' /\ Grows
<1> DEFINE e == OutcomeEvent(t)
<1>1. PICK sameTick \in BOOLEAN :
         /\ events' = Appended(e, AppendOutcome(e, sameTick))
         /\ IF Committed(AppendOutcome(e, sameTick)) THEN AfterRecord(t)
            ELSE Refuse(t, "error")
  BY DEF RecordOutcome
<1>2. imports[t] \in ImportLocals /\ ImportKnows(t) /\ imports[t].at = "record"
  BY DEF RecordOutcome, ClientsTyped, ClientsKnow
<1>3. PICK r \in ImportRequests :
         /\ imports[t].request = r /\ imports[t].reply = None /\ Resolves(r)
         /\ imports[t].outcome \in {"new", "known", "refused", "broken"}
  BY <1>2 DEF ImportKnows
<1>4. PICK c \in Contents \cup {None} : imports[t].content = c
  BY <1>2 DEF ImportLocals
<1>5. /\ e.op \in {"import", "import_failed"} /\ e.id = r.id /\ e.key = r.key
      /\ e.about = r.source
      /\ imports[t].outcome \in {"new", "known"} => e.op = "import" /\ e.artifact = c
  BY <1>3, <1>4 DEF OutcomeEvent
<1>6. /\ Sound(Live)' /\ events \subseteq events'
      /\ Committed(AppendOutcome(e, sameTick)) => e \in events'
  <2> HIDE DEF e
  <2>1. e.op # "association" /\ e.op # "observation"
    BY <1>5
  <2>2. UNCHANGED <<memory, spent, artifacts>>
    BY DEF RecordOutcome
  <2> QED BY <1>1, <2>1, <2>2, AppendKeepsSound
<1>7. Grows
  BY <1>6 DEF Grows, RecordOutcome
<1>8. CASE Refuse(t, "error") \/ Refuse(t, "refused")
  BY <1>6, <1>7, <1>8, RefuseMoves
<1>9. ASSUME Committed(AppendOutcome(e, sameTick)),
             imports[t].outcome \in {"new", "known"}
      PROVE  Imported(r, c)'
  <2> HIDE DEF e
  <2> QED BY <1>5, <1>6, <1>9 DEF Imported
<1>10. CASE /\ Committed(AppendOutcome(e, sameTick))
            /\ imports[t].outcome \in {"new", "known"} /\ r.target = None
  <2>1. Answer(t, r, c)
    BY <1>1, <1>3, <1>4, <1>10 DEF AfterRecord
  <2>2. c \in Stores \cup {None}
    BY DEF Stores
  <2> QED BY <1>6, <1>7, <1>9, <1>10, <2>1, <2>2, AnswerMoves
<1>11. CASE /\ Committed(AppendOutcome(e, sameTick))
            /\ imports[t].outcome \in {"new", "known"} /\ r.target # None
  <2> DEFINE x == [imports[t] EXCEPT !.at = "associate"]
  <2>1. imports' = [imports EXCEPT ![t].at = "associate"]
    BY <1>1, <1>3, <1>11 DEF AfterRecord, Goto
  <2>2. x \in ImportLocals
    BY <1>2 DEF ImportLocals, ImportPlaces
  <2>3. /\ imports' \in [Imports -> ImportLocals] /\ imports'[t] = x
        /\ \A u \in Imports \ {t} : imports'[u] = imports[u]
    BY <2>1, <2>2 DEF ClientsTyped
  <2>4. /\ imports'[t].at = "associate" /\ imports'[t].request = r
        /\ imports'[t].reply = None /\ imports'[t].content = c
    BY <1>2, <1>3, <1>4, <2>3 DEF ImportLocals
  <2>5. ImportKnows(t)'
    BY <1>3, <1>7, <1>9, <1>11, <2>4, NoneAssumption, RecordsStay DEF ImportKnows
  <2> QED BY <1>6, <1>7, <2>3, <2>5, ImportMoves
<1>12. \/ Refuse(t, "error") \/ Refuse(t, "refused")
       \/ /\ Committed(AppendOutcome(e, sameTick))
          /\ imports[t].outcome \in {"new", "known"}
  BY <1>1, <1>3 DEF AfterRecord
<1> QED BY <1>8, <1>10, <1>11, <1>12

LEMMA ProposeAssociationKeeps ==
    ASSUME Sound(Live), ClientsTyped, ClientsKnow, NEW t \in Imports,
           ProposeAssociation(t), UNCHANGED <<decisions, spent, reads, temporaries>>
    PROVE  Sound(Live)' /\ ClientsTyped' /\ ClientsKnow' /\ Grows
<1> DEFINE e == AssociationEvent(t)
<1>1. PICK sameTick \in BOOLEAN :
         /\ events' = Appended(e, AppendOutcome(e, sameTick))
         /\ IF Committed(AppendOutcome(e, sameTick))
            THEN Answer(t, imports[t].request, imports[t].content)
            ELSE Refuse(t, "error")
  BY DEF ProposeAssociation
<1>2. imports[t] \in ImportLocals /\ ImportKnows(t) /\ imports[t].at = "associate"
  BY DEF ProposeAssociation, ClientsTyped, ClientsKnow
<1>3. PICK r \in ImportRequests :
         /\ imports[t].request = r /\ Resolves(r) /\ r.target # None
         /\ Imported(r, imports[t].content)
  BY <1>2 DEF ImportKnows
<1>4. PICK c \in Contents \cup {None} : imports[t].content = c
  BY <1>2 DEF ImportLocals
<1>5. /\ e.op = "association" /\ e.id = AssociationId(r.id)
      /\ e.key = AssociationKey(r.key) /\ e.parent = r.id
      /\ e.about = r.target /\ e.artifact = c
  BY <1>3, <1>4 DEF AssociationEvent
<1>6. UNCHANGED <<memory, spent, artifacts>>
  BY DEF ProposeAssociation
<1>7. /\ Sound(Live)' /\ events \subseteq events'
      /\ Committed(AppendOutcome(e, sameTick)) => e \in events'
  <2> HIDE DEF e
  <2>1. e.about \in memory
    BY <1>3, <1>5 DEF Resolves
  <2>2. \E i \in events : i.id = e.parent /\ i.op = "import" /\ i.artifact = e.artifact
    BY <1>3, <1>4, <1>5 DEF Imported
  <2>3. e.op # "observation"
    BY <1>5
  <2> QED BY <1>1, <1>6, <2>1, <2>2, <2>3, AppendKeepsSound
<1>8. Grows
  BY <1>6, <1>7 DEF Grows
<1>9. CASE Refuse(t, "error")
  BY <1>6, <1>7, <1>8, <1>9, RefuseMoves
<1>10. CASE Committed(AppendOutcome(e, sameTick))
  <2>1. Imported(r, c)
    BY <1>3, <1>4
  <2>2. Imported(r, c)'
    BY <1>8, <2>1, RecordsStay
  <2>3. Associated(r, c)'
    <3> HIDE DEF e
    <3> QED BY <1>5, <1>7, <1>10 DEF Associated, EventsWithKey
  <2>4. Answer(t, r, c)
    BY <1>1, <1>3, <1>4, <1>10
  <2>5. c \in Stores \cup {None}
    BY DEF Stores
  <2> QED BY <1>7, <1>8, <2>2, <2>3, <2>4, <2>5, AnswerMoves
<1> QED BY <1>1, <1>9, <1>10

\* Whatever a thread of an import does.
LEMMA ImportStepKeeps ==
    ASSUME Sound(Live), ClientsTyped, ClientsKnow, NEW t \in Imports, ImportStep(t),
           UNCHANGED <<decisions, spent, reads, temporaries>>
    PROVE  Sound(Live)' /\ ClientsTyped' /\ ClientsKnow' /\ Grows
<1>1. CASE UNCHANGED <<events, artifacts, memory>>
  <2>1. Sound(Live)' /\ Grows
    BY <1>1 DEF Sound, Live, Workspace, Grows
  <2>2. CASE LookUp(t)
    BY <2>1, <2>2, LookUpKeeps
  <2>3. CASE OpenSource(t)
    BY <2>1, <2>3, OpenSourceKeeps
  <2>4. CASE ImportCrash(t)
    BY <2>1, <2>4, RefuseMoves DEF ImportCrash
  <2> QED
    BY <2>2, <2>3, <2>4, PublishSourceKeeps, RecordOutcomeKeeps,
       ProposeAssociationKeeps DEF ImportStep
<1>2. CASE ~UNCHANGED <<events, artifacts, memory>>
  <2>1. PublishSource(t) \/ RecordOutcome(t) \/ ProposeAssociation(t)
    BY <1>2 DEF ImportStep, LookUp, OpenSource, ImportCrash
  <2> QED
    BY <2>1, PublishSourceKeeps, RecordOutcomeKeeps, ProposeAssociationKeeps
<1> QED BY <1>1, <1>2

LEMMA RecordCreatedKeeps ==
    ASSUME Sound(Live), ClientsTyped, ClientsKnow, RecordCreated,
           UNCHANGED <<decisions, spent, reads, temporaries>>
    PROVE  Sound(Live)' /\ ClientsTyped' /\ ClientsKnow' /\ Grows
<1>1. /\ memory \subseteq memory' /\ memory' \subseteq memory \cup Targets
      /\ UNCHANGED <<events, artifacts, imports, spent>>
  BY DEF RecordCreated
<1>2. Grows
  BY <1>1 DEF Grows
<1>3. Sound(Live)'
  BY <1>1 DEF Sound, Live, Workspace, KnowsTargets
<1>4. ClientsTyped'
  BY <1>1 DEF ClientsTyped
<1> QED BY <1>1, <1>2, <1>3, <1>4, OthersKeepKnowing DEF ClientsKnow

LEMMA DeciderMoves ==
    ASSUME ClientsTyped, ClientsKnow, Grows, NEW t \in Deciders, NEW x \in DeciderLocals,
           decisions' = [decisions EXCEPT ![t] = x],
           DeciderKnows(t)', UNCHANGED <<imports, reads, temporaries>>
    PROVE  ClientsTyped' /\ ClientsKnow'
<1>1. /\ decisions' \in [Deciders -> DeciderLocals]
      /\ \A u \in Deciders \ {t} : decisions'[u] = decisions[u]
  BY DEF ClientsTyped
<1>2. \A u \in Deciders : DeciderKnows(u)'
  BY <1>1, OthersKeepKnowing
<1> QED BY <1>1, <1>2, OthersKeepKnowing DEF ClientsTyped, ClientsKnow

\* A decision that ends with an error knows nothing.
LEMMA ReplyMoves ==
    ASSUME ClientsTyped, ClientsKnow, Grows, NEW t \in Deciders,
           NEW reply \in {"idempotency_conflict", "proposal_not_found",
                          "already_resolved", "error"},
           Reply(t, reply), UNCHANGED <<imports, reads, temporaries>>
    PROVE  ClientsTyped' /\ ClientsKnow'
<1> DEFINE x == [Undecided EXCEPT !.at = "done", !.reply = reply]
<1>1. x \in DeciderLocals
  BY DEF Undecided, DeciderLocals
<1>2. decisions'[t].at = "done" /\ decisions'[t].reply = reply
  BY DEF Reply, Undecided, ClientsTyped
<1>3. DeciderKnows(t)'
  BY <1>2 DEF DeciderKnows
<1> QED BY <1>1, <1>3, DeciderMoves DEF Reply

\* A decision that is resolved is on record.
LEMMA ResolveMoves ==
    ASSUME ClientsTyped, ClientsKnow, Grows, NEW t \in Deciders,
           NEW r \in DecisionRequests, Resolve(t, r), OnRecord(r)',
           UNCHANGED <<imports, reads, temporaries>>
    PROVE  ClientsTyped' /\ ClientsKnow'
<1> DEFINE x == [at |-> "done", request |-> r, reply |-> "resolved"]
<1>1. x \in DeciderLocals
  BY DEF DeciderLocals
<1>2. /\ decisions'[t].at = "done" /\ decisions'[t].request = r
      /\ decisions'[t].reply = "resolved"
  BY DEF Resolve, ClientsTyped
<1>3. DeciderKnows(t)'
  BY <1>2 DEF DeciderKnows
<1> QED BY <1>1, <1>3, DeciderMoves DEF Resolve

\* The place of a decision changes, its request does not.
LEMMA DeciderAdvances ==
    ASSUME ClientsTyped, ClientsKnow, Grows, NEW t \in Deciders,
           NEW r \in DecisionRequests, decisions[t].request = r,
           decisions[t].reply = None, NEW place \in {"project", "append", "confirm"},
           place = "append" => Proposed(r.proposal)',
           place = "confirm" => OnRecord(r)',
           decisions' = [decisions EXCEPT ![t].at = place],
           UNCHANGED <<imports, reads, temporaries>>
    PROVE  ClientsTyped' /\ ClientsKnow'
<1> DEFINE x == [decisions[t] EXCEPT !.at = place]
<1>1. decisions[t] \in DeciderLocals
  BY DEF ClientsTyped
<1>2. x \in DeciderLocals
  BY <1>1 DEF DeciderLocals
<1>3. decisions' = [decisions EXCEPT ![t] = x]
  OBVIOUS
<1>4. /\ decisions'[t].at = place /\ decisions'[t].request = r
      /\ decisions'[t].reply = None
  BY <1>1, <1>3 DEF ClientsTyped, DeciderLocals
<1>5. DeciderKnows(t)'
  BY <1>4, NoneAssumption DEF DeciderKnows
<1> QED BY <1>2, <1>3, <1>5, DeciderMoves

\* The one review on record shows in the projection.
LEMMA VerdictShows ==
    ASSUME Sound(Live), NEW r \in DecisionRequests, OnRecord(r)
    PROVE  Proposed(r.proposal) /\ ProposalState(r.proposal) = r.verdict
<1>1. PICK e \in ReviewsOf(r.proposal) : e.detail = r.verdict
  BY DEF OnRecord
<1>2. \A f \in ReviewsOf(r.proposal) : f = e
  BY DEF Sound, Live, Workspace, SoundEvents, ReviewsOf
<1>3. (CHOOSE f \in ReviewsOf(r.proposal) : TRUE) = e
  BY <1>2
<1> QED BY <1>1, <1>3 DEF OnRecord, ProposalState

LEMMA AppendReviewKeeps ==
    ASSUME Sound(Live), ClientsTyped, ClientsKnow, NEW t \in Deciders, AppendReview(t),
           UNCHANGED <<spent, reads, temporaries>>
    PROVE  Sound(Live)' /\ ClientsTyped' /\ ClientsKnow' /\ Grows
<1> DEFINE e == ReviewEvent(t)
<1>1. PICK sameTick \in BOOLEAN :
         /\ events' = Appended(e, AppendOutcome(e, sameTick))
         /\ IF Committed(AppendOutcome(e, sameTick))
            THEN decisions' = [decisions EXCEPT ![t].at = "confirm"]
            ELSE Reply(t, RefusalReply(AppendOutcome(e, sameTick)))
  BY DEF AppendReview
<1>2. DeciderKnows(t) /\ decisions[t].at = "append"
  BY DEF AppendReview, ClientsKnow
<1>3. PICK r \in DecisionRequests :
         decisions[t].request = r /\ decisions[t].reply = None /\ Proposed(r.proposal)
  BY <1>2 DEF DeciderKnows
<1>4. /\ e.op = "review" /\ e.id = r.id /\ e.about = r.proposal
      /\ e.detail = r.verdict
  BY <1>3 DEF ReviewEvent
<1>5. UNCHANGED <<memory, spent, artifacts, imports>>
  BY DEF AppendReview
<1>6. /\ Sound(Live)' /\ events \subseteq events'
      /\ Committed(AppendOutcome(e, sameTick)) => e \in events'
  <2> HIDE DEF e
  <2>1. e.op # "association" /\ e.op # "observation"
    BY <1>4
  <2> QED BY <1>1, <1>5, <2>1, AppendKeepsSound
<1>7. Grows
  BY <1>5, <1>6 DEF Grows
<1>8. CASE Committed(AppendOutcome(e, sameTick))
  <2>1. Proposed(r.proposal)'
    BY <1>3, <1>7, RecordsStay
  <2>2. OnRecord(r)'
    <3> HIDE DEF e
    <3> QED BY <1>4, <1>6, <1>8, <2>1 DEF OnRecord, ReviewsOf, IsReview
  <2> QED BY <1>1, <1>3, <1>5, <1>6, <1>7, <1>8, <2>2, DeciderAdvances
<1>9. CASE ~Committed(AppendOutcome(e, sameTick))
  <2>1. RefusalReply(AppendOutcome(e, sameTick)) \in
           {"idempotency_conflict", "already_resolved", "error"}
    BY DEF RefusalReply
  <2> QED BY <1>1, <1>5, <1>6, <1>7, <1>9, <2>1, ReplyMoves
<1> QED BY <1>8, <1>9

\* Whatever a thread of a decision does.
LEMMA DecisionStepKeeps ==
    ASSUME Sound(Live), ClientsTyped, ClientsKnow, NEW t \in Deciders, DecisionStep(t),
           UNCHANGED <<spent, reads, temporaries>>
    PROVE  Sound(Live)' /\ ClientsTyped' /\ ClientsKnow' /\ Grows
<1>1. CASE AppendReview(t)
  BY <1>1, AppendReviewKeeps
<1>2. CASE UNCHANGED importVars
  <2>1. Sound(Live)' /\ Grows /\ UNCHANGED <<imports, reads, temporaries>>
    BY <1>2 DEF importVars, Sound, Live, Workspace, Grows
  <2>2. CASE DecisionLookUp(t)
    <3>1. PICK r \in DecisionRequests :
             \/ decisions' = [decisions EXCEPT ![t].at = "project", ![t].request = r]
             \/ \E e \in EventsWithKey(r.key) :
                   IF ReplaysDecision(e, r) THEN Resolve(t, r)
                   ELSE Reply(t, "idempotency_conflict")
      BY <2>2 DEF DecisionLookUp
    <3>2. CASE decisions' = [decisions EXCEPT ![t].at = "project", ![t].request = r]
      <4> DEFINE x == [decisions[t] EXCEPT !.at = "project", !.request = r]
      <4>1. /\ decisions[t] \in DeciderLocals /\ DeciderKnows(t)
            /\ decisions[t].at = "idle"
        BY <2>2 DEF DecisionLookUp, ClientsTyped, ClientsKnow
      <4>2. x \in DeciderLocals
        BY <4>1 DEF DeciderLocals
      <4>3. decisions' = [decisions EXCEPT ![t] = x]
        BY <3>2
      <4>4. decisions[t].reply = None
        BY <4>1 DEF DeciderKnows
      <4>5. /\ decisions'[t].at = "project" /\ decisions'[t].request = r
            /\ decisions'[t].reply = None
        BY <4>1, <4>3, <4>4 DEF ClientsTyped, DeciderLocals
      <4>6. DeciderKnows(t)'
        BY <4>5, NoneAssumption DEF DeciderKnows
      <4> QED BY <2>1, <4>2, <4>3, <4>6, DeciderMoves
    <3>3. ASSUME NEW e \in EventsWithKey(r.key), ReplaysDecision(e, r), Resolve(t, r)
          PROVE  ClientsTyped' /\ ClientsKnow'
      <4>1. OnRecord(r)
        BY <3>3 DEF ReplaysDecision, OnRecord
      <4>2. OnRecord(r)'
        BY <2>1, <4>1, RecordsStay
      <4> QED BY <2>1, <3>3, <4>2, ResolveMoves
    <3>4. CASE Reply(t, "idempotency_conflict")
      BY <2>1, <3>4, ReplyMoves
    <3> QED BY <2>1, <3>1, <3>2, <3>3, <3>4
  <2>3. CASE ProjectProposal(t)
    <3>1. DeciderKnows(t) /\ decisions[t].at = "project"
      BY <2>3 DEF ProjectProposal, ClientsKnow
    <3>2. PICK r \in DecisionRequests :
             decisions[t].request = r /\ decisions[t].reply = None
      BY <3>1 DEF DeciderKnows
    <3>3. CASE Reply(t, "proposal_not_found") \/ Reply(t, "already_resolved")
      BY <2>1, <3>3, ReplyMoves
    <3>4. CASE /\ Proposed(r.proposal)
               /\ decisions' = [decisions EXCEPT ![t].at = "append"]
      <4>1. Proposed(r.proposal)'
        BY <2>1, <3>4, RecordsStay
      <4> QED BY <2>1, <3>2, <3>4, <4>1, DeciderAdvances
    <3> QED BY <2>1, <2>3, <3>2, <3>3, <3>4 DEF ProjectProposal
  <2>4. CASE ConfirmReview(t)
    <3>1. DeciderKnows(t) /\ decisions[t].at = "confirm"
      BY <2>4 DEF ConfirmReview, ClientsKnow
    <3>2. PICK r \in DecisionRequests : decisions[t].request = r /\ OnRecord(r)
      BY <3>1 DEF DeciderKnows
    <3>3. Resolve(t, r)
      BY <2>4, <3>2, VerdictShows DEF ConfirmReview
    <3>4. OnRecord(r)'
      BY <2>1, <3>2, RecordsStay
    <3> QED BY <2>1, <3>3, <3>4, ResolveMoves
  <2>5. CASE DecisionCrash(t)
    BY <2>1, <2>5, ReplyMoves DEF DecisionCrash
  <2> QED BY <1>1, <2>2, <2>3, <2>4, <2>5 DEF DecisionStep
<1> QED
  BY <1>1, <1>2
     DEF DecisionStep, DecisionLookUp, ProjectProposal, ConfirmReview, DecisionCrash

LEMMA ReadMoves ==
    ASSUME ClientsTyped, ClientsKnow, Grows, NEW t \in Reads,
           NEW place \in {"put", "link", "observe", "done"}, GotoRead(t, place),
           place # "done" => t \in spent',
           temporaries' \subseteq Reads, UNCHANGED <<imports, decisions>>
    PROVE  ClientsTyped' /\ ClientsKnow'
<1>1. /\ reads' \in [Reads -> {"idle", "put", "link", "observe", "done"}]
      /\ \A u \in Reads \ {t} : reads'[u] = reads[u]
      /\ reads'[t] = place
  BY DEF GotoRead, ClientsTyped
<1> QED BY <1>1, OthersKeepKnowing DEF ClientsTyped, ClientsKnow

\* Whatever a thread of a read does.
LEMMA ReadStepKeeps ==
    ASSUME Sound(Live), ClientsTyped, ClientsKnow, NEW t \in Reads, ReadStep(t)
    PROVE  Sound(Live)' /\ ClientsTyped' /\ ClientsKnow' /\ Grows
<1>1. CASE SpendGrant(t)
  <2>1. /\ spent' = spent \cup {t}
        /\ UNCHANGED <<events, memory, artifacts, imports, decisions, temporaries>>
    BY <1>1 DEF SpendGrant, proposalVars
  <2>2. Sound(Live)' /\ Grows
    BY <2>1 DEF Sound, Live, Workspace, KnowsGrants, Grows
  <2> QED BY <1>1, <2>1, <2>2, ReadMoves DEF SpendGrant, ClientsTyped
<1>2. CASE OpenTemporary(t)
  <2>1. /\ UNCHANGED <<events, memory, artifacts, spent, imports, decisions>>
        /\ temporaries' = temporaries \cup {t} /\ t \in spent
    BY <1>2 DEF OpenTemporary, proposalVars, ClientsKnow
  <2>2. Sound(Live)' /\ Grows
    BY <2>1 DEF Sound, Live, Workspace, Grows
  <2>3. t \in spent' /\ temporaries' \subseteq Reads
    BY <2>1 DEF ClientsTyped
  <2> QED BY <1>2, <2>1, <2>2, <2>3, ReadMoves DEF OpenTemporary
<1>3. CASE LinkArtifact(t)
  <2>1. /\ UNCHANGED <<events, memory, spent, imports, decisions>>
        /\ artifacts' = artifacts \cup {t} /\ t \in spent
        /\ temporaries' = temporaries \ {t}
    BY <1>3 DEF LinkArtifact, Published, ClientsKnow
  <2>2. Sound(Live)' /\ Grows
    BY <2>1 DEF Sound, Live, Workspace, HasArtifacts, Stores, Grows
  <2>3. t \in spent' /\ temporaries' \subseteq Reads
    BY <2>1 DEF ClientsTyped
  <2> QED BY <1>3, <2>1, <2>2, <2>3, ReadMoves DEF LinkArtifact
<1>4. CASE RecordObservation(t)
  <2> DEFINE e == Observation(t)
  <2>1. /\ events' = Appended(e, AppendOutcome(e, FALSE))
        /\ UNCHANGED <<memory, spent, artifacts, imports, decisions, temporaries>>
        /\ t \in spent
    BY <1>4 DEF RecordObservation, ClientsKnow
  <2>2. e.op = "observation" /\ e.artifact = t
    BY DEF Observation
  <2>3. Sound(Live)' /\ events \subseteq events'
    <3> HIDE DEF e
    <3>1. e.op # "association"
      BY <2>2
    <3> QED BY <2>1, <2>2, <3>1, AppendKeepsSound
  <2>4. Grows
    BY <2>1, <2>3 DEF Grows
  <2>5. temporaries' \subseteq Reads
    BY <2>1 DEF ClientsTyped
  <2> QED BY <1>4, <2>1, <2>3, <2>4, <2>5, ReadMoves DEF RecordObservation
<1>5. CASE ReadCrash(t)
  <2>1. UNCHANGED <<events, memory, artifacts, spent, imports, decisions, temporaries>>
    BY <1>5 DEF ReadCrash, proposalVars
  <2>2. Sound(Live)' /\ Grows
    BY <2>1 DEF Sound, Live, Workspace, Grows
  <2>3. temporaries' \subseteq Reads
    BY <2>1 DEF ClientsTyped
  <2> QED BY <1>5, <2>1, <2>2, <2>3, ReadMoves DEF ReadCrash
<1> QED BY <1>1, <1>2, <1>3, <1>4, <1>5 DEF ReadStep

\* Whatever a request does: records only grow.
LEMMA RequestKeeps ==
    ASSUME Sound(Live), ClientsTyped, ClientsKnow, Request
    PROVE  /\ Sound(Live)' /\ ClientsTyped' /\ ClientsKnow' /\ Grows
           /\ UNCHANGED recoveryVars
<1>1. ASSUME NEW t \in Imports, ImportStep(t),
             UNCHANGED <<decisions, spent, reads, temporaries, recoveryVars>>
      PROVE  /\ Sound(Live)' /\ ClientsTyped' /\ ClientsKnow' /\ Grows
             /\ UNCHANGED recoveryVars
  BY <1>1, ImportStepKeeps
<1>2. ASSUME RecordCreated,
             UNCHANGED <<decisions, spent, reads, temporaries, recoveryVars>>
      PROVE  /\ Sound(Live)' /\ ClientsTyped' /\ ClientsKnow' /\ Grows
             /\ UNCHANGED recoveryVars
  BY <1>2, RecordCreatedKeeps
<1>3. ASSUME NEW t \in Deciders, DecisionStep(t),
             UNCHANGED <<spent, reads, temporaries, recoveryVars>>
      PROVE  /\ Sound(Live)' /\ ClientsTyped' /\ ClientsKnow' /\ Grows
             /\ UNCHANGED recoveryVars
  BY <1>3, DecisionStepKeeps
<1>4. ASSUME NEW t \in Reads, ReadStep(t), UNCHANGED recoveryVars
      PROVE  /\ Sound(Live)' /\ ClientsTyped' /\ ClientsKnow' /\ Grows
             /\ UNCHANGED recoveryVars
  BY <1>4, ReadStepKeeps
<1> QED BY <1>1, <1>2, <1>3, <1>4 DEF Request, ProposalNext, ImportNext

-----------------------------------------------------------------------------
(* The export.                                                             *)

\* Beside requests, what is copied stays on record.
LEMMA ExportGoesOn ==
    ASSUME ExportInv, Grows, UNCHANGED export
    PROVE  ExportInv'
<1>1. Copies \subseteq Copies'
  BY DEF Copies, Grows
<1>2. export \in Exports'
  BY <1>1 DEF ExportInv, Exports, Grows
<1> QED BY <1>2 DEF ExportInv

\* Nothing is copied yet, or any more.
LEMMA ExportIdle ==
    ASSUME export' = NoExport
    PROVE  ExportInv' /\ export'.at = 0
<1>1. Empty \in Copies'
  BY DEF Empty, Workspace, Copies
<1>2. export' \in Exports'
  BY <1>1 DEF NoExport, Exports
<1>3. CopyClosed(0, Empty, {})
  BY DEF CopyClosed, Empty, Workspace, SoundEvents
<1> QED BY <1>2, <1>3 DEF ExportInv, NoExport

\* The export takes a step.
LEMMA ExportAdvances ==
    ASSUME NEW N, NEW C, NEW L, NEW T,
           NEW x \in [at : N, copy : C, listed : L, leftovers : T],
           NEW n \in N, NEW c \in C, NEW l \in L, NEW t \in T
    PROVE  /\ [x EXCEPT !.at = n, !.copy = c] \in
                 [at : N, copy : C, listed : L, leftovers : T]
           /\ [x EXCEPT !.at = n, !.listed = l, !.leftovers = t] \in
                 [at : N, copy : C, listed : L, leftovers : T]
OBVIOUS

\* The next database is copied as it is.
LEMMA CopyGrows ==
    ASSUME ExportInv, NEW store \in {"events", "memory", "spent"}, NEW value,
           NEW at \in 1 .. 3, at = export.at + 1,
           store = "events" => value = events,
           store = "memory" => value = memory,
           store = "spent" => value = spent,
           export' = [export EXCEPT !.at = @ + 1, !.copy[store] = value],
           UNCHANGED <<events, memory, spent, artifacts>>
    PROVE  /\ export' \in Exports'
           /\ export'.at = at /\ export'.listed = export.listed
           /\ export'.copy = [export.copy EXCEPT ![store] = value]
<1> DEFINE c == [export.copy EXCEPT ![store] = value]
<1>1. export \in Exports /\ export.copy \in Copies
  BY DEF ExportInv, Exports
<1>2. c \in Copies
  BY <1>1 DEF Copies
<1>3. export' = [export EXCEPT !.at = @ + 1, !.copy = c]
  BY Zenon
<1> HIDE DEF c
<1>4. Exports' = Exports
  BY DEF Exports, Copies
<1>5. export' \in Exports
  <2>1. export' = [export EXCEPT !.at = at, !.copy = c]
    BY <1>3
  <2>2. at \in 0 .. 4 /\ {} \in SUBSET artifacts /\ {} \in SUBSET Reads
    OBVIOUS
  <2>3. export \in [at : 0 .. 4, copy : Copies, listed : SUBSET artifacts,
                    leftovers : SUBSET Reads]
    BY <1>1 DEF Exports
  <2>4. [export EXCEPT !.at = at, !.copy = c] \in
           [at : 0 .. 4, copy : Copies, listed : SUBSET artifacts,
            leftovers : SUBSET Reads]
    BY <1>2, <2>2, <2>3, ExportAdvances, Zenon
  <2> QED BY <2>1, <2>4, Zenon DEF Exports
<1>6. export'.at = at /\ export'.listed = export.listed
  BY <1>1, <1>3 DEF Exports
<1>7. export'.copy = c
  BY <1>1, <1>3 DEF Exports
<1> QED BY <1>4, <1>5, <1>6, <1>7 DEF c

LEMMA BackUpStoreKeeps ==
    ASSUME Sound(Live), ExportInv, BackUpStore
    PROVE  ExportInv' /\ export'.at # 0
<1> DEFINE copy == export.copy
           at == export.at + 1
           store == StoreOrder[at]
<1>1. UNCHANGED <<events, memory, spent, artifacts>>
  BY DEF BackUpStore, storeVars
<1>2. /\ Live["events"] = events /\ Live["memory"] = memory /\ Live["spent"] = spent
      /\ SoundEvents(events) /\ KnowsTargets(events, memory)
      /\ KnowsGrants(events, spent)
  BY DEF Live, Workspace, Sound
<1>3. at \in 1 .. 3
  BY DEF BackUpStore, StoreOrder, ExportInv, Exports
<1>4. /\ copy.events \subseteq events /\ copy \in Copies
      /\ CopyClosed(export.at, copy, export.listed)
  BY DEF ExportInv, Exports, Copies
<1>5. /\ at = 1 => store = "events"
      /\ at = 2 => store = "memory"
      /\ at = 3 => store = "spent"
  BY DEF StoreOrder
<1>6. export' = [export EXCEPT !.at = @ + 1, !.copy[store] = Live[store]]
  BY Zenon DEF BackUpStore
<1>7. store \in {"events", "memory", "spent"}
  BY <1>3, <1>5
<1>8. export.at \in 0 .. 4
  BY DEF ExportInv, Exports
<1> HIDE DEF store, copy, at
<1>9. /\ export' \in Exports' /\ export'.at = at /\ export'.listed = export.listed
      /\ export'.copy = [copy EXCEPT ![store] = Live[store]]
  BY <1>1, <1>2, <1>3, <1>6, <1>7, CopyGrows DEF at, copy
<1>10. CopyClosed(export'.at, export'.copy, export'.listed)
  <2>1. CASE at = 1
    <3>1. export'.copy.events = events
      BY <1>2, <1>4, <1>5, <1>9, <2>1 DEF Copies
    <3> QED BY <1>2, <1>9, <2>1, <3>1 DEF CopyClosed
  <2>2. CASE at = 2
    <3>1. export'.copy.events = copy.events /\ export'.copy.memory = memory
      BY <1>2, <1>4, <1>5, <1>9, <2>2 DEF Copies
    <3> QED BY <1>2, <1>4, <1>9, <2>2, <3>1 DEF CopyClosed, KnowsTargets
  <2>3. CASE at = 3
    <3>1. /\ export'.copy.events = copy.events /\ export'.copy.memory = copy.memory
          /\ export'.copy.spent = spent
      BY <1>2, <1>4, <1>5, <1>9, <2>3 DEF Copies
    <3>2. KnowsTargets(copy.events, copy.memory)
      <4>1. export.at = 2
        BY <1>3, <2>3, <1>8 DEF at
      <4> QED BY <1>4, <4>1 DEF CopyClosed
    <3> QED BY <1>2, <1>4, <1>9, <2>3, <3>1, <3>2 DEF CopyClosed, KnowsGrants
  <2> QED BY <1>3, <2>1, <2>2, <2>3
<1> QED BY <1>3, <1>9, <1>10 DEF ExportInv

\* The artifacts of every copied event are listed.
LEMMA ListArtifactsKeeps ==
    ASSUME Sound(Live), ClientsTyped, ExportInv, ListArtifacts
    PROVE  ExportInv' /\ export'.at # 0
<1>1. /\ export.at = 3 /\ UNCHANGED <<events, memory, spent, artifacts>>
      /\ export' = [export EXCEPT !.at = @ + 1, !.listed = artifacts,
                                  !.leftovers = temporaries]
  BY DEF ListArtifacts, StoreOrder, storeVars
<1>2. /\ export \in Exports /\ export.copy \in Copies
      /\ HasArtifacts(events, artifacts)
      /\ CopyClosed(3, export.copy, export.listed)
  BY <1>1 DEF ExportInv, Exports, Sound, Live, Workspace
<1>3. HasArtifacts(export.copy.events, artifacts)
  BY <1>2 DEF Copies, HasArtifacts
<1>4. temporaries \subseteq Reads
  BY DEF ClientsTyped
<1>5. export' \in Exports
  <2> DEFINE at == export.at + 1
  <2>1. export' = [export EXCEPT !.at = at, !.listed = artifacts,
                                 !.leftovers = temporaries]
    BY <1>1
  <2>2. artifacts \in SUBSET artifacts /\ temporaries \in SUBSET Reads /\ at \in 0 .. 4
    BY <1>1, <1>4
  <2> HIDE DEF at
  <2> QED BY <1>2, <2>1, <2>2, ExportAdvances, Zenon DEF Exports
<1>6. Exports' = Exports
  BY <1>1 DEF Exports, Copies
<1>7. /\ export'.at = 4 /\ export'.listed = artifacts
      /\ export'.copy = export.copy
  BY <1>1, <1>2 DEF Exports
<1>8. CopyClosed(4, export.copy, artifacts)
  BY <1>2, <1>3 DEF CopyClosed
<1> QED BY <1>5, <1>6, <1>7, <1>8 DEF ExportInv

\* What is published is sound.
LEMMA PublishBundleSound ==
    ASSUME Sound(Live), ExportInv, PublishBundle
    PROVE  Sound(bundle')
<1> DEFINE copy == export.copy
<1>1. export.at = 4
  BY DEF PublishBundle, CopyingArtifacts, StoreOrder
<1>2. PICK late \in SUBSET (artifacts \ export.listed) :
         bundle' = [copy EXCEPT !.artifacts = export.listed \cup late]
  BY DEF PublishBundle
<1>3. copy \in Copies /\ CopyClosed(4, copy, export.listed)
      /\ export.listed \subseteq artifacts
  BY <1>1 DEF ExportInv, Exports
<1>4. /\ bundle'.events = copy.events /\ bundle'.memory = copy.memory
      /\ bundle'.spent = copy.spent
      /\ bundle'.artifacts = export.listed \cup late
  BY <1>2, <1>3 DEF Copies
<1>5. /\ SoundEvents(copy.events) /\ KnowsTargets(copy.events, copy.memory)
      /\ KnowsGrants(copy.events, copy.spent) /\ HasArtifacts(copy.events, export.listed)
  BY <1>3 DEF CopyClosed
<1>6. /\ copy.memory \subseteq Targets /\ copy.spent \subseteq Reads
      /\ export.listed \cup late \subseteq Stores
  BY <1>2, <1>3 DEF Copies, Sound, Live, Workspace
<1>7. HasArtifacts(copy.events, export.listed \cup late)
  BY <1>5 DEF HasArtifacts
<1> QED BY <1>4, <1>5, <1>6, <1>7 DEF Sound

-----------------------------------------------------------------------------
(* The restore.                                                            *)

\* Beside requests and the export, the restore is not under way.
LEMMA RestoreWaits ==
    ASSUME RestoreInv, Serving, Grows, UNCHANGED <<restore, aside>>,
           bundle' # None => Sound(bundle') /\ export'.at = 0,
           bundle # None => bundle' = bundle
    PROVE  RestoreInv'
<1>1. CASE restore.at = "idle"
  BY <1>1 DEF RestoreInv, Serving
<1>2. CASE restore.at = "done" /\ aside = None
  <2>1. bundle' = bundle /\ Contains(Live, bundle)
    BY <1>2 DEF RestoreInv
  <2>2. Contains(Live', bundle)
    BY <2>1 DEF Contains, Grows, Live, Workspace
  <2> QED BY <1>2, <2>1, <2>2 DEF RestoreInv
<1> QED BY <1>1, <1>2 DEF Serving

LEMMA ExportStepKeeps ==
    ASSUME IInv, Serving, ExportStep
    PROVE  IInv'
<1>1. /\ UNCHANGED <<events, memory, spent, artifacts>>
      /\ UNCHANGED <<imports, decisions, reads, temporaries, restore, aside>>
  BY DEF ExportStep, BackUpStore, ListArtifacts, PublishBundle, ExportStops,
         storeVars, clientVars
<1>2. Sound(Live)' /\ Grows /\ ClientsTyped'
  BY <1>1 DEF IInv, Sound, Live, Workspace, Grows, ClientsTyped
<1>3. ClientsKnow'
  BY <1>1, <1>2, OthersKeepKnowing DEF IInv, ClientsKnow
<1>4. ExportInv'
  BY BackUpStoreKeeps, ListArtifactsKeeps, ExportIdle
     DEF IInv, ExportStep, PublishBundle, ExportStops
<1>5. /\ bundle' # None => Sound(bundle') /\ export'.at = 0
      /\ bundle # None => bundle' = bundle
  <2>1. CASE BackUpStore
    BY <2>1 DEF BackUpStore
  <2>2. CASE ListArtifacts
    BY <2>2 DEF ListArtifacts, IInv, RestoreInv, StoreOrder
  <2>3. CASE PublishBundle
    <3>1. export.at = 4 /\ export' = NoExport
      BY <2>3 DEF PublishBundle, CopyingArtifacts, StoreOrder
    <3>2. bundle = None
      BY <3>1 DEF IInv, RestoreInv
    <3> QED BY <2>3, <3>1, <3>2, PublishBundleSound, ExportIdle DEF IInv
  <2>4. CASE ExportStops
    BY <2>4, ExportIdle DEF IInv, RestoreInv, ExportStops
  <2> QED BY <2>1, <2>2, <2>3, <2>4 DEF ExportStep
<1>6. RestoreInv'
  BY <1>1, <1>2, <1>5, RestoreWaits DEF IInv
<1> QED BY <1>2, <1>3, <1>4, <1>6 DEF IInv

\* What clients know that have no answer and are at nothing.
NothingKnown ==
    /\ \A t \in Imports : imports[t].reply # "imported"
    /\ \A t \in Deciders : decisions[t].reply # "resolved"

LEMMA QuietClientsKnow ==
    ASSUME ClientsKnow, Quiet, NothingKnown, UNCHANGED <<imports, decisions, reads>>
    PROVE  ClientsKnow'
<1>1. /\ \A t \in Imports : imports[t].at \in {"idle", "done"}
      /\ \A t \in Deciders : decisions[t].at \in {"idle", "done"}
      /\ \A t \in Reads : reads[t] \in {"idle", "done"}
  BY DEF Quiet, Busy
<1>2. \A t \in Imports : ImportKnows(t)'
  BY <1>1 DEF ClientsKnow, ImportKnows, NothingKnown
<1>3. \A t \in Deciders : DeciderKnows(t)'
  BY <1>1 DEF ClientsKnow, DeciderKnows, NothingKnown
<1> QED BY <1>1, <1>2, <1>3 DEF ClientsKnow

LEMMA RestorePlace ==
    ASSUME RestoreInv, NEW place, GotoRestore(place)
    PROVE  /\ restore' = [at |-> place, before |-> restore.before]
           /\ restore'.at = place /\ restore'.before = restore.before
BY DEF RestoreInv, GotoRestore

\* Nothing is exported while a restore is under way.
LEMMA ExportRests ==
    ASSUME ExportInv, Quiet, UNCHANGED export
    PROVE  ExportInv'
<1>1. export' = NoExport
  BY DEF ExportInv, Quiet
<1> QED BY <1>1, ExportIdle

\* A step that changes no store and no client.
LEMMA StoresStay ==
    ASSUME IInv, Quiet, UNCHANGED <<events, memory, spent, artifacts>>,
           UNCHANGED <<imports, decisions, reads, export, bundle>>,
           temporaries' \subseteq Reads
    PROVE  /\ Sound(Live)' /\ ClientsTyped' /\ ClientsKnow' /\ ExportInv'
           /\ Live' = Live /\ Quiet'
<1>1. Live' = Live /\ Grows
  BY DEF Live, Workspace, Grows
<1>2. ClientsKnow'
  BY <1>1, OthersKeepKnowing DEF IInv, ClientsKnow
<1>3. Sound(Live)'
  BY <1>1 DEF IInv, Sound
<1>4. Quiet'
  BY DEF Quiet, Busy
<1> QED BY <1>1, <1>2, <1>3, <1>4, ExportRests DEF IInv, ClientsTyped

LEMMA StageRestoreKeeps ==
    ASSUME IInv, StageRestore
    PROVE  IInv'
<1>1. /\ UNCHANGED <<events, memory, spent, artifacts, export, bundle, aside>>
      /\ UNCHANGED <<imports, decisions, reads, temporaries>>
      /\ restore' = [at |-> "staged", before |-> Live]
      /\ restore.at = "idle" /\ bundle # None /\ Quiet
  BY DEF StageRestore, storeVars, clientVars
<1>2. temporaries' \subseteq Reads
  BY <1>1 DEF IInv, ClientsTyped
<1>3. /\ Sound(Live)' /\ ClientsTyped' /\ ClientsKnow' /\ ExportInv'
      /\ Live' = Live /\ Quiet'
  BY <1>1, <1>2, StoresStay
<1>4. RestoreInv'
  BY <1>1, <1>3 DEF IInv, RestoreInv
<1> QED BY <1>3, <1>4 DEF IInv

\* A restore that ends early keeps what it replaces, here or aside.
LEMMA RestoreEndsEarly ==
    ASSUME IInv, NEW place \in {"failed", "crashed"}, GotoRestore(place),
           restore.at \in {"staged", "away", "published"},
           UNCHANGED <<events, memory, spent, artifacts, export, bundle, aside>>,
           UNCHANGED <<imports, decisions, reads>>, temporaries' \subseteq Reads
    PROVE  IInv'
<1>1. Quiet /\ bundle # None
  BY DEF IInv, RestoreInv
<1>2. /\ Sound(Live)' /\ ClientsTyped' /\ ClientsKnow' /\ ExportInv'
      /\ Live' = Live /\ Quiet'
  BY <1>1, StoresStay
<1>3. /\ restore' = [at |-> place, before |-> restore.before]
      /\ restore'.at = place /\ restore'.before = restore.before
  BY RestorePlace DEF IInv
<1>4. restore.before = aside \/ Contains(Live, restore.before)
  BY DEF IInv, RestoreInv, Contains
<1>5. RestoreInv'
  BY <1>1, <1>2, <1>3, <1>4 DEF IInv, RestoreInv
<1> QED BY <1>2, <1>5 DEF IInv

LEMMA DropAsideKeeps ==
    ASSUME IInv, DropAside
    PROVE  IInv'
<1>1. /\ UNCHANGED <<events, memory, spent, artifacts, export, bundle>>
      /\ UNCHANGED <<imports, decisions, reads, temporaries>>
      /\ restore' = [at |-> "done", before |-> None]
      /\ restore.at = "published" /\ aside' \in {None, aside}
  BY DEF DropAside, storeVars, clientVars
<1>2. Quiet /\ temporaries' \subseteq Reads
  BY <1>1 DEF IInv, RestoreInv, ClientsTyped
<1>3. /\ Sound(Live)' /\ ClientsTyped' /\ ClientsKnow' /\ ExportInv'
      /\ Live' = Live /\ Quiet'
  BY <1>1, <1>2, StoresStay
<1>4. RestoreInv'
  BY <1>1, <1>3 DEF IInv, RestoreInv
<1> QED BY <1>3, <1>4 DEF IInv

\* The stores are those of workspace w.
LEMMA BecomesSound ==
    ASSUME NEW w, LiveBecomes(w), Sound(w)
    PROVE  Sound(Live)' /\ Contains(Live', w)
BY DEF LiveBecomes, Sound, Live, Workspace, Contains

LEMMA EmptySound == Sound(Empty)
BY DEF Sound, Empty, Workspace, SoundEvents, KnowsTargets, KnowsGrants, HasArtifacts

LEMMA StartOver ==
    ASSUME ClientsTyped, ClientsKnow, Quiet, ClientsStartOver, UNCHANGED export
    PROVE  ClientsTyped' /\ ClientsKnow' /\ Quiet' /\ NothingKnown'
<1> DEFINE i == [Idle EXCEPT !.at = "done"]
           d == [Undecided EXCEPT !.at = "done"]
<1>1. i \in ImportLocals /\ d \in DeciderLocals
  BY DEF Idle, Undecided, ImportLocals, ImportPlaces, DeciderLocals
<1>2. i.at = "done" /\ i.reply = None /\ d.at = "done" /\ d.reply = None
  BY DEF Idle, Undecided
<1>3. /\ \A t \in Imports : imports[t].at \in {"idle", "done"} /\ ImportKnows(t)
      /\ \A t \in Deciders : decisions[t].at \in {"idle", "done"} /\ DeciderKnows(t)
      /\ \A t \in Reads : reads[t] \in {"idle", "done"}
  BY DEF Quiet, Busy, ClientsKnow
<1> HIDE DEF i, d
<1>4. /\ imports' \in [Imports -> ImportLocals]
      /\ \A t \in Imports :
            imports'[t] = IF imports[t].at = "done" THEN i ELSE imports[t]
  BY <1>1 DEF ClientsStartOver, ClientsTyped, i
<1>5. /\ decisions' \in [Deciders -> DeciderLocals]
      /\ \A t \in Deciders :
            decisions'[t] = IF decisions[t].at = "done" THEN d ELSE decisions[t]
  BY <1>1 DEF ClientsStartOver, ClientsTyped, d
<1>6. UNCHANGED <<reads, temporaries>>
  BY DEF ClientsStartOver
<1>7. \A t \in Imports : /\ imports'[t].at \in {"idle", "done"}
                         /\ imports'[t].reply = None /\ ImportKnows(t)'
  <2> TAKE t \in Imports
  <2>1. CASE imports[t].at = "done"
    BY <1>2, <1>4, <2>1, NoneAssumption DEF ImportKnows
  <2>2. CASE imports[t].at # "done"
    <3>1. imports[t] = Idle /\ imports'[t] = Idle
      BY <1>3, <1>4, <2>2 DEF ImportKnows
    <3> QED BY <3>1, NoneAssumption DEF ImportKnows, Idle
  <2> QED BY <2>1, <2>2
<1>8. \A t \in Deciders : /\ decisions'[t].at \in {"idle", "done"}
                          /\ decisions'[t].reply = None /\ DeciderKnows(t)'
  <2> TAKE t \in Deciders
  <2>1. CASE decisions[t].at = "done"
    BY <1>2, <1>5, <2>1, NoneAssumption DEF DeciderKnows
  <2>2. CASE decisions[t].at # "done"
    <3>1. /\ decisions[t].at = "idle" /\ decisions[t].reply = None
          /\ decisions'[t] = decisions[t]
      BY <1>3, <1>5, <2>2 DEF DeciderKnows
    <3> QED BY <3>1, NoneAssumption DEF DeciderKnows
  <2> QED BY <2>1, <2>2
<1>9. ClientsTyped'
  BY <1>4, <1>5, <1>6 DEF ClientsTyped
<1>10. ClientsKnow'
  BY <1>3, <1>6, <1>7, <1>8 DEF ClientsKnow
<1>11. Quiet'
  BY <1>3, <1>6, <1>7, <1>8 DEF Quiet, Busy
<1>12. NothingKnown'
  BY <1>7, <1>8, NoneAssumption DEF NothingKnown
<1> QED BY <1>9, <1>10, <1>11, <1>12

LEMMA MoveAwayKeeps ==
    ASSUME IInv, MoveAway
    PROVE  IInv'
<1>1. /\ restore.at = "staged" /\ LiveBecomes(Empty) /\ aside' = Live
      /\ ClientsStartOver /\ GotoRestore("away") /\ UNCHANGED <<export, bundle>>
  BY DEF MoveAway, SetAside
<1>2. /\ Quiet /\ bundle # None /\ restore.before = Live /\ export.at = 0
      /\ Sound(bundle) /\ Sound(Live)
  BY <1>1 DEF IInv, RestoreInv
<1>3. Sound(Live)'
  BY <1>1, EmptySound, BecomesSound
<1>4. ClientsTyped' /\ ClientsKnow' /\ Quiet' /\ NothingKnown'
  BY <1>1, <1>2, StartOver DEF IInv
<1>5. ExportInv'
  BY <1>1, <1>2, ExportRests DEF IInv
<1>6. /\ restore' = [at |-> "away", before |-> restore.before]
      /\ restore'.at = "away" /\ restore'.before = aside'
  BY <1>1, <1>2, RestorePlace DEF IInv
<1>7. /\ Sound(aside') /\ Sound(bundle') /\ export'.at = 0 /\ bundle' # None
  BY <1>1, <1>2
<1>8. RestoreInv'
  BY <1>4, <1>6, <1>7 DEF RestoreInv, NothingKnown
<1> QED BY <1>3, <1>4, <1>5, <1>8 DEF IInv

\* The stores are replaced while no client knows anything.
LEMMA Replaced ==
    ASSUME IInv, restore.at = "away", NEW w, LiveBecomes(w), Sound(w),
           UNCHANGED <<imports, decisions, reads, export, bundle>>,
           temporaries' \subseteq Reads
    PROVE  /\ Sound(Live)' /\ ClientsTyped' /\ ClientsKnow' /\ ExportInv'
           /\ Contains(Live', w) /\ Quiet'
           /\ bundle' # None /\ Sound(bundle') /\ export'.at = 0
<1>1. /\ Quiet /\ NothingKnown /\ bundle # None /\ Sound(bundle) /\ export.at = 0
  BY DEF IInv, RestoreInv, NothingKnown
<1>2. ClientsKnow' /\ ExportInv' /\ Quiet'
  BY <1>1, QuietClientsKnow, ExportRests DEF IInv, Quiet, Busy
<1> QED BY <1>1, <1>2, BecomesSound DEF IInv, ClientsTyped

LEMMA MoveInKeeps ==
    ASSUME IInv, MoveIn
    PROVE  IInv'
<1>1. /\ restore.at = "away" /\ LiveBecomes(bundle) /\ temporaries' = {}
      /\ GotoRestore("published")
      /\ UNCHANGED <<imports, decisions, reads, export, bundle, aside>>
  BY DEF MoveIn
<1>2. Sound(bundle) /\ restore.before = aside /\ Sound(aside)
  BY <1>1 DEF IInv, RestoreInv
<1>3. /\ Sound(Live)' /\ ClientsTyped' /\ ClientsKnow' /\ ExportInv'
      /\ Contains(Live', bundle) /\ Quiet'
      /\ bundle' # None /\ Sound(bundle') /\ export'.at = 0
  BY <1>1, <1>2, Replaced
<1>4. /\ restore' = [at |-> "published", before |-> restore.before]
      /\ restore'.at = "published" /\ restore'.before = aside'
  BY <1>1, <1>2, RestorePlace DEF IInv
<1>5. RestoreInv'
  BY <1>1, <1>2, <1>3, <1>4 DEF RestoreInv
<1> QED BY <1>3, <1>5 DEF IInv

LEMMA PutBackKeeps ==
    ASSUME IInv, PutBack
    PROVE  IInv'
<1>1. /\ restore.at = "away" /\ LiveBecomes(aside) /\ aside' = None
      /\ GotoRestore("failed")
      /\ UNCHANGED <<imports, decisions, reads, temporaries, export, bundle>>
  BY DEF PutBack, clientVars
<1>2. restore.before = aside /\ Sound(aside) /\ temporaries' \subseteq Reads
  BY <1>1 DEF IInv, RestoreInv, ClientsTyped
<1>3. /\ Sound(Live)' /\ ClientsTyped' /\ ClientsKnow' /\ ExportInv'
      /\ Contains(Live', aside) /\ Quiet'
      /\ bundle' # None /\ Sound(bundle') /\ export'.at = 0
  BY <1>1, <1>2, Replaced
<1>4. /\ restore' = [at |-> "failed", before |-> restore.before]
      /\ restore'.at = "failed" /\ restore'.before = aside
  BY <1>1, <1>2, RestorePlace DEF IInv
<1>5. RestoreInv'
  BY <1>1, <1>3, <1>4 DEF RestoreInv
<1> QED BY <1>3, <1>5 DEF IInv

LEMMA RestoreStepKeeps ==
    ASSUME IInv, RestoreStep
    PROVE  IInv'
<1>1. CASE RestoreRefused
  <2>1. /\ restore.at = "staged" /\ GotoRestore("failed")
        /\ UNCHANGED <<events, memory, spent, artifacts, export, bundle, aside>>
        /\ UNCHANGED <<imports, decisions, reads, temporaries>>
    BY <1>1 DEF RestoreRefused, storeVars, clientVars
  <2>2. temporaries' \subseteq Reads
    BY <2>1 DEF IInv, ClientsTyped
  <2> QED BY <2>1, <2>2, RestoreEndsEarly
<1>2. CASE RestoreCrash
  <2>1. /\ restore.at \in {"staged", "away", "published"} /\ GotoRestore("crashed")
        /\ UNCHANGED <<events, memory, spent, artifacts, export, bundle, aside>>
        /\ UNCHANGED <<imports, decisions, reads>>
    BY <1>2 DEF RestoreCrash, storeVars
  <2>2. temporaries' \subseteq Reads
    BY <1>2 DEF RestoreCrash, IInv, ClientsTyped
  <2> QED BY <2>1, <2>2, RestoreEndsEarly
<1> QED
  BY <1>1, <1>2, StageRestoreKeeps, MoveAwayKeeps, MoveInKeeps, PutBackKeeps,
     DropAsideKeeps DEF RestoreStep

-----------------------------------------------------------------------------
(* The invariant is inductive.                                             *)

LEMMA InitSatisfies == Init => IInv
<1> SUFFICES ASSUME Init PROVE IInv
  OBVIOUS
<1> USE DEF Init, ProposalInit, ImportInit
<1>1. Sound(Live)
  BY DEF Sound, Live, Workspace, SoundEvents, KnowsTargets, KnowsGrants, HasArtifacts
<1>2. ClientsTyped
  <2>1. Idle \in ImportLocals /\ Undecided \in DeciderLocals
    BY DEF Idle, Undecided, ImportLocals, ImportPlaces, DeciderLocals
  <2> QED BY <2>1 DEF ClientsTyped
<1>3. ClientsKnow
  <2>1. \A t \in Imports : imports[t] = Idle /\ Idle.at = "idle" /\ Idle.reply = None
    BY DEF Idle
  <2>2. \A t \in Deciders : /\ decisions[t].at = "idle" /\ decisions[t].reply = None
    BY DEF Undecided
  <2>3. \A t \in Imports : ImportKnows(t)
    BY <2>1, NoneAssumption DEF ImportKnows
  <2>4. \A t \in Deciders : DeciderKnows(t)
    BY <2>2, NoneAssumption DEF DeciderKnows
  <2> QED BY <2>3, <2>4 DEF ClientsKnow
<1>4. ExportInv
  <2>1. export \in Exports
    BY DEF Exports, Copies, NoExport, Empty, Workspace
  <2>2. CopyClosed(0, Empty, {})
    BY DEF CopyClosed, Empty, Workspace, SoundEvents
  <2> QED BY <2>1, <2>2 DEF ExportInv, NoExport
<1>5. RestoreInv
  BY DEF RestoreInv, NoRestore
<1> QED BY <1>1, <1>2, <1>3, <1>4, <1>5 DEF IInv

LEMMA StepKeeps == IInv /\ [Next]_vars => IInv'
<1> SUFFICES ASSUME IInv, [Next]_vars PROVE IInv'
  OBVIOUS
<1>1. CASE Serving /\ Request
  <2>1. /\ Sound(Live)' /\ ClientsTyped' /\ ClientsKnow' /\ Grows
        /\ UNCHANGED recoveryVars
    BY <1>1, RequestKeeps DEF IInv
  <2>2. ExportInv'
    BY <2>1, ExportGoesOn DEF IInv, recoveryVars
  <2>3. RestoreInv'
    BY <1>1, <2>1, RestoreWaits DEF IInv, recoveryVars, RestoreInv
  <2> QED BY <2>1, <2>2, <2>3 DEF IInv
<1>2. CASE Serving /\ ExportStep
  BY <1>2, ExportStepKeeps
<1>3. CASE RestoreStep
  BY <1>3, RestoreStepKeeps
<1>4. CASE UNCHANGED vars
  <2>1. /\ UNCHANGED <<events, memory, spent, artifacts>>
        /\ UNCHANGED <<imports, decisions, reads, temporaries>>
        /\ UNCHANGED <<export, bundle, restore, aside>>
    BY <1>4 DEF vars, proposalVars, recoveryVars
  <2>2. Live' = Live /\ Grows /\ Quiet' = Quiet
    BY <2>1 DEF Live, Workspace, Grows, Quiet, Busy
  <2>3. Sound(Live)' /\ ClientsTyped'
    BY <2>1, <2>2 DEF IInv, Sound, ClientsTyped
  <2>4. ClientsKnow'
    BY <2>1, <2>2, OthersKeepKnowing DEF IInv, ClientsKnow
  <2>5. ExportInv'
    BY <2>1, <2>2, ExportGoesOn DEF IInv
  <2>6. RestoreInv'
    BY <2>1, <2>2 DEF IInv, RestoreInv
  <2> QED BY <2>3, <2>4, <2>5, <2>6 DEF IInv
<1> QED BY <1>1, <1>2, <1>3, <1>4 DEF Next

LEMMA InvariantHolds == Spec => []IInv
<1>1. Init => IInv
  BY InitSatisfies
<1>2. IInv /\ [Next]_vars => IInv'
  BY StepKeeps
<1> QED BY <1>1, <1>2, PTL DEF Spec

-----------------------------------------------------------------------------
(* What follows from it.                                                   *)

\* Clients, stores and the export hold what their fields are for.
THEOREM RecoveryTypeCorrect == Spec => []RecoveryTypeOK
<1>1. IInv => RecoveryTypeOK
  <2> SUFFICES ASSUME IInv PROVE RecoveryTypeOK
    OBVIOUS
  <2>1. \A e \in events : e.artifact \in Contents \cup Reads \cup {None}
    BY EventArtifact DEF IInv, Stores
  <2>2. /\ artifacts \subseteq Contents \cup Reads /\ memory \subseteq Targets
        /\ spent \subseteq Reads /\ temporaries \subseteq Reads
    BY DEF IInv, Sound, Live, Workspace, Stores, ClientsTyped
  <2>3. \A t \in Imports :
           /\ imports[t].at \in ImportPlaces
           /\ imports[t].at = "associate" => imports[t].request.target \in memory
    <3> TAKE t \in Imports
    <3>1. imports[t] \in ImportLocals /\ ImportKnows(t)
      BY DEF IInv, ClientsTyped, ClientsKnow
    <3>2. imports[t].at \in ImportPlaces
      BY <3>1 DEF ImportLocals
    <3> QED BY <3>1, <3>2 DEF ImportKnows, Resolves
  <2>4. export.at \in 0 .. Len(StoreOrder) + 1 /\ export.listed \subseteq artifacts
    <3>1. Len(StoreOrder) = 3
      BY DEF StoreOrder
    <3> QED BY <3>1 DEF IInv, ExportInv, Exports
  <2> QED BY <2>1, <2>2, <2>3, <2>4 DEF RecoveryTypeOK
<1> QED BY <1>1, InvariantHolds, PTL

\* A client that is told of an import is told of what is on record under its
\* key and id, and of the association it asked for, whatever other threads,
\* edits and crashes came between the steps of import_artifact.
THEOREM ImportAnswersDurable == Spec => []ImportAnswersAreDurable
<1>1. IInv => ImportAnswersAreDurable
  <2> SUFFICES ASSUME IInv, NEW t \in Imports, imports[t].reply = "imported"
               PROVE  \E e \in events :
                         /\ e.key = imports[t].request.key
                         /\ e.id = imports[t].request.id /\ e.op = "import"
                         /\ e.about = imports[t].request.source
                         /\ e.artifact = imports[t].artifact
                         /\ imports[t].request.target # None =>
                               AssociationStands(e, imports[t].request)
    BY DEF ImportAnswersAreDurable
  <2> DEFINE r == imports[t].request
             c == imports[t].artifact
  <2>1. Imported(r, c) /\ (r.target # None => Associated(r, c))
    BY DEF IInv, ClientsKnow, ImportKnows
  <2>2. PICK e \in events : /\ e.key = r.key /\ e.id = r.id /\ e.op = "import"
                            /\ e.about = r.source /\ e.artifact = c
    BY <2>1 DEF Imported
  <2>3. r.target # None => AssociationStands(e, r)
    BY <2>1, <2>2 DEF Associated, AssociationStands
  <2> QED BY <2>2, <2>3
<1> QED BY <1>1, InvariantHolds, PTL

\* An association on record proposes exactly what its import stored, to a
\* target that exists, also when two sends of one request read different
\* contents of the file.
THEOREM AssociationsGrounded == Spec => []AssociationsAreGrounded
<1>1. IInv => AssociationsAreGrounded
  BY DEF IInv, Sound, Live, Workspace, SoundEvents, KnowsTargets,
         AssociationsAreGrounded
<1> QED BY <1>1, InvariantHolds, PTL

\* One human decision stands per proposal, every client is told of that one,
\* and a decision that was appended is found again by the second projection of
\* decide_memory_proposal.
THEOREM DecisionsFinal == Spec => []DecisionsAreFinal
<1>1. IInv => DecisionsAreFinal
  <2> SUFFICES ASSUME IInv PROVE DecisionsAreFinal
    OBVIOUS
  <2>1. \A e1, e2 \in events :
           IsReview(e1) /\ IsReview(e2) /\ e1.about = e2.about => e1 = e2
    BY DEF IInv, Sound, Live, Workspace, SoundEvents
  <2>2. \A t \in Deciders : DeciderKnows(t)
    BY DEF IInv, ClientsKnow
  <2> QED BY <2>1, <2>2 DEF DecisionsAreFinal, DeciderKnows, OnRecord
<1> QED BY <1>1, InvariantHolds, PTL

\* No reference of the live workspace, the bundle or the rollback directory
\* leads nowhere, whatever is written while an export copies its parts.
THEOREM WorkspacesClosed == Spec => []WorkspacesAreClosed
<1>1. ASSUME NEW w, Sound(w)
      PROVE  Closed(w)
  BY <1>1 DEF Sound, SoundEvents, KnowsTargets, HasArtifacts, Closed
<1>2. IInv => WorkspacesAreClosed
  BY <1>1 DEF IInv, RestoreInv, WorkspacesAreClosed
<1> QED BY <1>2, InvariantHolds, PTL

\* Whoever sees what was read under a grant sees the grant as used up, in the
\* live workspace, in a bundle and after its restore.
THEOREM GrantsSpent == Spec => []GrantsStaySpent
<1>1. IInv => GrantsStaySpent
  BY DEF IInv, RestoreInv, Sound, KnowsGrants, GrantsStaySpent
<1> QED BY <1>1, InvariantHolds, PTL

\* A restore has the workspace it replaces in place or aside until it is done,
\* and also when it fails or dies on the way.
THEOREM RestoreLossless == Spec => []RestoreLosesNothing
<1>1. IInv => RestoreLosesNothing
  <2> SUFFICES ASSUME IInv PROVE RestoreLosesNothing
    OBVIOUS
  <2>1. restore.at = "staged" => Contains(Live, restore.before)
    BY DEF IInv, RestoreInv, Contains
  <2> QED BY <2>1 DEF IInv, RestoreInv, RestoreLosesNothing
<1> QED BY <1>1, InvariantHolds, PTL

=============================================================================
