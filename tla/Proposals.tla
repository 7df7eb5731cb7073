------------------------------ MODULE Proposals ------------------------------
(***************************************************************************)
(* Human decisions on proposed associations: decide_memory_proposal of     *)
(* src/oscillink_agent/proposals/service.py over the projection of         *)
(* proposals/repository.py, beside the imports that make the proposals.    *)
(*                                                                         *)
(* A decision looks for its key, projects the proposal, appends, and       *)
(* projects it again.  Nothing holds a lock in between: of two decisions   *)
(* on one proposal the unique index of the ledger lets one in.             *)
(*                                                                         *)
(* Data abstraction.  One human; a request id stands for the fields sent   *)
(* with it.                                                                *)
(***************************************************************************)
EXTENDS ArtifactImports

CONSTANTS Deciders,          \* threads that run one decision request
          DecisionRequests   \* [id, key, proposal, verdict]

ASSUME DecisionRequestsAssumption ==
    \A r \in DecisionRequests : r.verdict \in {"approved", "rejected"}

VARIABLE decisions    \* thread -> its place in the handler and its locals

proposalVars == <<events, artifacts, memory, imports, decisions>>

Undecided == [at |-> "idle", request |-> None, reply |-> None]

\* project_memory_proposals: an association of an import, with its review.
Proposed(proposal) ==
    \E e \in events :
        /\ e.id = proposal /\ e.op = "association" /\ e.detail = "pending_review"
        /\ \E i \in events : i.id = e.parent /\ i.op \in {"import", "import_failed"}

\* The state of a projected proposal.  Of several reviews the projection would
\* take the last; the unique index keeps them to one.
ProposalState(proposal) ==
    IF ReviewsOf(proposal) = {} THEN "pending_review"
    ELSE (CHOOSE e \in ReviewsOf(proposal) : TRUE).detail

ReviewEvent(t) ==
    LET r == decisions[t].request
        proposal == CHOOSE e \in events : e.id = r.proposal
    IN  [id |-> r.id, key |-> r.key, op |-> "review", parent |-> r.proposal,
         artifact |-> proposal.artifact, about |-> r.proposal, detail |-> r.verdict]

\* Event e, found under the key of request r, is the durable answer to it.
ReplaysDecision(e, r) ==
    /\ e.id = r.id /\ IsReview(e) /\ e.parent = r.proposal /\ e.detail = r.verdict
    /\ Proposed(r.proposal) /\ ProposalState(r.proposal) = r.verdict
    /\ e \in ReviewsOf(r.proposal)

\* The client is told of its own decision, or of an error.
Resolve(t, request) ==
    decisions' = [decisions EXCEPT ![t] =
       [at |-> "done", request |-> request, reply |-> "resolved"]]

Reply(t, reply) ==
    decisions' = [decisions EXCEPT ![t] = [Undecided EXCEPT !.at = "done", !.reply = reply]]

\* decide_memory_proposal up to the lookup of the key and its replay.
DecisionLookUp(t) ==
    /\ decisions[t].at = "idle"
    /\ \E r \in DecisionRequests :
          \/ /\ EventsWithKey(r.key) = {}
             /\ decisions' = [decisions EXCEPT ![t].at = "project", ![t].request = r]
          \/ \E e \in EventsWithKey(r.key) :
                IF ReplaysDecision(e, r) THEN Resolve(t, r)
                ELSE Reply(t, "idempotency_conflict")
    /\ UNCHANGED importVars

\* The proposal must exist and be pending.
ProjectProposal(t) ==
    /\ decisions[t].at = "project"
    /\ LET r == decisions[t].request
       IN  \/ /\ ~Proposed(r.proposal)
              /\ Reply(t, "proposal_not_found")
           \/ /\ Proposed(r.proposal) /\ ProposalState(r.proposal) # "pending_review"
              /\ Reply(t, "already_resolved")
           \/ /\ Proposed(r.proposal) /\ ProposalState(r.proposal) = "pending_review"
              /\ decisions' = [decisions EXCEPT ![t].at = "append"]
    /\ UNCHANGED importVars

\* What a decision is told when the ledger refuses its event; a taken id is
\* caught nowhere.
RefusalReply(outcome) ==
    IF outcome = "constraint" THEN "already_resolved"
    ELSE IF outcome = "idempotency_conflict" THEN "idempotency_conflict"
    ELSE "error"

\* The ledger decides: of two decisions the second is refused.
AppendReview(t) ==
    /\ decisions[t].at = "append"
    /\ \E sameTick \in BOOLEAN :
          LET outcome == AppendOutcome(ReviewEvent(t), sameTick)
          IN  /\ events' = Appended(ReviewEvent(t), outcome)
              /\ IF Committed(outcome)
                 THEN decisions' = [decisions EXCEPT ![t].at = "confirm"]
                 ELSE Reply(t, RefusalReply(outcome))
    /\ UNCHANGED <<artifacts, memory, imports>>

\* The proposal is projected again and must show the verdict.
ConfirmReview(t) ==
    /\ decisions[t].at = "confirm"
    /\ LET r == decisions[t].request
       IN  IF Proposed(r.proposal) /\ ProposalState(r.proposal) = r.verdict
           THEN Resolve(t, r) ELSE Reply(t, "not_projected")
    /\ UNCHANGED importVars

DecisionCrash(t) ==
    /\ MayCrash
    /\ decisions[t].at \notin {"idle", "done"}
    /\ Reply(t, "error")
    /\ UNCHANGED importVars

ProposalInit == ImportInit /\ decisions = [t \in Deciders |-> Undecided]

DecisionStep(t) ==
    \/ DecisionLookUp(t) \/ ProjectProposal(t) \/ AppendReview(t)
    \/ ConfirmReview(t) \/ DecisionCrash(t)

ProposalNext ==
    \/ ImportNext /\ UNCHANGED decisions
    \/ \E t \in Deciders : DecisionStep(t)

ProposalSpec == ProposalInit /\ [][ProposalNext]_proposalVars

-----------------------------------------------------------------------------
(* Safety.                                                                 *)

\* "Append exactly one human decision": a proposal has one durable decision,
\* and every client that is told of a decision, by the first answer or by a
\* replay, is told of that one.  A decision on record never fails to project.
DecisionsAreFinal ==
    /\ \A e1, e2 \in events :
          IsReview(e1) /\ IsReview(e2) /\ e1.about = e2.about => e1 = e2
    /\ \A t \in Deciders : decisions[t].reply = "resolved" =>
          LET r == decisions[t].request
          IN  /\ Proposed(r.proposal)
              /\ \E e \in ReviewsOf(r.proposal) : e.id = r.id /\ e.detail = r.verdict
    /\ \A t \in Deciders : decisions[t].reply # "not_projected"

=============================================================================
