---------------------------- MODULE CapabilityLoop ----------------------------
(***************************************************************************)
(* The governed tool loop: decide_file_read_request of                     *)
(* src/oscillink_agent/capabilities/service.py with the CapabilityBroker   *)
(* of capabilities/broker.py, composed with the chats of AgentRun over one *)
(* ledger.  A human decides on the tool request of a run; an approval      *)
(* becomes a grant of one use, one read and one follow-up call.            *)
(*                                                                         *)
(* Data abstraction.  One kind of failure stands for the refusals of the   *)
(* file system ("file_unavailable"), and any moment may be past the 60     *)
(* seconds of a grant.  What was read is not modelled, that it was is.     *)
(***************************************************************************)
EXTENDS AgentRun

CONSTANTS DecideInputs,   \* [run, id, key, verdict, provider] of decisions
          NoExtension,    \* tool requests whose target has no extension
          UnknownScope,   \* tool requests for a scope that is not configured
          Overlap         \* different decisions on one request may overlap

ASSUME ToolsAssumption == NoExtension \subseteq Tools /\ UnknownScope \subseteq Tools

ASSUME DecideInputsAssumption ==
    \A in \in DecideInputs : in # None /\ in.run \in Runs /\ in.key \in ClientKeys

DecisionIds == {in.id : in \in DecideInputs}

\* What the store of the broker can hold for a decision.
GrantRows ==
    [grant : [run : Runs, tool : Tools, subject : {in.provider : in \in DecideInputs},
              issued : {Stamp[t] : t \in Decides}],
     consumed : BOOLEAN]

ASSUME NoRowAssumption == None \notin GrantRows

VARIABLES grants,   \* decision -> the grant derived from it, or None
          reads     \* reads of files that succeeded

vars == <<chatVars, grants, reads>>

-----------------------------------------------------------------------------
(* Events of a decision.                                                   *)

Decision(t) == Derived(threads[t].input.id, "itself")

Purpose(t, purpose) == Derived(threads[t].input.id, purpose)

\* _append_tool_failure: its id is derived from the decision and the failure.
FailTool(t, kind, parent) ==
    AppendAndReply(t, <<Event(t, kind, "failed", "tool_failed", parent, kind)>>, kind, None)

-----------------------------------------------------------------------------
(* decide_file_read_request.                                               *)

\* The human interface disables its buttons while a decision is under way;
\* without Overlap only repetitions of one decision run together.
MayStart(t, in) ==
    Overlap \/ \A u \in Decides \ {t} :
        threads[u].at \notin {"idle", "done", "crashed"} =>
            <<threads[u].input.id, threads[u].input.key>> = <<in.id, in.key>>

\* inspect: the run as it is now; the handler decides on this reading.
Inspect(t) ==
    /\ t \in Decides /\ threads[t].at = "idle"
    /\ \E in \in DecideInputs :
          LET run == ledger[in.run]
              Says(reply) == [Idle EXCEPT !.at = "done", !.input = in, !.reply = reply]
          IN  /\ MayStart(t, in)
              /\ threads' = [threads EXCEPT ![t] =
                    IF run = <<>> THEN Says("not_found")
                    ELSE IF ~WellFormed(run) THEN Says("incomplete")
                    ELSE [Idle EXCEPT !.at = "look", !.input = in, !.seen = Len(run),
                                      !.manifest = run[2].manifest]]
    /\ UNCHANGED <<ledger, approved, calls, grants, reads>>

Seen(t) == SubSeq(ledger[threads[t].input.run], 1, threads[t].seen)

\* What a repetition of the decision recorded as e is told.
Repeated(t, e) ==
    LET in == threads[t].input
        last == Final(Seen(t))
    IN  IF e.id # Decision(t) \/ e.run # in.run \/ e.data # in.verdict
        THEN [reply |-> "decision_conflict", answer |-> None]
        ELSE IF RunState(Seen(t)) = "completed"
             THEN [reply |-> "answer", answer |-> last.data]
        ELSE IF last.op = "grant_denied" THEN [reply |-> "denied", answer |-> None]
        ELSE IF last.op \in {"model_call_failed", "tool_failed"}
             THEN [reply |-> last.data, answer |-> None]
        ELSE [reply |-> "request_not_pending", answer |-> None]

\* A slip: any decision on a run that asked for a tool is let through.
UndecidedIfAsked(t) ==
    \E i \in 1 .. threads[t].seen : Seen(t)[i].op = "tool_requested"

\* The run, as it was inspected, waits for a decision on its tool request.
Undecided(t) == RunState(Seen(t)) = "awaiting_approval"

Lookup(t) ==
    LET in == threads[t].input
        recorded == EventsWithKey(in.key)
    IN  /\ threads[t].at = "look"
        /\ \/ \E e \in recorded :
                 Reply(t, Repeated(t, e).reply, Repeated(t, e).answer)
           \/ /\ recorded = {}
              /\ ~Undecided(t)
              /\ Reply(t, "request_not_pending", None)
           \/ /\ recorded = {}
              /\ Undecided(t)
              /\ Final(Seen(t)).provider # in.provider
              /\ Reply(t, "provider_identity_mismatch", None)
           \/ /\ recorded = {}
              /\ Undecided(t)
              /\ Final(Seen(t)).provider = in.provider
              /\ threads' = [threads EXCEPT ![t].at = "decide",
                                            ![t].data = Final(Seen(t)).data]
        /\ UNCHANGED <<ledger, approved, calls, grants, reads>>

\* The decision is recorded before anything is granted.
RecordDecision(t) ==
    LET in == threads[t].input
        Entry(op) == <<Event(t, "itself", "", op, ToolEventId(in.run), in.verdict)>>
    IN  /\ threads[t].at = "decide"
        /\ \/ /\ in.verdict = "approved"
              /\ AppendThen(t, Entry("grant_approved"), "register")
           \/ /\ in.verdict = "denied"
              /\ AppendAndReply(t, Entry("grant_denied"), "denied", None)
        /\ UNCHANGED <<approved, calls, grants, reads>>

Grant(t) ==
    [run |-> threads[t].input.run, tool |-> threads[t].data,
     subject |-> threads[t].input.provider, issued |-> Stamp[t]]

\* _validate_authorization: the event is the human approval of this grant,
\* observed when the grant was issued.
Authorized(t) ==
    \E e \in Recorded :
        /\ e.id = Decision(t)
        /\ e.op = "grant_approved"
        /\ e.stamp = Grant(t).issued

\* Why an approval does not become a grant, or None.
GrantDenial(t) ==
    LET row == grants[threads[t].input.id]
    IN  IF threads[t].data \in NoExtension THEN "extension_denied"
        ELSE IF ~Authorized(t) THEN "authorization_invalid"
        ELSE IF threads[t].data \in UnknownScope THEN "scope_unknown"
        ELSE IF row # None /\ row.grant # Grant(t) THEN "grant_conflict"
        ELSE None

\* register_grant: a grant that is registered already is left as it is.
RegisterGrant(t) ==
    LET id == threads[t].input.id
    IN  /\ threads[t].at = "register"
        /\ \/ /\ GrantDenial(t) # None
              /\ FailTool(t, GrantDenial(t), Decision(t))
              /\ UNCHANGED grants
           \/ /\ GrantDenial(t) = None
              /\ grants' = [grants EXCEPT ![id] =
                    IF @ = None THEN [grant |-> Grant(t), consumed |-> FALSE] ELSE @]
              /\ Goto(t, "claim")
              /\ UNCHANGED ledger
        /\ UNCHANGED <<approved, calls, reads>>

\* A slip: the claim is not made durable before the grant is used.
RecordClaimLater(t) ==
    /\ threads[t].at = "claim"
    /\ Goto(t, "execute")
    /\ UNCHANGED <<ledger, approved, calls, grants, reads>>

RecordClaim(t) ==
    /\ threads[t].at = "claim"
    /\ AppendThen(t, <<Event(t, "file-read-claimed", "claimed", "tool_call_claimed",
                             Decision(t), None)>>, "execute")
    /\ UNCHANGED <<approved, calls, grants, reads>>

Refuse(t, kind) ==
    threads' = [threads EXCEPT ![t].at = "fail", ![t].result = kind]

\* A slip: the grant is not marked as used.
GrantUnmarked(t) == grants[threads[t].input.id]

\* The row of the grant after its one use.
GrantUsed(t) == [grants[threads[t].input.id] EXCEPT !.consumed = TRUE]

ClaimDenial(t) ==
    IF grants[threads[t].input.id].consumed THEN "grant_consumed" ELSE "grant_expired"

\* _claim_grant: one transaction of the capability store.
ClaimGrant(t) ==
    LET id == threads[t].input.id
    IN  /\ threads[t].at = "execute"
        /\ \/ Refuse(t, ClaimDenial(t)) /\ UNCHANGED grants
           \/ /\ ~grants[id].consumed
              /\ grants' = [grants EXCEPT ![id] = GrantUsed(t)]
              /\ Goto(t, "read")
        /\ UNCHANGED <<ledger, approved, calls, reads>>

\* The rest of execute_file_read: the use is spent whatever comes of it.
ReadFile(t) ==
    /\ threads[t].at = "read"
    /\ \/ /\ reads' = reads \cup {[by |-> t, run |-> threads[t].input.run,
                                   decision |-> threads[t].input.id]}
          /\ Goto(t, "observe")
       \/ Refuse(t, "file_unavailable") /\ UNCHANGED reads
    /\ UNCHANGED <<ledger, approved, calls, grants>>

RecordRefusal(t) ==
    /\ threads[t].at = "fail"
    /\ FailTool(t, threads[t].result, Purpose(t, "file-read-claimed"))
    /\ UNCHANGED <<approved, calls, grants, reads>>

RecordObservation(t) ==
    /\ threads[t].at = "observe"
    /\ AppendThen(t, <<Event(t, "file-read-observation", "observation", "observation",
                             Purpose(t, "file-read-claimed"), None)>>, "load")
    /\ UNCHANGED <<approved, calls, grants, reads>>

\* Every record of the manifest is still approved, at the revision it names.
ManifestUsable(t) == threads[t].manifest \subseteq approved

LoadRecords(t) ==
    /\ threads[t].at = "load"
    /\ \/ ManifestUsable(t) /\ Goto(t, "followup")
       \/ ~ManifestUsable(t) /\ Reply(t, "context_revision_unavailable", None)
    /\ UNCHANGED <<ledger, approved, calls, grants, reads>>

\* A slip: the intent to call is not made durable.
RecordFollowUpLater(t) ==
    /\ threads[t].at = "followup"
    /\ Goto(t, "dispatch")
    /\ UNCHANGED <<ledger, approved, calls, grants, reads>>

RecordFollowUp(t) ==
    /\ threads[t].at = "followup"
    /\ AppendThen(t, <<Event(t, "followup-pending", "followup_pending",
                             "model_call_pending", Purpose(t, "file-read-observation"),
                             None)>>, "dispatch")
    /\ UNCHANGED <<approved, calls, grants, reads>>

\* A second tool request is a failure; an exception no adapter declares is
\* recorded nowhere.
FinishDecision(t) ==
    LET pending == Purpose(t, "followup-pending")
        result == threads[t].result
    IN  /\ t \in Decides /\ threads[t].at = "finish"
        /\ \/ /\ result = "answer"
              /\ AppendAndReply(t,
                    <<Event(t, "followup-succeeded", "followup_success",
                            "model_call_succeeded", pending, None),
                      Event(t, "followup-response", "followup_response", "final_response",
                            Purpose(t, "followup-succeeded"), threads[t].data)>>,
                    "answer", threads[t].data)
           \/ /\ result \in FailureKinds \cup {"tool"}
              /\ AppendAndReply(t,
                    <<Event(t, "followup-failed", "followup_failed", "model_call_failed",
                            pending,
                            IF result = "tool" THEN "repeated_tool_request" ELSE result)>>,
                    "provider_followup_failed", None)
           \/ /\ result = "other"
              /\ Reply(t, "error", None) /\ UNCHANGED ledger
        /\ UNCHANGED <<approved, calls, grants, reads>>

-----------------------------------------------------------------------------

Init ==
    /\ ChatInit
    /\ grants = [id \in DecisionIds |-> None]
    /\ reads = {}

\* What a thread does of its own once it has a decision.
DecideStep(t) ==
    \/ Lookup(t) \/ RecordDecision(t) \/ RegisterGrant(t) \/ RecordClaim(t)
    \/ ClaimGrant(t) \/ ReadFile(t) \/ RecordRefusal(t) \/ RecordObservation(t)
    \/ LoadRecords(t) \/ RecordFollowUp(t) \/ FinishDecision(t)
    \/ (Dispatch(t) \/ ProviderReturns(t)) /\ UNCHANGED <<grants, reads>>

Next ==
    \/ ChatNext /\ UNCHANGED <<grants, reads>>
    \/ \E t \in Decides : Inspect(t) \/ DecideStep(t)
    \/ \E t \in Decides : Crash(t) /\ UNCHANGED <<grants, reads>>

Spec ==
    /\ Init /\ [][Next]_vars
    /\ \A t \in Chats : WF_vars(ChatStep(t) /\ UNCHANGED <<grants, reads>>)
    /\ \A t \in Decides : WF_vars(DecideStep(t))

-----------------------------------------------------------------------------
(* Safety.                                                                 *)

TypeOK ==
    /\ ChatTypeOK
    /\ grants \in [DecisionIds -> GrantRows \cup {None}]
    /\ reads \subseteq [by : Decides, run : Runs, decision : DecisionIds]

\* Every read was approved by a human decision on record and claimed on record
\* before it, spent the grant of that decision, and is the only read the
\* decision ever causes, whatever is retried and whenever the process dies.
ReadsAreAuthorized ==
    \A r \in reads :
        /\ \A other \in reads : other.decision = r.decision => other = r
        /\ grants[r.decision] # None /\ grants[r.decision].consumed
        /\ \E i, j \in DOMAIN ledger[r.run] :
              /\ i < j
              /\ ledger[r.run][i].op = "grant_approved"
              /\ ledger[r.run][i].id = Derived(r.decision, "itself")
              /\ ledger[r.run][j].op = "tool_call_claimed"
              /\ ledger[r.run][j].parent = ledger[r.run][i].id

\* "Bind a human decision to one pending request and execute at most one
\* read": one tool request is read at most once, and never after a denial.
OneReadPerRequest ==
    \A r \in reads :
        /\ \A other \in reads : other.run = r.run => other = r
        /\ \A i \in DOMAIN ledger[r.run] : ledger[r.run][i].op # "grant_denied"

\* The follow-up leaves for the provider once per run, after its own read,
\* with the observation and the intent to call on record.
FollowUpsGrounded ==
    \A c \in calls : c.by \in Decides =>
        /\ \A d \in calls : d.by \in Decides /\ d.run = c.run => d = c
        /\ \E r \in reads : r.by = c.by /\ r.run = c.run
        /\ \E i, j \in DOMAIN ledger[c.run] :
              /\ i < j
              /\ ledger[c.run][i].op = "observation"
              /\ ledger[c.run][j].op = "model_call_pending"
              /\ ledger[c.run][j].stamp = Stamp[c.by]

-----------------------------------------------------------------------------
(* Refinement.                                                             *)

\* The phase of run q, from its last event.
Phase(q) ==
    IF ledger[q] = <<>> THEN "unasked"
    ELSE LET op == Final(ledger[q]).op
             read == \E i \in DOMAIN ledger[q] : ledger[q][i].op = "observation"
         IN  CASE op = "model_call_pending" -> IF read THEN "following" ELSE "calling"
               [] op = "tool_requested" -> "awaiting"
               [] op = "grant_approved" -> "granted"
               [] op = "tool_call_claimed" -> "claimed"
               [] op = "observation" -> "observed"
               [] op = "final_response" -> "completed"
               [] OTHER -> "failed"

CallsOf(q, senders) == Cardinality({c \in calls : c.run = q /\ c.by \in senders})

Contract == INSTANCE RunContract WITH
    run <- [q \in Runs |->
        [phase |-> Phase(q), calls |-> CallsOf(q, Chats),
         reads |-> Cardinality({r \in reads : r.run = q}),
         follow_ups |-> CallsOf(q, Decides)]]

\* Chats, decisions, retries and crashes together keep the contract of every
\* run: each effect on the outside happens once, in its phase, after its
\* intent and before its outcome are on record.
ImplementsContract == Contract!ContractSpec

-----------------------------------------------------------------------------
(* Liveness.                                                               *)

\* The last event of the run is the pending follow-up call.
FollowUpPending(q) ==
    /\ ledger[q] # <<>>
    /\ Final(ledger[q]).op = "model_call_pending"
    /\ \E i \in DOMAIN ledger[q] : ledger[q][i].op = "observation"

AwaitsHuman(q) == ledger[q] # <<>> /\ RunState(ledger[q]) = "awaiting_approval"

\* As long as nothing dies and no approval is taken back, a run never stays
\* in the middle: it settles, waits for its human, or at worst shows a
\* follow-up call that was interrupted.
RunsComeToRest ==
    \A q \in Runs : ledger[q] # <<>> ~>
        (Settled(q) \/ AwaitsHuman(q) \/ FollowUpPending(q))

\* "Success, bounded failure, timeout and interruption are inspectable": a
\* follow-up call that is pending gets its outcome.
FollowUpsSettle ==
    \A q \in Runs : FollowUpPending(q) ~> Settled(q)

=============================================================================
