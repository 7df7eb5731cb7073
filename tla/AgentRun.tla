------------------------------- MODULE AgentRun -------------------------------
(***************************************************************************)
(* The chat half of the agent runtime: create_chat_message of              *)
(* src/oscillink_agent/agent_runtime/service.py, and what its threads      *)
(* share with those of CapabilityLoop.                                     *)
(*                                                                         *)
(* Each HTTP request runs in a thread of its own.  A thread touches shared *)
(* state only in transactions of a store; between two of them other        *)
(* threads run, memory changes and the process may die.  One action is one *)
(* such transaction or one call of the provider.                           *)
(*                                                                         *)
(* Data abstraction.  One session.  A message stands for a text with its   *)
(* token budget, a tool request for a scope, target and size bound, a      *)
(* memory for one exact approved revision.  A decision names the tool      *)
(* request of its run.  The clock is read through Stamp: two threads with  *)
(* different stamps never read the same time.                              *)
(***************************************************************************)
EXTENDS EventLedger

CONSTANTS Chats, Decides,   \* threads that run one chat, one decision request
          ChatInputs,       \* [run, key, message, provider] of chat requests
          Memories,         \* revisions that context can select
          Answers,          \* answers of the provider
          Tools,            \* tool requests of the provider
          FailureKinds,     \* how a provider call is known to have failed
          Stamp,            \* thread -> the time it reads
          MayCrash,         \* the process may die in the middle of a request
          MayRevoke         \* memories gain and lose approval

Threads == Chats \cup Decides

ASSUME ThreadsAssumption == Chats \cap Decides = {}

ASSUME ChatInputsAssumption ==
    \A in \in ChatInputs : in # None /\ in.run \in Runs /\ in.key \in ClientKeys

ASSUME NoneAssumption == None # "answer"

ASSUME FailureKindsAssumption == FailureKinds \subseteq {"request", "response", "timeout"}

VARIABLES threads,   \* thread -> its place in the handler and its locals
          approved,  \* memories that are approved, current revisions
          calls      \* the calls the provider has received

chatVars == <<ledger, threads, approved, calls>>

Idle ==
    [at |-> "idle", input |-> None, manifest |-> {}, seen |-> 0,
     result |-> None, data |-> None, reply |-> None, answer |-> None]

-----------------------------------------------------------------------------
(* Identities and events.                                                  *)

\* The id of a request is chosen by the client ("itself"); _derived_id makes
\* an identity for each purpose from it.
Derived(request, purpose) == <<request, purpose>>

Event(t, purpose, suffix, op, parent, data) ==
    LET in == threads[t].input
        request == IF t \in Chats THEN in.run ELSE in.id
    IN  [id |-> Derived(request, purpose), run |-> in.run,
         key |-> IF suffix = "" THEN in.key ELSE <<in.key, suffix>>,
         op |-> op, parent |-> parent, provider |-> in.provider,
         manifest |-> threads[t].manifest, data |-> data, stamp |-> Stamp[t]]

ToolEventId(q) == Derived(q, "chat-tool-request")

Goto(t, place) == threads' = [threads EXCEPT ![t].at = place]

Reply(t, reply, answer) ==
    threads' = [threads EXCEPT ![t].at = "done", ![t].reply = reply,
                               ![t].answer = answer]

\* One append_many of thread t.  On success the thread goes on at "place"; a
\* refusal is raised to the client.
AppendThen(t, entries, place) ==
    \/ /\ Accepted(entries)
       /\ ledger' = Extended(threads[t].input.run, entries)
       /\ Goto(t, place)
    \/ /\ ~Accepted(entries)
       /\ UNCHANGED ledger
       /\ Reply(t, Refusal(entries), None)

\* A slip: the client is answered although the ledger refused.
AppendAndReplyAnyway(t, entries, reply, answer) ==
    /\ ledger' = IF Accepted(entries) THEN Extended(threads[t].input.run, entries) ELSE ledger
    /\ Reply(t, reply, answer)

\* The same for the last append of a handler, which replies to the client.
AppendAndReply(t, entries, reply, answer) ==
    \/ /\ Accepted(entries)
       /\ ledger' = Extended(threads[t].input.run, entries)
       /\ Reply(t, reply, answer)
    \/ /\ ~Accepted(entries)
       /\ UNCHANGED ledger
       /\ Reply(t, Refusal(entries), None)

-----------------------------------------------------------------------------
(* create_chat_message.                                                    *)

\* What a client is told when its key already belongs to event e.
Replayed(in, e) ==
    LET run == ledger[in.run]
    IN  IF \/ e.id # Derived(in.run, "itself") \/ e.run # in.run \/ e.data # in.message
        THEN [reply |-> "idempotency_conflict", answer |-> None]
        ELSE IF ~WellFormed(run) THEN [reply |-> "incomplete", answer |-> None]
        ELSE IF RunState(run) = "completed"
             THEN [reply |-> "answer", answer |-> Final(run).data]
        ELSE IF RunState(run) = "awaiting_approval"
             THEN [reply |-> "pending_tool", answer |-> None]
        ELSE IF /\ Final(run).op = "model_call_failed"
                /\ Final(run).data \in FailureKinds
             THEN [reply |-> "failed", answer |-> None]
        ELSE [reply |-> "uncertain", answer |-> None]

ChatLookup(t) ==
    /\ threads[t].at = "idle"
    /\ \E in \in ChatInputs :
          \/ /\ EventsWithKey(in.key) = {}
             /\ threads' = [threads EXCEPT ![t].at = "compile", ![t].input = in]
          \/ \E e \in EventsWithKey(in.key) :
                threads' = [threads EXCEPT
                               ![t].at = "done", ![t].input = in,
                               ![t].reply = Replayed(in, e).reply,
                               ![t].answer = Replayed(in, e).answer]
    /\ UNCHANGED <<ledger, approved, calls>>

\* Retrieval and the token budget pick some of the approved revisions.
CompileContext(t) ==
    /\ threads[t].at = "compile"
    /\ \E selected \in SUBSET approved :
          threads' = [threads EXCEPT ![t].at = "prepare", ![t].manifest = selected]
    /\ UNCHANGED <<ledger, approved, calls>>

\* A slip: the call of the model is chained to the request.
PrepareEntriesChainedToRequest(t) ==
    LET in == threads[t].input
    IN  <<Event(t, "itself", "", "request_recorded", None, in.message),
          Event(t, "chat-context-compiled", "context", "context_compiled",
                Derived(in.run, "itself"), None),
          Event(t, "chat-model-call-pending", "model_pending", "model_call_pending",
                Derived(in.run, "itself"), None)>>

\* The request, its context and the intent to call the model: one transaction.
PrepareEntries(t) ==
    LET in == threads[t].input
    IN  <<Event(t, "itself", "", "request_recorded", None, in.message),
          Event(t, "chat-context-compiled", "context", "context_compiled",
                Derived(in.run, "itself"), None),
          Event(t, "chat-model-call-pending", "model_pending", "model_call_pending",
                Derived(in.run, "chat-context-compiled"), None)>>

Prepare(t) ==
    /\ threads[t].at = "prepare"
    /\ AppendThen(t, PrepareEntries(t), "dispatch")
    /\ UNCHANGED <<approved, calls>>

\* The request leaves for the provider.
Dispatch(t) ==
    /\ threads[t].at = "dispatch"
    /\ calls' = calls \cup {[by |-> t, run |-> threads[t].input.run]}
    /\ Goto(t, "generating")
    /\ UNCHANGED <<ledger, approved>>

\* The provider answers, asks for a tool, fails, times out (the adapter bounds
\* the wait), or the adapter raises something else.
ProviderReturns(t) ==
    /\ threads[t].at = "generating"
    /\ \E result \in {"answer", "tool", "other"} \cup FailureKinds :
       \E data \in IF result = "answer" THEN Answers
                   ELSE IF result = "tool" THEN Tools ELSE {None} :
          threads' = [threads EXCEPT ![t].at = "finish", ![t].result = result,
                                     ![t].data = data]
    /\ UNCHANGED <<ledger, approved, calls>>

Pending(t) == Derived(threads[t].input.run, "chat-model-call-pending")

\* A slip: only the failures an adapter declares are recorded.
TerminalModelEventIfDeclared(t) ==
    \/ /\ threads[t].result \in FailureKinds
       /\ AppendAndReply(t, <<Event(t, "chat-model-call-failed", "model_failed",
             "model_call_failed", Pending(t), threads[t].result)>>, "failed", None)
    \/ /\ threads[t].result = "other"
       /\ UNCHANGED ledger
       /\ Reply(t, "error", None)

\* _append_terminal_model_event: the call failed or was interrupted.
TerminalModelEvent(t) ==
    \/ /\ threads[t].result \in FailureKinds
       /\ AppendAndReply(t, <<Event(t, "chat-model-call-failed", "model_failed",
             "model_call_failed", Pending(t), threads[t].result)>>, "failed", None)
    \/ /\ threads[t].result = "other"
       /\ AppendAndReply(t, <<Event(t, "chat-model-call-interrupted", "model_interrupted",
             "model_call_interrupted", Pending(t), None)>>, "error", None)

\* The success of the call and what it brought: one transaction.
ModelSucceeded(t, purpose, suffix, op) ==
    <<Event(t, "chat-model-call-succeeded", "model_success", "model_call_succeeded",
            Pending(t), None),
      Event(t, purpose, suffix, op,
            Derived(threads[t].input.run, "chat-model-call-succeeded"), threads[t].data)>>

ChatFinish(t) ==
    /\ t \in Chats /\ threads[t].at = "finish"
    /\ \/ /\ threads[t].result = "answer"
          /\ AppendAndReply(t,
                ModelSucceeded(t, "chat-response", "response", "final_response"),
                "answer", threads[t].data)
       \/ /\ threads[t].result = "tool"
          /\ AppendAndReply(t,
                ModelSucceeded(t, "chat-tool-request", "tool_request", "tool_requested"),
                "pending_tool", None)
       \/ TerminalModelEvent(t)
    /\ UNCHANGED <<approved, calls>>

\* The process dies, or a thread of it is killed: what it had not committed
\* is gone.
Crash(t) ==
    /\ MayCrash
    /\ threads[t].at \notin {"idle", "done", "crashed"}
    /\ Goto(t, "crashed")
    /\ UNCHANGED <<ledger, approved, calls>>

\* A human approves a memory, or its approval or its revision goes away.
MemoryChanges ==
    /\ MayRevoke
    /\ \E m \in Memories :
          approved' = IF m \in approved THEN approved \ {m} ELSE approved \cup {m}
    /\ UNCHANGED <<ledger, threads, calls>>

ChatInit ==
    /\ ledger = [q \in Runs |-> <<>>]
    /\ threads = [t \in Threads |-> Idle]
    /\ approved = Memories
    /\ calls = {}

\* What a thread does of its own once it has a request.
ChatStep(t) ==
    CompileContext(t) \/ Prepare(t) \/ Dispatch(t) \/ ProviderReturns(t) \/ ChatFinish(t)

ChatNext ==
    \/ \E t \in Chats : ChatLookup(t) \/ ChatStep(t) \/ Crash(t)
    \/ MemoryChanges

\* A thread that is not killed runs on; the adapter bounds every provider call.
ChatSpec ==
    /\ ChatInit /\ [][ChatNext]_chatVars
    /\ \A t \in Chats : WF_chatVars(ChatStep(t))

-----------------------------------------------------------------------------
(* Safety.                                                                 *)

Locals ==
    [at : {"idle", "compile", "prepare", "dispatch", "generating", "finish", "done",
           "crashed", "look", "decide", "register", "claim", "execute", "read",
           "observe", "load", "followup", "fail"},
     manifest : SUBSET Memories, seen : Nat]

ChatTypeOK ==
    /\ \A q \in Runs : \A i \in DOMAIN ledger[q] :
          /\ ledger[q][i].run = q
          /\ ledger[q][i].op \in Operations
          /\ Characters(ledger[q][i].key) <= MaxKeyLength
    /\ \A t \in Threads :
          /\ [at |-> threads[t].at, manifest |-> threads[t].manifest,
              seen |-> threads[t].seen] \in Locals
          /\ threads[t].at \notin {"idle", "done", "crashed"} => threads[t].input # None
    /\ approved \subseteq Memories
    /\ calls \subseteq [by : Threads, run : Runs]

\* However requests, retries and crashes interleave, the events of a run read
\* back as a trajectory: reconstruct_run never fails on a ledger it wrote.
RunsReconstruct ==
    \A q \in Runs : ledger[q] # <<>> => WellFormed(ledger[q])

\* A message leaves for the provider at most once per run, and only after the
\* request, its context and the intent to call are durable: neither a retry
\* under the same key or another, nor a crash, dispatches it again.
DispatchedOnce ==
    \A c \in calls : c.by \in Chats =>
        /\ \A d \in calls : d.by \in Chats /\ d.run = c.run => d = c
        /\ \E i \in DOMAIN ledger[c.run] :
              /\ ledger[c.run][i].op = "model_call_pending"
              /\ ledger[c.run][i].stamp = Stamp[c.by]

\* Every answer a client ever gets for a run, first reply or replay, is the
\* one final response the ledger holds.
AnswersAreDurable ==
    \A t \in Threads : threads[t].reply = "answer" =>
        LET run == ledger[threads[t].input.run]
        IN  /\ Final(run).op = "final_response"
            /\ Final(run).data = threads[t].answer

Settled(q) ==
    ledger[q] # <<>> /\ RunState(ledger[q]) \in {"completed", "failed", "interrupted"}

\* A run that completed, failed or was interrupted never gets another event.
SettledRunsStay ==
    [][\A q \in Runs : Settled(q) => ledger'[q] = ledger[q]]_ledger

=============================================================================
