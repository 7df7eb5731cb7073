-------------------------- MODULE CapabilityLoopProofs --------------------------
(***************************************************************************)
(* Proofs about decisions, grants and reads of CapabilityLoop together     *)
(* with the chats they share the ledger with, for any number of threads,   *)
(* runs, decisions and tools.                                              *)
(***************************************************************************)
EXTENDS CapabilityLoop, AgentRunProofs

-----------------------------------------------------------------------------
(* The inductive invariant: ChatInv and what follows.                      *)

Active(t) == threads[t].at \notin {"idle", "done", "crashed"}

\* Decisions that are under way together are repetitions of one.
SameDecision ==
    \A t, u \in Decides : Active(t) /\ Active(u) =>
        threads[t].input.id = threads[u].input.id /\ threads[t].input.key = threads[u].input.key

RunOf(t) == ledger[threads[t].input.run]

\* What was inspected is a beginning of the run.  If that was its tool request
\* and somebody else has decided on it since, he did so under the same key.
SeenStands(t) ==
    threads[t].at \in {"look", "decide"} =>
        /\ threads[t].seen \in 1 .. Len(RunOf(t))
        /\ threads[t].seen = 5 /\ Len(RunOf(t)) > 5 =>
              RunOf(t)[6].key = threads[t].input.key

DeciderType(t) ==
    /\ threads[t].at # "idle" => threads[t].input \in DecideInputs
    /\ threads[t].at = "decide" => threads[t].seen = 5 /\ RunOf(t)[5].op = "tool_requested"
    /\ threads[t].at \in {"decide", "register"} => threads[t].data \in Tools
    /\ threads[t].at = "fail" => threads[t].result # "answer"

\* From its decision on the run belongs to the decider: the last event is its
\* own.
OwnsTail(t) ==
    /\ threads[t].at \in {"register", "claim"} =>
          WroteLast(t, 6, "grant_approved", Decision(t))
    /\ threads[t].at \in {"execute", "read", "fail", "observe"} =>
          /\ WroteLast(t, 7, "tool_call_claimed", Purpose(t, "file-read-claimed"))
          /\ RunOf(t)[6].id = Decision(t)
    /\ threads[t].at \in {"load", "followup"} =>
          WroteLast(t, 8, "observation", Purpose(t, "file-read-observation"))
    /\ threads[t].at \in {"dispatch", "generating", "finish"} =>
          WroteLast(t, 9, "model_call_pending", Purpose(t, "followup-pending"))

\* Its grant is registered before it is claimed, and used when it is read.
OwnsGrant(t) ==
    /\ threads[t].at \in {"claim", "execute", "read"} => grants[threads[t].input.id] # None
    /\ threads[t].at = "read" => grants[threads[t].input.id].consumed

DeciderInv(t) == SeenStands(t) /\ DeciderType(t) /\ OwnsTail(t) /\ OwnsGrant(t)

HasRead(t) == \E r \in reads : r.by = t /\ r.run = threads[t].input.run

\* What a thread has done so far, seen from its place.
EffectsInPlace(t) ==
    /\ threads[t].at \in {"idle", "compile", "prepare", "look", "decide", "register", "claim",
                          "execute", "read", "fail"} =>
          \A r \in reads : r.by # t
    /\ t \in Decides /\ threads[t].at \in {"observe", "load", "followup", "dispatch",
                                           "generating", "finish"} =>
          HasRead(t)
    /\ threads[t].at \in {"idle", "compile", "prepare", "look", "decide", "register", "claim",
                          "execute", "read", "fail", "observe", "load", "followup",
                          "dispatch"} =>
          \A c \in calls : c.by # t
    /\ threads[t].at \in {"generating", "finish"} =>
          [by |-> t, run |-> threads[t].input.run] \in calls

\* A read was claimed on record by its reader, after the decision whose grant
\* it has used.
ReadClaimed(r) ==
    /\ Len(ledger[r.run]) >= 7
    /\ ledger[r.run][7].op = "tool_call_claimed"
    /\ ledger[r.run][7].stamp = Stamp[r.by]
    /\ ledger[r.run][6].id = Derived(r.decision, "itself")
    /\ grants[r.decision] # None /\ grants[r.decision].consumed

\* A follow-up call was recorded by its sender, who has read.
FollowUpRecorded(c) ==
    /\ Len(ledger[c.run]) >= 9
    /\ ledger[c.run][9].stamp = Stamp[c.by]
    /\ \E r \in reads : r.by = c.by /\ r.run = c.run

Reads == [by : Decides, run : Runs, decision : DecisionIds]

DecideInv ==
    /\ SameDecision
    /\ \A t \in Decides : DeciderInv(t)
    /\ \A t \in Threads : EffectsInPlace(t)
    /\ grants \in [DecisionIds -> GrantRows \cup {None}]
    /\ reads \subseteq Reads
    /\ \A r \in reads : ReadClaimed(r)
    /\ \A c \in calls : c.by \in Decides => FollowUpRecorded(c)

Inv == ChatInv /\ DecideInv

-----------------------------------------------------------------------------
(* One step, seen by the others.                                           *)

\* A step of thread t respects what other threads rely on: it extends a run
\* with a decision only if t wrote its last event, and decides only under the
\* key of t.
Respects(t) ==
    /\ Extends(t)
    /\ \A q \in Runs : ledger'[q] # ledger[q] =>
          \/ Len(ledger[q]) < 5
          \/ t \in Decides /\ Active(t) /\ ledger'[q][6].key = threads[t].input.key
             /\ Len(ledger[q]) = 5
          \/ Len(ledger[q]) > 5 /\ ledger[q][Len(ledger[q])].stamp = Stamp[t]
    /\ \A u \in Threads \ {t} : threads'[u] = threads[u]
    /\ \A id \in DecisionIds : grants[id] # None =>
          grants'[id] # None /\ (grants[id].consumed => grants'[id].consumed)
    /\ reads \subseteq reads' /\ \A r \in reads' \ reads : r.by = t
    /\ calls \subseteq calls' /\ \A c \in calls' \ calls : c.by = t

\* A decider starts only beside repetitions of its decision.
StartsAlone(t) ==
    Active(t)' =>
        \/ Active(t) /\ threads'[t].input = threads[t].input
        \/ \A u \in Decides \ {t} : Active(u) =>
              /\ threads[u].input.id = threads'[t].input.id
              /\ threads[u].input.key = threads'[t].input.key

\* After a step of thread t, its own part of the invariant holds.
OwnPart(t) ==
    /\ t \in Decides => DeciderInv(t)' /\ StartsAlone(t)
    /\ EffectsInPlace(t)'
    /\ grants' \in [DecisionIds -> GrantRows \cup {None}]
    /\ reads' \subseteq Reads
    /\ \A r \in reads' \ reads : ReadClaimed(r)'
    /\ \A c \in calls' \ calls : c.by \in Decides => FollowUpRecorded(c)'

\* A decider that has decided wrote the last event of its run.
LEMMA OwnsLast ==
    ASSUME NEW t, OwnsTail(t),
           threads[t].at \in {"register", "claim", "execute", "read", "fail", "observe",
                             "load", "followup", "dispatch", "generating", "finish"}
    PROVE  LET n == Len(RunOf(t)) IN n > 5 /\ RunOf(t)[n].stamp = Stamp[t]
<1>1. ASSUME NEW n \in 6 .. 9, NEW op, NEW id, WroteLast(t, n, op, id)
      PROVE  Len(RunOf(t)) = n /\ n > 5 /\ RunOf(t)[n].stamp = Stamp[t]
  BY <1>1 DEF WroteLast, RunOf
<1>2. \E n \in 6 .. 9 : \E op, id : WroteLast(t, n, op, id)
  <2>1. \/ WroteLast(t, 6, "grant_approved", Decision(t))
        \/ WroteLast(t, 7, "tool_call_claimed", Purpose(t, "file-read-claimed"))
        \/ WroteLast(t, 8, "observation", Purpose(t, "file-read-observation"))
        \/ WroteLast(t, 9, "model_call_pending", Purpose(t, "followup-pending"))
    BY DEF OwnsTail
  <2> QED BY <2>1
<1> QED BY <1>1, <1>2

LEMMA OtherDeciderKeeps ==
    ASSUME Inv, DistinctStamps, NEW t \in Threads, Respects(t),
           NEW u \in Decides \ {t}
    PROVE  DeciderInv(u)'
<1> DEFINE q == threads[u].input.run
           n == Len(ledger[q])
<1>1. u \in Threads /\ threads'[u] = threads[u] /\ DeciderInv(u) /\ ThreadType(u) /\ LedgerInv
  BY DEF Threads, Respects, Inv, DecideInv, ChatInv, ThreadInv
<1>2. threads[u].at # "idle" => q \in Runs /\ n \in Nat
  BY <1>1, RecordedElements DEF ThreadType, LedgerInv
<1>3. CASE threads[u].at = "idle"
  BY <1>1, <1>3 DEF DeciderInv, SeenStands, DeciderType, OwnsTail, OwnsGrant
<1>4. CASE threads[u].at # "idle"
  <2>1. /\ q \in Runs /\ n \in Nat /\ Len(ledger'[q]) \in Nat
        /\ n <= Len(ledger'[q]) /\ \A i \in 1 .. n : ledger'[q][i] = ledger[q][i]
    <3>1. q \in Runs /\ n <= Len(ledger'[q]) /\ \A i \in 1 .. n : ledger'[q][i] = ledger[q][i]
      BY <1>2, <1>4 DEF Respects, Extends
    <3> QED BY <1>2, <1>4, <3>1, SMTT(30)
  <2>2. n > 5 /\ ledger[q][n].stamp = Stamp[u] => ledger'[q] = ledger[q]
    BY <1>1, <2>1, SMTT(30) DEF Respects, DistinctStamps
  <2>3. SeenStands(u)'
    <3> SUFFICES ASSUME threads[u].at \in {"look", "decide"}
                 PROVE  /\ threads[u].seen \in 1 .. Len(ledger'[q])
                        /\ threads[u].seen = 5 /\ Len(ledger'[q]) > 5 =>
                              ledger'[q][6].key = threads[u].input.key
      BY <1>1 DEF SeenStands, RunOf
    <3>1. /\ threads[u].seen \in 1 .. n
          /\ threads[u].seen = 5 /\ n > 5 => ledger[q][6].key = threads[u].input.key
      BY <1>1 DEF DeciderInv, SeenStands, RunOf
    <3>2. ASSUME threads[u].seen = 5, n = 5, ledger'[q] # ledger[q]
          PROVE  ledger'[q][6].key = threads[u].input.key
      <4>1. \/ n < 5
            \/ t \in Decides /\ Active(t) /\ ledger'[q][6].key = threads[t].input.key
            \/ n > 5
        BY <2>1, <3>2 DEF Respects
      <4> HIDE DEF n
      <4>2. t \in Decides /\ Active(t) /\ ledger'[q][6].key = threads[t].input.key
        BY <3>2, <4>1
      <4> QED BY <4>2 DEF Active, Inv, DecideInv, SameDecision
    <3>3. ASSUME threads[u].seen = 5, ledger'[q] # ledger[q]
          PROVE  ledger'[q][6].key = threads[u].input.key
      <4>1. n >= 5
        BY <2>1, <3>1, <3>3
      <4>2. CASE n = 5
        BY <3>2, <3>3, <4>2
      <4>3. CASE n > 5
        <5>1. 6 \in 1 .. n
          BY <2>1, <4>3
        <5>2. ledger'[q][6] = ledger[q][6]
          BY <2>1, <5>1
        <5> QED BY <3>1, <3>3, <4>3, <5>2
      <4>4. n \in Nat
        BY <2>1
      <4> HIDE DEF n
      <4> QED BY <4>1, <4>2, <4>3, <4>4
    <3>4. threads[u].seen \in 1 .. Len(ledger'[q])
      BY <2>1, <3>1
    <3> QED BY <3>1, <3>3, <3>4
  <2>4. DeciderType(u)'
    <3>1. threads[u].at = "decide" => 5 \in 1 .. n
      BY <1>1, <2>1 DEF DeciderInv, DeciderType, SeenStands, RunOf
    <3> QED BY <1>1, <2>1, <3>1 DEF DeciderInv, DeciderType, RunOf
  <2>5. OwnsTail(u)'
    <3>1. CASE ledger'[q] = ledger[q]
      BY <1>1, <3>1 DEF DeciderInv, OwnsTail, WroteLast, RunOf, Decision, Purpose
    <3>2. CASE ledger'[q] # ledger[q]
      <4>1. ~(n > 5 /\ ledger[q][n].stamp = Stamp[u])
        BY <2>2, <3>2
      <4>2. threads[u].at \notin {"register", "claim", "execute", "read", "fail", "observe",
                                  "load", "followup", "dispatch", "generating", "finish"}
        BY <1>1, <4>1, OwnsLast DEF DeciderInv, RunOf
      <4> QED BY <1>1, <4>2 DEF OwnsTail
    <3> QED BY <3>1, <3>2, SMTT(30)
  <2>6. OwnsGrant(u)'
    <3>1. threads[u].input.id \in DecisionIds
      BY <1>1, <1>4 DEF DeciderInv, DeciderType, DecisionIds
    <3> QED BY <1>1, <3>1 DEF DeciderInv, OwnsGrant, Respects
  <2> QED BY <2>3, <2>4, <2>5, <2>6 DEF DeciderInv
<1> QED BY <1>3, <1>4

LEMMA OtherEffectsKeep ==
    ASSUME Inv, NEW t \in Threads, Respects(t), NEW u \in Threads \ {t}
    PROVE  EffectsInPlace(u)'
BY DEF Inv, DecideInv, Respects, EffectsInPlace, HasRead

\* A step that respects the others and keeps its own part keeps the invariant.
LEMMA StepKeeps ==
    ASSUME Inv, DistinctStamps, NEW t \in Threads, Respects(t), OwnPart(t)
    PROVE  DecideInv'
<1>1. \A u \in Decides : DeciderInv(u)'
  BY OtherDeciderKeeps DEF OwnPart
<1>2. \A u \in Threads : EffectsInPlace(u)'
  BY OtherEffectsKeep DEF OwnPart
<1>3. SameDecision'
  <2> SUFFICES ASSUME NEW u \in Decides, NEW v \in Decides, Active(u)', Active(v)'
               PROVE  /\ threads'[u].input.id = threads'[v].input.id
                      /\ threads'[u].input.key = threads'[v].input.key
    BY DEF SameDecision
  <2>1. \A w \in Decides \ {t} :
           threads'[w] = threads[w] /\ (Active(w)' <=> Active(w))
    BY DEF Respects, Active, Threads
  <2>2. SameDecision
    BY DEF Inv, DecideInv
  <2>3. t \in Decides => StartsAlone(t)
    BY DEF OwnPart
  <2> QED BY <2>1, <2>2, <2>3 DEF SameDecision, StartsAlone
<1>4. \A q \in Runs :
         /\ Len(ledger[q]) \in Nat /\ Len(ledger'[q]) \in Nat
         /\ Len(ledger[q]) <= Len(ledger'[q])
         /\ \A i \in 1 .. Len(ledger[q]) : ledger'[q][i] = ledger[q][i]
  <2>1. \A q \in Runs : Len(ledger[q]) \in Nat
    BY RecordedElements DEF Inv, ChatInv, LedgerInv
  <2> QED BY <2>1 DEF Respects, Extends
<1>5. ASSUME NEW r \in reads'
      PROVE  ReadClaimed(r)'
  <2>1. CASE r \in reads
    <3>1. ReadClaimed(r) /\ r.run \in Runs /\ r.decision \in DecisionIds
      BY <2>1 DEF Inv, DecideInv, Reads
    <3>2. 6 \in 1 .. Len(ledger[r.run]) /\ 7 \in 1 .. Len(ledger[r.run])
      BY <1>4, <3>1 DEF ReadClaimed
    <3> QED BY <1>4, <3>1, <3>2 DEF ReadClaimed, Respects
  <2> QED BY <2>1 DEF OwnPart
<1>6. ASSUME NEW c \in calls', c.by \in Decides
      PROVE  FollowUpRecorded(c)'
  <2>1. CASE c \in calls
    <3>1. FollowUpRecorded(c) /\ c.run \in Runs
      BY <1>6, <2>1 DEF Inv, DecideInv, ChatInv, CallsRecorded
    <3>2. 9 \in 1 .. Len(ledger[c.run])
      BY <1>4, <3>1, SMTT(30) DEF FollowUpRecorded
    <3> QED BY <1>4, <3>1, <3>2 DEF FollowUpRecorded, Respects
  <2> QED BY <1>6, <2>1 DEF OwnPart
<1> QED BY <1>1, <1>2, <1>3, <1>5, <1>6 DEF DecideInv, OwnPart

-----------------------------------------------------------------------------
(* The steps of chats, and those that touch no thread.                     *)

LEMMA DecideInvUnchanged ==
    ASSUME DecideInv, UNCHANGED <<ledger, threads, calls, grants, reads>>
    PROVE  DecideInv'
BY SMTT(30) DEF DecideInv, SameDecision, Active, DeciderInv, SeenStands, DeciderType, OwnsTail,
       OwnsGrant, EffectsInPlace, HasRead, ReadClaimed, FollowUpRecorded, RunOf, WroteLast,
       Decision, Purpose

LEMMA LookupMoves ==
    ASSUME ChatInv, NEW t \in Chats, ChatLookup(t)
    PROVE  /\ threads[t].at = "idle" /\ threads'[t].at \in {"compile", "done"}
           /\ \A u \in Threads \ {t} : threads'[u] = threads[u]
<1>1. t \in Threads /\ DOMAIN threads = Threads /\ DOMAIN threads[t] = Fields
  BY DEF Threads, ChatInv, ThreadInv, ThreadType
<1>2. ASSUME NEW in \in ChatInputs,
             threads' = [threads EXCEPT ![t].at = "compile", ![t].input = in]
      PROVE  /\ threads'[t].at \in {"compile", "done"}
             /\ \A u \in Threads \ {t} : threads'[u] = threads[u]
  BY <1>1, <1>2 DEF Fields
<1>3. ASSUME NEW in \in ChatInputs, NEW e \in EventsWithKey(in.key),
             threads' = [threads EXCEPT
                            ![t].at = "done", ![t].input = in,
                            ![t].reply = Replayed(in, e).reply,
                            ![t].answer = Replayed(in, e).answer]
      PROVE  /\ threads'[t].at \in {"compile", "done"}
             /\ \A u \in Threads \ {t} : threads'[u] = threads[u]
  BY <1>1, <1>3 DEF Fields
<1> QED BY <1>2, <1>3 DEF ChatLookup

\* The places of a chat and its calls.
LEMMA ChatEffects ==
    ASSUME Inv, NEW t \in Chats, ChatLookup(t) \/ ChatStep(t) \/ Crash(t),
           UNCHANGED <<grants, reads>>
    PROVE  EffectsInPlace(t)'
<1>1. t \in Threads /\ t \notin Decides /\ EffectsInPlace(t) /\ ThreadType(t)
      /\ DOMAIN threads = Threads
  BY ThreadsAssumption DEF Threads, Inv, DecideInv, ChatInv, ThreadInv
<1>2. ASSUME NEW r \in reads PROVE r.by # t
  BY <1>1 DEF Inv, DecideInv, Reads
<1>3. CASE ChatLookup(t)
  <2>1. threads'[t].at \in {"compile", "done"} /\ threads[t].at = "idle"
    BY <1>3, LookupMoves DEF Inv
  <2> QED BY <1>1, <1>2, <1>3, <2>1 DEF ChatLookup, EffectsInPlace
<1>4. CASE CompileContext(t)
  <2>1. threads'[t].at = "prepare" /\ threads[t].at = "compile"
    BY <1>1, <1>4 DEF CompileContext, ThreadType, Fields
  <2> QED BY <1>1, <1>2, <1>4, <2>1 DEF CompileContext, EffectsInPlace
<1>5. CASE Prepare(t)
  <2>1. threads'[t].at \in {"dispatch", "done"} /\ threads[t].at = "prepare"
    BY <1>1, <1>5 DEF Prepare, AppendThen, Goto, Reply, ThreadType, Fields
  <2> QED BY <1>1, <1>2, <1>5, <2>1 DEF Prepare, EffectsInPlace
<1>6. CASE Dispatch(t)
  <2>1. threads'[t].at = "generating" /\ threads'[t].input = threads[t].input
    BY <1>1, <1>6 DEF Dispatch, Goto, ThreadType, Fields
  <2> QED BY <1>1, <1>2, <1>6, <2>1 DEF Dispatch, EffectsInPlace
<1>7. CASE ProviderReturns(t)
  <2>1. /\ threads'[t].at = "finish" /\ threads'[t].input = threads[t].input
        /\ threads[t].at = "generating"
    BY <1>1, <1>7 DEF ProviderReturns, ThreadType, Fields
  <2> QED BY <1>1, <1>2, <1>7, <2>1 DEF ProviderReturns, EffectsInPlace
<1>8. CASE ChatFinish(t) \/ Crash(t)
  <2>1. threads'[t].at \in {"done", "crashed"}
    BY <1>1, <1>8 DEF ChatFinish, TerminalModelEvent, AppendAndReply, Reply, Crash, Goto,
                      ThreadType, Fields
  <2> QED BY <1>1, <2>1 DEF EffectsInPlace
<1> QED BY <1>3, <1>4, <1>5, <1>6, <1>7, <1>8 DEF ChatStep

LEMMA ChatStepKeeps ==
    ASSUME Inv, DistinctStamps, NEW t \in Chats, ChatLookup(t) \/ ChatStep(t) \/ Crash(t),
           UNCHANGED <<grants, reads>>
    PROVE  Inv' /\ Extends(t)
<1>1. t \in Threads /\ t \notin Decides /\ ChatInv /\ LedgerInv
  BY ThreadsAssumption DEF Threads, Inv, ChatInv
<1>2. ChatInv'
  BY <1>1, ChatLookupKeeps, CompileContextKeeps, PrepareKeeps, DispatchKeeps,
     ProviderReturnsKeeps, ChatFinishKeeps, CrashKeeps DEF ChatStep
<1>3. Extends(t)
  <2>1. CASE Prepare(t) \/ ChatFinish(t)
    BY <1>1, <2>1, PrepareKeeps, ChatFinishKeeps
  <2>2. CASE ~(Prepare(t) \/ ChatFinish(t))
    <3>1. UNCHANGED ledger
      BY <2>2 DEF ChatStep, ChatLookup, CompileContext, Dispatch, ProviderReturns, Crash
    <3> QED BY <1>1, <3>1, QuietExtends
  <2> QED BY <2>1, <2>2
<1>4. \A u \in Threads \ {t} : threads'[u] = threads[u]
  <2>1. DOMAIN threads = Threads
    BY <1>1 DEF ChatInv
  <2>2. CASE CompileContext(t) \/ Dispatch(t) \/ ProviderReturns(t) \/ Crash(t)
    BY <2>1, <2>2 DEF CompileContext, Dispatch, ProviderReturns, Goto, Crash
  <2>3. CASE Prepare(t) \/ ChatFinish(t)
    BY <2>1, <2>3 DEF Prepare, AppendThen, ChatFinish, TerminalModelEvent, AppendAndReply,
                      Reply, Goto
  <2> QED BY <1>1, <2>2, <2>3, LookupMoves DEF ChatStep
<1>5. calls \subseteq calls' /\ \A c \in calls' \ calls : c.by = t
  <2>1. CASE Dispatch(t)
    BY <2>1 DEF Dispatch
  <2>2. CASE ~Dispatch(t)
    <3>1. UNCHANGED calls
      BY <2>2 DEF ChatStep, ChatLookup, CompileContext, Prepare, ProviderReturns, ChatFinish,
                  Crash
    <3> QED BY <3>1
  <2> QED BY <2>1, <2>2
<1>6. Respects(t)
  BY <1>1, <1>3, <1>4, <1>5 DEF Respects, Extends
<1>7. OwnPart(t)
  BY <1>1, <1>5, ChatEffects DEF OwnPart, Inv, DecideInv
<1> QED BY <1>1, <1>2, <1>3, <1>6, <1>7, StepKeeps DEF Inv

-----------------------------------------------------------------------------
(* The transactions of a decider.                                          *)

LEMMA DeciderFacts ==
    ASSUME Inv, NEW t \in Decides
    PROVE  /\ t \in Threads /\ t \notin Chats
           /\ DOMAIN threads = Threads /\ DOMAIN threads[t] = Fields
           /\ ChatInv /\ LedgerInv /\ ThreadInv(t) /\ ThreadType(t)
           /\ DeciderInv(t) /\ EffectsInPlace(t)
           /\ threads[t].at # "idle" =>
                 /\ threads[t].input \in DecideInputs
                 /\ threads[t].input.id \in DecisionIds
                 /\ threads[t].input.run \in Runs /\ threads[t].input.key \in ClientKeys
                 /\ Len(RunOf(t)) \in Nat
<1>1. /\ t \in Threads /\ t \notin Chats
      /\ ChatInv /\ LedgerInv /\ ThreadInv(t) /\ ThreadType(t)
      /\ DeciderInv(t) /\ EffectsInPlace(t)
  BY ThreadsAssumption DEF Inv, DecideInv, ChatInv, ThreadInv, Threads
<1>2. DOMAIN threads = Threads /\ DOMAIN threads[t] = Fields
  BY <1>1 DEF ChatInv, ThreadType
<1>3. ASSUME threads[t].at # "idle"
      PROVE  /\ threads[t].input \in DecideInputs
             /\ threads[t].input.id \in DecisionIds
             /\ threads[t].input.run \in Runs /\ threads[t].input.key \in ClientKeys
             /\ Len(RunOf(t)) \in Nat
  <2>1. threads[t].input \in DecideInputs /\ threads[t].input.run \in Runs
    BY <1>1, <1>3 DEF DeciderInv, DeciderType, ThreadType
  <2> QED BY <1>1, <1>3, <2>1, RecordedElements DEF ThreadType, DecisionIds, RunOf, LedgerInv
<1> QED BY <1>1, <1>2, <1>3

\* An event by a decider is not among the first five of a run.
LEMMA NoChatEvent ==
    ASSUME Inv, DistinctStamps, NEW t \in Decides, NEW q \in Runs,
           NEW i \in 1 .. Len(ledger[q]), ledger[q][i].stamp = Stamp[t]
    PROVE  i > 5
<1>1. Len(ledger[q]) \in Nat
  BY RecordedElements DEF Inv, ChatInv, LedgerInv
<1> SUFFICES ASSUME i <= 5 PROVE FALSE
  BY <1>1
<1>2. PICK u \in Chats : ledger[q][i].stamp = Stamp[u]
  BY DEF Inv, ChatInv, Authored
<1> QED BY <1>2, ThreadsAssumption DEF DistinctStamps, Threads

\* What a decider appends to the run that it owns.
LEMMA OwnedTransaction ==
    ASSUME Inv, DistinctStamps, NEW t \in Decides, threads[t].at # "idle",
           NEW q \in Runs, threads[t].input.run = q,
           NEW n \in 6 .. 9, NEW op, NEW id, WroteLast(t, n, op, id), op # "tool_failed",
           NEW S, NEW entries \in Seq(S), Accepted(entries), ledger' = Extended(q, entries),
           Len(entries) = 1 \/ (Len(entries) = 2 /\ n = 9),
           \A i \in 1 .. Len(entries) :
              EventAt(q, n + i, entries[i]) /\ entries[i].stamp = Stamp[t],
           entries[1].op \in AllowedAfter[op], entries[1].parent = id,
           Len(entries) = 2 => /\ Follows(entries[1], entries[2])
                               /\ entries[1].id # entries[2].id
                               /\ entries[1].key # entries[2].key,
           entries[Len(entries)].op # "model_call_succeeded",
           threads'[t].at \notin BeforeWriting,
           \A u \in Threads \ {t} : threads'[u] = threads[u]
    PROVE  Transaction(t, q, entries)
<1>1. /\ t \in Threads /\ t \notin Chats /\ LedgerInv
      /\ Len(ledger[q]) = n /\ ledger[q][n].op = op /\ ledger[q][n].id = id
      /\ ledger[q][n].stamp = Stamp[t]
  BY DeciderFacts DEF WroteLast
<1>2. \A i \in 1 .. Len(entries) : entries[i] \notin Recorded
  <2> SUFFICES ASSUME NEW i \in 1 .. Len(entries), entries[i] \in Recorded PROVE FALSE
    OBVIOUS
  <2>1. entries[i].run = q /\ entries[i].op \in StepAt(n + i)
    BY DEF EventAt
  <2>2. PICK j \in 1 .. n : entries[i] = ledger[q][j]
    <3>1. \E j \in 1 .. Len(ledger[entries[i].run]) : entries[i] = ledger[entries[i].run][j]
      BY <1>1, RecordedInItsRun
    <3> QED BY <1>1, <2>1, <3>1
  <2>3. j > 5 /\ entries[i].op \in StepAt(j)
    BY <1>1, <2>2, NoChatEvent, SMTT(30) DEF LedgerInv, Trajectories, EventAt
  <2>4. entries[i].op # "tool_failed"
    <3>1. ledger[q] # <<>>
      BY <1>1
    <3>2. j < n => ledger[q][j + 1].op \in AllowedAfter[ledger[q][j].op]
      <4>1. j < n => j + 1 \in 2 .. n /\ (j + 1) - 1 = j
        OBVIOUS
      <4>2. \A k \in 2 .. n : ledger[q][k].op \in AllowedAfter[ledger[q][k - 1].op]
        BY <1>1, <3>1 DEF LedgerInv, Trajectories, WellFormed
      <4> QED BY <4>1, <4>2
    <3>3. AllowedAfter["tool_failed"] = {}
      BY DEF AllowedAfter
    <3> QED BY <1>1, <2>2, <3>2, <3>3
  <2>5. n + i \in 7 .. 11 /\ j < n + i /\ (n + i = 11 => n = 9)
    OBVIOUS
  <2>6. CASE n + i \in {7, 8}
    BY <2>1, <2>3, <2>4, <2>5, <2>6 DEF StepAt
  <2>7. CASE n + i \in {9, 10, 11}
    BY <2>1, <2>3, <2>4, <2>5, <2>7, SMTT(30) DEF StepAt
  <2> QED BY <2>5, <2>6, <2>7
<1>3. Continues(q, entries)
  <2>1. Follows(ledger[q][n], entries[1])
    BY <1>1 DEF Follows
  <2>2. \A i \in 1 .. Len(entries) - 1 : Follows(entries[i], entries[i + 1])
    BY SMTT(30)
  <2>3. \A i, j \in 1 .. Len(entries) :
           entries[i].id = entries[j].id \/ entries[i].key = entries[j].key => i = j
    <3>1. CASE Len(entries) = 1
      BY <3>1
    <3>2. CASE Len(entries) = 2
      <4>1. entries[1].id # entries[2].id /\ entries[1].key # entries[2].key
        BY <3>2
      <4> QED BY <3>2, <4>1
    <3> QED BY <3>1, <3>2
  <2> QED BY <1>1, <2>1, <2>2, <2>3 DEF Continues
<1> QED BY <1>1, <1>2, <1>3 DEF Transaction

LEMMA OneAppended ==
    ASSUME LedgerInv, NEW t \in Threads, NEW q \in Runs, NEW S, NEW entries \in Seq(S),
           Transaction(t, q, entries), Len(entries) = 1
    PROVE  /\ Len(ledger'[q]) = Len(ledger[q]) + 1
           /\ ledger'[q][Len(ledger[q]) + 1] = entries[1]
           /\ \A i \in 1 .. Len(ledger[q]) : ledger'[q][i] = ledger[q][i]
<1>1. /\ LedgerInv /\ t \in Threads /\ q \in Runs /\ entries \in Seq(S)
      /\ Transaction(t, q, entries)
  OBVIOUS
<1>2. /\ Len(ledger'[q]) = Len(ledger[q]) + Len(entries)
      /\ \A i \in 1 .. Len(ledger[q]) : ledger'[q][i] = ledger[q][i]
      /\ \A i \in 1 .. Len(entries) : ledger'[q][Len(ledger[q]) + i] = entries[i]
  BY ONLY <1>1, TransactionLedger
<1> QED BY <1>2

\* A transaction of a decider respects the others.
LEMMA DeciderRespects ==
    ASSUME Inv, NEW t \in Decides, NEW q \in Runs, NEW S, NEW entries \in Seq(S),
           Transaction(t, q, entries),
           Len(ledger[q]) = 5 => Active(t) /\ entries[1].key = threads[t].input.key,
           UNCHANGED <<calls, grants, reads>>
    PROVE  Respects(t)
<1>1. t \in Threads /\ LedgerInv
  BY DeciderFacts
<1>2. /\ \A i \in 1 .. Len(entries) : ledger'[q][Len(ledger[q]) + i] = entries[i]
      /\ \A p \in Runs \ {q} : ledger'[p] = ledger[p]
  BY <1>1, TransactionLedger
<1>3. Extends(t)
  BY <1>1, TransactionExtends
<1>4. 1 \in 1 .. Len(entries)
  BY DEF Transaction, Continues
<1>5. \/ Len(ledger[q]) = 5
      \/ Len(ledger[q]) > 5 /\ ledger[q][Len(ledger[q])].stamp = Stamp[t]
  <2> DEFINE n == Len(ledger[q])
             Own == ledger[q][Len(ledger[q])].stamp = Stamp[t]
  <2>1. n \in Nat
    BY <1>1, RecordedElements DEF LedgerInv
  <2>2. n >= 5 /\ (n = 0 \/ Own \/ n = 5)
    BY <1>1 DEF Transaction
  <2> HIDE DEF n, Own
  <2>3. n = 5 \/ (n > 5 /\ Own)
    BY <2>1, <2>2
  <2> QED BY <2>3 DEF n, Own
<1>6. Len(ledger[q]) = 5 => ledger'[q][6].key = threads[t].input.key
  <2>1. ledger'[q][Len(ledger[q]) + 1] = entries[1]
    BY <1>2, <1>4
  <2> QED BY <2>1
<1> QED BY <1>2, <1>3, <1>5, <1>6 DEF Respects, Transaction

-----------------------------------------------------------------------------
(* The ways a decider leaves a place.                                      *)

LEMMA GotoFacts ==
    ASSUME ChatInv, NEW t \in Threads, NEW place, Goto(t, place)
    PROVE  /\ threads'[t].at = place /\ threads'[t].input = threads[t].input
           /\ threads'[t].manifest = threads[t].manifest /\ threads'[t].seen = threads[t].seen
           /\ threads'[t].result = threads[t].result /\ threads'[t].data = threads[t].data
           /\ threads'[t].reply = threads[t].reply
           /\ DOMAIN threads'[t] = Fields /\ DOMAIN threads' = Threads
           /\ \A u \in Threads \ {t} : threads'[u] = threads[u]
<1>1. DOMAIN threads = Threads /\ DOMAIN threads[t] = Fields
  BY DEF ChatInv, ThreadInv, ThreadType
<1> QED BY <1>1 DEF Goto, Fields

LEMMA ReplyFacts ==
    ASSUME ChatInv, NEW t \in Threads, NEW reply, NEW answer, Reply(t, reply, answer)
    PROVE  /\ threads'[t].at = "done" /\ threads'[t].input = threads[t].input
           /\ DOMAIN threads' = Threads
           /\ \A u \in Threads \ {t} : threads'[u] = threads[u]
<1>1. DOMAIN threads = Threads /\ DOMAIN threads[t] = Fields
  BY DEF ChatInv, ThreadInv, ThreadType
<1> QED BY <1>1 DEF Reply, Fields

\* The places of a decider between its lookup and the outcome of its call.
Under == {"register", "claim", "execute", "read", "fail", "observe", "load", "followup",
          "dispatch"}

LEMMA GotoThread ==
    ASSUME Inv, NEW t \in Decides, Active(t), NEW place \in Under, Goto(t, place)
    PROVE  ThreadInv(t)'
<1>1. t \in Threads /\ t \notin Chats /\ ChatInv /\ ThreadInv(t) /\ threads[t].at # "idle"
  BY DeciderFacts DEF Active
<1>2. place \in DecidePlaces \ {"idle", "finish", "done"}
  BY DEF Under, DecidePlaces
<1>3. threads[t].reply # "answer"
  BY <1>1 DEF ThreadInv, AnswerStands, Active
<1> QED BY <1>1, <1>2, <1>3, GotoFacts DEF ThreadInv, ThreadType, OwnsRun, AnswerStands

\* A step that moves the decider on and leaves the ledger alone.
LEMMA QuietGoto ==
    ASSUME Inv, NEW t \in Decides, Active(t), threads[t].at \notin BeforeWriting,
           NEW place \in Under, Goto(t, place), UNCHANGED <<ledger, approved, calls>>
    PROVE  ChatInv' /\ Extends(t)
<1>1. t \in Threads /\ ChatInv /\ LedgerInv
  BY DeciderFacts
<1>2. ThreadInv(t)'
  BY GotoThread
<1>3. place \notin BeforeWriting
  BY DEF Under, BeforeWriting
<1> QED BY <1>1, <1>2, <1>3, GotoFacts, QuietStepKeeps, QuietExtends
        DEF ChatInv, CallsRecorded

\* A decider that has its reply, or was killed, has nothing left to keep.
LEMMA EndsWell ==
    ASSUME Inv, NEW t \in Decides, threads[t].at # "idle",
           threads'[t].at \in {"done", "crashed"}, threads'[t].input = threads[t].input,
           UNCHANGED <<calls, grants, reads>>
    PROVE  OwnPart(t)
<1>1. DeciderInv(t)'
  BY DeciderFacts DEF DeciderInv, SeenStands, DeciderType, OwnsTail, OwnsGrant
<1>2. StartsAlone(t) /\ EffectsInPlace(t)'
  BY DEF StartsAlone, Active, EffectsInPlace
<1> QED BY <1>1, <1>2 DEF OwnPart, Inv, DecideInv

LEMMA QuietRespects ==
    ASSUME Inv, NEW t \in Threads, UNCHANGED <<ledger, calls, grants, reads>>,
           \A u \in Threads \ {t} : threads'[u] = threads[u]
    PROVE  Respects(t)
<1>1. Extends(t)
  BY QuietExtends DEF Inv, ChatInv
<1> QED BY <1>1 DEF Respects

LEMMA DeciderReplies ==
    ASSUME Inv, DistinctStamps, NEW t \in Decides, threads[t].at # "idle",
           NEW reply, reply # "answer", Reply(t, reply, None),
           UNCHANGED <<ledger, approved, calls, grants, reads>>
    PROVE  Inv' /\ Extends(t)
<1>1. t \in Threads /\ ChatInv
  BY DeciderFacts
<1>2. ChatInv' /\ Extends(t)
  BY <1>1, ReplyKeeps
<1>3. Respects(t) /\ OwnPart(t)
  BY <1>1, ReplyFacts, QuietRespects, EndsWell
<1> QED BY <1>1, <1>2, <1>3, StepKeeps DEF Inv

LEMMA DeciderCrashes ==
    ASSUME Inv, DistinctStamps, NEW t \in Decides, Crash(t), UNCHANGED <<grants, reads>>
    PROVE  Inv' /\ Extends(t)
<1>1. t \in Threads /\ ChatInv /\ LedgerInv /\ threads[t].at # "idle"
  BY DeciderFacts DEF Crash
<1>2. ChatInv' /\ Extends(t)
  BY <1>1, CrashKeeps, QuietExtends DEF Crash
<1>3. Respects(t) /\ OwnPart(t)
  BY <1>1, GotoFacts, QuietRespects, EndsWell DEF Crash
<1> QED BY <1>1, <1>2, <1>3, StepKeeps DEF Inv

\* The last transaction of a decider.
LEMMA DeciderConcludes ==
    ASSUME Inv, DistinctStamps, NEW t \in Decides, Active(t),
           NEW q \in Runs, threads[t].input.run = q,
           NEW S, NEW entries \in Seq(S), Transaction(t, q, entries),
           Len(ledger[q]) = 5 => entries[1].key = threads[t].input.key,
           NEW reply, NEW answer, Reply(t, reply, answer),
           reply = "answer" =>
              /\ entries[Len(entries)].op = "final_response"
              /\ entries[Len(entries)].data = answer,
           UNCHANGED <<approved, calls, grants, reads>>
    PROVE  Inv' /\ Extends(t)
<1>1. t \in Threads /\ ChatInv /\ threads[t].at # "idle"
  BY DeciderFacts DEF Active
<1>2. ChatInv' /\ Extends(t)
  BY <1>1, CommitAndReplyKeeps
<1>3. Respects(t)
  BY DeciderRespects
<1>4. OwnPart(t)
  BY <1>1, ReplyFacts, EndsWell
<1> QED BY <1>1, <1>2, <1>3, <1>4, StepKeeps DEF Inv

\* Any other transaction of a decider, which goes on at the next place.
LEMMA DeciderGoesOn ==
    ASSUME Inv, DistinctStamps, NEW t \in Decides, Active(t),
           NEW q \in Runs, threads[t].input.run = q,
           NEW S, NEW entries \in Seq(S), Transaction(t, q, entries),
           Len(ledger[q]) = 5 => entries[1].key = threads[t].input.key,
           NEW place \in Under, Goto(t, place),
           DeciderInv(t)', EffectsInPlace(t)',
           UNCHANGED <<approved, calls, grants, reads>>
    PROVE  Inv' /\ Extends(t)
<1>1. t \in Threads /\ ChatInv /\ threads[t].at # "idle" /\ ThreadInv(t)'
  BY DeciderFacts, GotoThread DEF Active
<1>2. ChatInv' /\ Extends(t)
  BY <1>1, GotoFacts, TransactionKeeps
<1>3. Respects(t)
  BY DeciderRespects
<1>4. OwnPart(t)
  BY <1>1, GotoFacts DEF OwnPart, StartsAlone, Inv, DecideInv
<1> QED BY <1>1, <1>2, <1>3, <1>4, StepKeeps DEF Inv

-----------------------------------------------------------------------------
(* The steps of a decider.                                                 *)

LEMMA InspectKeeps ==
    ASSUME Inv, DistinctStamps, ~Overlap, NEW t \in Decides, Inspect(t)
    PROVE  Inv' /\ Extends(t)
<1>1. /\ t \in Threads /\ t \notin Chats /\ ChatInv /\ LedgerInv /\ threads[t].at = "idle"
      /\ DOMAIN threads = Threads /\ EffectsInPlace(t)
  BY DeciderFacts DEF Inspect
<1>2. PICK in \in DecideInputs :
         LET run == ledger[in.run]
             Says(reply) == [Idle EXCEPT !.at = "done", !.input = in, !.reply = reply]
         IN  /\ MayStart(t, in)
             /\ threads' = [threads EXCEPT ![t] =
                   IF run = <<>> THEN Says("not_found")
                   ELSE IF ~WellFormed(run) THEN Says("incomplete")
                   ELSE [Idle EXCEPT !.at = "look", !.input = in, !.seen = Len(run),
                                     !.manifest = run[2].manifest]]
  BY DEF Inspect
<1> DEFINE run == ledger[in.run]
<1>3. in # None /\ in.run \in Runs /\ in.key \in ClientKeys
  BY DecideInputsAssumption
<1>4. Len(run) \in Nat
  BY <1>1, <1>3, RecordedElements DEF LedgerInv
<1>5. run # <<>> => Len(run) >= 3 /\ run[2].manifest \subseteq Memories
  <2> SUFFICES ASSUME run # <<>> PROVE Len(run) >= 3 /\ run[2].manifest \subseteq Memories
    OBVIOUS
  <2>1. Len(run) >= 3
    BY <1>1, <1>3 DEF LedgerInv, Trajectories
  <2>2. 2 \in 1 .. Len(run)
    BY <1>4, <2>1
  <2> QED BY <1>1, <1>3, <2>1, <2>2 DEF LedgerInv, Trajectories, EventAt
<1>6. /\ DOMAIN threads' = Threads /\ \A u \in Threads \ {t} : threads'[u] = threads[u]
      /\ DOMAIN threads'[t] = Fields
      /\ threads'[t].input = in /\ threads'[t].at \in {"look", "done"}
      /\ threads'[t].manifest \subseteq Memories /\ threads'[t].seen \in Nat
      /\ threads'[t].reply # "answer"
      /\ threads'[t].at = "look" => run # <<>> /\ threads'[t].seen = Len(run)
  <2>1. CASE run = <<>> \/ ~WellFormed(run)
    BY <1>1, <1>2, <2>1 DEF Idle, Fields
  <2>2. CASE run # <<>> /\ WellFormed(run)
    <3>1. threads'[t] = [Idle EXCEPT !.at = "look", !.input = in, !.seen = Len(run),
                                     !.manifest = run[2].manifest]
      BY <1>1, <1>2, <2>2
    <3> QED BY <1>1, <1>2, <1>4, <1>5, <2>2, <3>1, NoneAssumption DEF Idle, Fields
  <2> QED BY <2>1, <2>2
<1>7. ThreadInv(t)'
  BY <1>1, <1>3, <1>6 DEF ThreadInv, ThreadType, OwnsRun, AnswerStands, DecidePlaces
<1>8. ChatInv'
  BY <1>1, <1>6, <1>7, QuietStepKeeps DEF Inspect, ChatInv, CallsRecorded, BeforeWriting
<1>9. Respects(t) /\ Extends(t)
  BY <1>1, <1>6, QuietRespects, QuietExtends DEF Inspect
<1>10. DeciderInv(t)'
  <2>1. SeenStands(t)'
    BY <1>1, <1>3, <1>4, <1>5, <1>6 DEF SeenStands, RunOf, Inspect
  <2> QED BY <1>6, <2>1 DEF DeciderInv, DeciderType, OwnsTail, OwnsGrant
<1>11. StartsAlone(t)
  <2>1. ASSUME NEW u \in Decides \ {t}, Active(u)
        PROVE  threads[u].input.id = in.id /\ threads[u].input.key = in.key
    BY <1>2, <2>1 DEF MayStart, Active
  <2> QED BY <1>6, <2>1 DEF StartsAlone
<1>12. EffectsInPlace(t)'
  BY <1>1, <1>6 DEF EffectsInPlace, Inspect
<1>13. OwnPart(t)
  BY <1>10, <1>11, <1>12 DEF OwnPart, Inspect, Inv, DecideInv
<1> QED BY <1>1, <1>8, <1>9, <1>13, StepKeeps DEF Inv

\* What was inspected ends with an event of the run as it is now.
LEMMA SeenFacts ==
    ASSUME Inv, NEW t \in Decides, threads[t].at = "look"
    PROVE  LET run == RunOf(t)
               seen == threads[t].seen
           IN  /\ Len(run) \in Nat /\ seen \in 1 .. Len(run)
               /\ Final(Seen(t)) = run[seen]
               /\ EventAt(threads[t].input.run, seen, run[seen])
               /\ run # <<>> /\ WellFormed(run)
<1> DEFINE run == RunOf(t)
           n == Len(run)
           seen == threads[t].seen
<1>1. /\ LedgerInv /\ threads[t].input.run \in Runs /\ n \in Nat
      /\ seen \in 1 .. n /\ run \in Seq(Recorded)
  BY DeciderFacts DEF DeciderInv, SeenStands, LedgerInv, LedgerOfSequences, RunOf
<1>2. /\ Seen(t) = SubSeq(run, 1, seen)
      /\ Len(Seen(t)) = seen /\ Seen(t)[seen] = run[seen]
  <2>1. SubSeq(run, 1, seen) = [i \in 1 .. seen |-> run[i]]
    BY <1>1
  <2>2. Len(SubSeq(run, 1, seen)) = seen
    BY <1>1
  <2> QED BY <1>1, <2>1, <2>2, SMTT(30) DEF Seen, RunOf
<1>3. Final(Seen(t)) = run[seen]
  BY <1>2 DEF Final
<1>4. run # <<>> /\ WellFormed(run)
  <2>1. run # <<>>
    BY <1>1
  <2> QED BY <1>1, <2>1 DEF LedgerInv, Trajectories, RunOf
<1>5. EventAt(threads[t].input.run, seen, run[seen])
  BY <1>1 DEF LedgerInv, Trajectories, RunOf
<1> QED BY <1>1, <1>3, <1>4, <1>5

\* What a repetition is told comes from the last event it saw; an answer is
\* that of a completed run, which nothing can have followed.
LEMMA RepeatedAnswer ==
    ASSUME Inv, NEW t \in Decides, threads[t].at = "look", NEW e,
           Repeated(t, e).reply = "answer"
    PROVE  LET run == RunOf(t)
           IN  /\ run # <<>>
               /\ Final(run).op = "final_response"
               /\ Repeated(t, e).answer = Final(run).data
<1> DEFINE run == RunOf(t)
           n == Len(run)
           seen == threads[t].seen
<1>1. n \in Nat /\ seen \in 1 .. n
  BY SeenFacts
<1>2. Final(Seen(t)) = run[seen]
  BY SeenFacts
<1>3. run # <<>> /\ WellFormed(run)
  BY SeenFacts
<1>4. \/ RunState(Seen(t)) = "completed" /\ Repeated(t, e).answer = run[seen].data
      \/ run[seen].op \in {"model_call_failed", "tool_failed"} /\ run[seen].data = "answer"
  BY <1>2 DEF Repeated
<1>5. EventAt(threads[t].input.run, seen, run[seen])
  BY SeenFacts
<1>6. RunState(Seen(t)) = "completed" /\ Repeated(t, e).answer = run[seen].data
  BY <1>4, <1>5 DEF EventAt
<1>7. run[seen].op = "final_response"
  BY <1>2, <1>6 DEF RunState
<1>8. seen = n
  <2> SUFFICES ASSUME seen # n PROVE FALSE
    OBVIOUS
  <2>1. seen + 1 \in 2 .. n /\ (seen + 1) - 1 = seen
    BY <1>1
  <2>2. run[seen + 1].op \in AllowedAfter[run[seen].op]
    BY <1>3, <2>1 DEF WellFormed
  <2> QED BY <1>7, <2>2 DEF AllowedAfter
<1> QED BY <1>3, <1>6, <1>7, <1>8 DEF Final

LEMMA LookupKeeps ==
    ASSUME Inv, DistinctStamps, NEW t \in Decides, Lookup(t)
    PROVE  Inv' /\ Extends(t)
<1> DEFINE in == threads[t].input
           run == RunOf(t)
           seen == threads[t].seen
<1>1. /\ t \in Threads /\ t \notin Chats /\ ChatInv /\ threads[t].at = "look"
      /\ DOMAIN threads = Threads /\ DOMAIN threads[t] = Fields
      /\ ThreadInv(t) /\ DeciderInv(t) /\ EffectsInPlace(t)
  BY DeciderFacts DEF Lookup
<1>2. UNCHANGED <<ledger, approved, calls, grants, reads>>
  BY DEF Lookup
<1>3. ASSUME NEW e, Reply(t, Repeated(t, e).reply, Repeated(t, e).answer)
      PROVE  Inv' /\ Extends(t)
  <2>1. /\ threads'[t].reply = Repeated(t, e).reply /\ threads'[t].answer = Repeated(t, e).answer
        /\ threads'[t].seen = seen /\ threads'[t].manifest = threads[t].manifest
        /\ DOMAIN threads'[t] = Fields
    BY <1>1, <1>3 DEF Reply, Fields
  <2>2. ThreadInv(t)'
    <3>1. ThreadType(t)' /\ OwnsRun(t)'
      BY <1>1, <1>3, <2>1, ReplyFacts DEF ThreadInv, ThreadType, OwnsRun, DecidePlaces
    <3>2. AnswerStands(t)'
      <4>1. CASE Repeated(t, e).reply = "answer"
        <5>1. /\ run # <<>> /\ Final(run).op = "final_response"
              /\ Repeated(t, e).answer = Final(run).data
          BY <1>1, <4>1, RepeatedAnswer
        <5> QED BY <1>1, <1>2, <1>3, <2>1, <5>1, ReplyFacts DEF AnswerStands, RunOf
      <4>2. CASE Repeated(t, e).reply # "answer"
        BY <2>1, <4>2 DEF AnswerStands
      <4> QED BY <4>1, <4>2
    <3> QED BY <3>1, <3>2 DEF ThreadInv
  <2>3. ChatInv'
    BY <1>1, <1>2, <1>3, <2>2, ReplyFacts, QuietStepKeeps
       DEF ChatInv, CallsRecorded, BeforeWriting
  <2>4. Respects(t) /\ Extends(t) /\ OwnPart(t)
    BY <1>1, <1>2, <1>3, ReplyFacts, QuietRespects, EndsWell DEF Respects
  <2> QED BY <1>1, <2>3, <2>4, StepKeeps DEF Inv
<1>4. ASSUME NEW reply \in {"request_not_pending", "provider_identity_mismatch"},
             Reply(t, reply, None)
      PROVE  Inv' /\ Extends(t)
  BY <1>1, <1>2, <1>4, DeciderReplies
<1>5. ASSUME Undecided(t),
             threads' = [threads EXCEPT ![t].at = "decide", ![t].data = Final(Seen(t)).data]
      PROVE  Inv' /\ Extends(t)
  <2>1. run[seen].op = "tool_requested" /\ Final(Seen(t)) = run[seen] /\ seen \in Nat
        /\ EventAt(in.run, seen, run[seen])
    BY <1>1, <1>5, SeenFacts DEF Undecided, RunState
  <2>2. seen = 5 /\ run[seen].data \in Tools
    BY <2>1 DEF EventAt, StepAt
  <2>3. /\ threads'[t].at = "decide" /\ threads'[t].data = run[seen].data
        /\ threads'[t].input = in /\ threads'[t].seen = seen
        /\ threads'[t].manifest = threads[t].manifest /\ threads'[t].reply = threads[t].reply
        /\ DOMAIN threads'[t] = Fields /\ DOMAIN threads' = Threads
        /\ \A u \in Threads \ {t} : threads'[u] = threads[u]
    BY <1>1, <1>5, <2>1 DEF Fields
  <2>4. ThreadInv(t)'
    BY <1>1, <2>3 DEF ThreadInv, ThreadType, OwnsRun, AnswerStands, DecidePlaces
  <2>5. ChatInv'
    BY <1>1, <1>2, <2>3, <2>4, QuietStepKeeps DEF ChatInv, CallsRecorded, BeforeWriting
  <2>6. Respects(t) /\ Extends(t)
    BY <1>1, <1>2, <2>3, QuietRespects DEF Respects
  <2>7. DeciderInv(t)'
    <3>1. SeenStands(t)' /\ OwnsTail(t)' /\ OwnsGrant(t)'
      BY <1>1, <1>2, <2>3 DEF DeciderInv, SeenStands, OwnsTail, OwnsGrant, RunOf
    <3>2. DeciderType(t)'
      BY <1>1, <1>2, <2>1, <2>2, <2>3 DEF DeciderInv, DeciderType, RunOf
    <3> QED BY <3>1, <3>2 DEF DeciderInv
  <2>8. OwnPart(t)
    BY <1>1, <1>2, <2>3, <2>7 DEF OwnPart, StartsAlone, Active, EffectsInPlace, Inv, DecideInv
  <2> QED BY <1>1, <2>5, <2>6, <2>8, StepKeeps DEF Inv
<1> QED BY <1>3, <1>4, <1>5 DEF Lookup

\* A decision that the ledger accepts is the first on its tool request.
LEMMA DecisionIsTransaction ==
    ASSUME Inv, DistinctStamps, NEW t \in Decides, threads[t].at = "decide",
           NEW q \in Runs, threads[t].input.run = q,
           NEW S, NEW entries \in Seq(S), Accepted(entries), ledger' = Extended(q, entries),
           Len(entries) = 1,
           entries[1].run = q, entries[1].key = threads[t].input.key,
           entries[1].op \in {"grant_approved", "grant_denied"},
           entries[1].parent = ToolEventId(q), entries[1].stamp = Stamp[t],
           entries[1].manifest \subseteq Memories,
           threads'[t].at \notin BeforeWriting,
           \A u \in Threads \ {t} : threads'[u] = threads[u]
    PROVE  Transaction(t, q, entries) /\ Len(ledger[q]) = 5
<1> DEFINE run == ledger[q]
           n == Len(run)
<1>1. /\ t \in Threads /\ t \notin Chats /\ LedgerInv /\ DeciderInv(t) /\ n \in Nat
      /\ Authored
  BY DeciderFacts DEF ChatInv, RunOf
<1>2. \A i \in 1 .. Len(entries) : entries[i] \notin Recorded
  BY <1>1, NothingWritten DEF BeforeWriting
<1>3. EventsWithKey(threads[t].input.key) = {}
  <2>1. \A i \in 1 .. Len(entries) : EventsWithKey(entries[i].key) = {}
    BY <1>2, AcceptedMeansNew
  <2> QED BY <2>1
<1>4. n >= 5 /\ run[5].op = "tool_requested" /\ (n > 5 => run[6].key = threads[t].input.key)
  <2>1. threads[t].seen \in 1 .. n /\ threads[t].seen = 5
    BY <1>1 DEF DeciderInv, SeenStands, DeciderType, RunOf
  <2>2. n >= 5
    BY <1>1, <2>1
  <2> QED BY <1>1, <2>1, <2>2 DEF DeciderInv, SeenStands, DeciderType, RunOf
<1>5. n = 5
  <2> SUFFICES ASSUME n > 5 PROVE FALSE
    <3> HIDE DEF n
    <3> QED BY <1>1, <1>4
  <2>1. 6 \in 1 .. n
    BY <1>1
  <2>2. run[6] \in Recorded /\ run[6].key = threads[t].input.key
    BY <1>1, <1>4, <2>1, RecordedElements DEF LedgerInv
  <2> QED BY <1>3, <2>2 DEF EventsWithKey
<1>6. Continues(q, entries)
  <2>1. EventAt(q, 5 + 1, entries[1])
    BY DEF EventAt, StepAt
  <2>2. Follows(run[5], entries[1])
    <3>1. 5 \in 1 .. n
      BY <1>5
    <3>2. run[5].id = ToolEventId(q)
      BY <1>1, <1>4, <3>1 DEF LedgerInv, Trajectories, EventAt
    <3> QED BY <1>4, <3>2 DEF Follows, AllowedAfter
  <2> QED BY <1>5, <2>1, <2>2 DEF Continues
<1> QED BY <1>1, <1>2, <1>5, <1>6 DEF Transaction

LEMMA RecordDecisionKeeps ==
    ASSUME Inv, DistinctStamps, NEW t \in Decides, RecordDecision(t)
    PROVE  Inv' /\ Extends(t)
<1> DEFINE in == threads[t].input
           q == in.run
           Entry(op) == <<Event(t, "itself", "", op, ToolEventId(q), in.verdict)>>
<1>1. /\ t \in Threads /\ t \notin Chats /\ ChatInv /\ LedgerInv /\ ThreadType(t)
      /\ DeciderInv(t) /\ EffectsInPlace(t) /\ Active(t)
      /\ threads[t].at = "decide" /\ q \in Runs /\ in.key \in ClientKeys
      /\ threads[t].manifest \subseteq Memories
  BY DeciderFacts DEF RecordDecision, Active, ThreadType
<1>2. UNCHANGED <<approved, calls, grants, reads>>
  BY DEF RecordDecision
<1>3. ASSUME NEW op \in {"grant_approved", "grant_denied"}, NEW entries, entries = Entry(op)
      PROVE  /\ entries \in Seq({entries[1]}) /\ Len(entries) = 1
             /\ entries[1].run = q /\ entries[1].key = in.key /\ entries[1].op = op
             /\ entries[1].id = Decision(t) /\ entries[1].parent = ToolEventId(q)
             /\ entries[1].stamp = Stamp[t] /\ entries[1].manifest \subseteq Memories
  BY <1>1, <1>3 DEF Event, Decision
<1>4. ASSUME NEW entries, UNCHANGED ledger, Reply(t, Refusal(entries), None)
      PROVE  Inv' /\ Extends(t)
  BY <1>1, <1>2, <1>4, RefusalIsNoAnswer, DeciderReplies
<1>5. ASSUME NEW entries, entries = Entry("grant_denied"), Accepted(entries),
             ledger' = Extended(q, entries), Reply(t, "denied", None)
      PROVE  Inv' /\ Extends(t)
  <2>1. threads'[t].at = "done" /\ \A u \in Threads \ {t} : threads'[u] = threads[u]
    BY <1>1, <1>5, ReplyFacts
  <2>2. Transaction(t, q, entries)
    BY <1>1, <1>3, <1>5, <2>1, DecisionIsTransaction DEF BeforeWriting
  <2> QED BY <1>1, <1>2, <1>3, <1>5, <2>2, DeciderConcludes, ZenonT(30)
<1>6. ASSUME NEW entries, entries = Entry("grant_approved"), Accepted(entries),
             ledger' = Extended(q, entries), Goto(t, "register")
      PROVE  Inv' /\ Extends(t)
  <2>1. /\ threads'[t].at = "register" /\ \A u \in Threads \ {t} : threads'[u] = threads[u]
        /\ threads'[t].input = in /\ threads'[t].data = threads[t].data
    BY <1>1, <1>6, GotoFacts
  <2>2. Transaction(t, q, entries) /\ Len(ledger[q]) = 5
    BY <1>1, <1>3, <1>6, <2>1, DecisionIsTransaction DEF BeforeWriting
  <2>3. Len(ledger'[q]) = 6 /\ ledger'[q][6] = entries[1]
    <3>1. entries \in Seq({entries[1]}) /\ Len(entries) = 1
      BY <1>3, <1>6
    <3>2. /\ Len(ledger'[q]) = Len(ledger[q]) + 1
          /\ ledger'[q][Len(ledger[q]) + 1] = entries[1]
      <4>1. LedgerInv /\ t \in Threads /\ q \in Runs /\ Transaction(t, q, entries)
        BY <1>1, <2>2
      <4> QED BY ONLY <3>1, <4>1, OneAppended, ZenonT(30)
    <3> QED BY <2>2, <3>2
  <2>4. DeciderInv(t)'
    <3>1. OwnsTail(t)'
      <4>1. /\ entries[1].op = "grant_approved" /\ entries[1].id = Decision(t)
            /\ entries[1].stamp = Stamp[t]
        BY <1>3, <1>6
      <4>2. WroteLast(t, 6, "grant_approved", Decision(t))'
        BY <2>1, <2>3, <4>1 DEF WroteLast, Decision
      <4> QED BY <2>1, <4>2 DEF OwnsTail
    <3>2. SeenStands(t)' /\ OwnsGrant(t)'
      BY <2>1 DEF SeenStands, OwnsGrant
    <3>3. DeciderType(t)'
      BY <1>1, <2>1 DEF DeciderInv, DeciderType
    <3> QED BY <3>1, <3>2, <3>3 DEF DeciderInv
  <2>5. EffectsInPlace(t)'
    BY <1>1, <1>2, <2>1 DEF EffectsInPlace
  <2> QED BY <1>1, <1>2, <1>3, <1>6, <2>2, <2>4, <2>5, DeciderGoesOn DEF Under
<1> QED BY <1>4, <1>5, <1>6 DEF RecordDecision, AppendThen, AppendAndReply

-----------------------------------------------------------------------------
(* After its decision a decider appends one event at a time.               *)

LEMMA NextEvent ==
    ASSUME Inv, DistinctStamps, NEW t \in Decides, Active(t),
           NEW q \in Runs, threads[t].input.run = q,
           NEW n \in 6 .. 9, NEW op, NEW id, WroteLast(t, n, op, id), op # "tool_failed",
           NEW purpose, NEW suffix, NEW kind, NEW data,
           kind \in AllowedAfter[op], kind \in StepAt(n + 1),
           kind \notin {"tool_requested", "model_call_succeeded"},
           kind \in {"model_call_failed", "tool_failed"} => data # "answer",
           NEW entries, entries = <<Event(t, purpose, suffix, kind, id, data)>>,
           Accepted(entries), ledger' = Extended(q, entries),
           threads'[t].at \notin BeforeWriting, threads'[t].input = threads[t].input,
           \A u \in Threads \ {t} : threads'[u] = threads[u]
    PROVE  /\ entries \in Seq({entries[1]}) /\ Len(entries) = 1
           /\ Transaction(t, q, entries)
           /\ Len(ledger[q]) # 5
           /\ WroteLast(t, n + 1, kind, Purpose(t, purpose))'
           /\ \A i \in 1 .. n : ledger'[q][i] = ledger[q][i]
<1>1. /\ t \in Threads /\ t \notin Chats /\ LedgerInv /\ threads[t].at # "idle"
      /\ threads[t].manifest \subseteq Memories
  BY DeciderFacts DEF Active, ThreadType
<1>2. /\ entries \in Seq({entries[1]}) /\ Len(entries) = 1
      /\ entries[1].run = q /\ entries[1].op = kind /\ entries[1].parent = id
      /\ entries[1].id = Purpose(t, purpose) /\ entries[1].stamp = Stamp[t]
      /\ entries[1].manifest = threads[t].manifest /\ entries[1].data = data
  <2> DEFINE e == Event(t, purpose, suffix, kind, id, data)
  <2>1. /\ e.run = q /\ e.op = kind /\ e.parent = id /\ e.id = Purpose(t, purpose)
        /\ e.stamp = Stamp[t] /\ e.manifest = threads[t].manifest /\ e.data = data
    BY <1>1 DEF Event, Purpose
  <2> HIDE DEF e
  <2>2. entries = <<e>>
    BY DEF e
  <2>3. entries \in Seq({entries[1]}) /\ Len(entries) = 1 /\ entries[1] = e
    BY <2>2
  <2> QED BY <2>1, <2>3
<1>3. EventAt(q, n + 1, entries[1])
  BY <1>1, <1>2 DEF EventAt
<1>4. Transaction(t, q, entries)
  <2>1. \A i \in 1 .. Len(entries) :
           EventAt(q, n + i, entries[i]) /\ entries[i].stamp = Stamp[t]
    <3>1. \A i \in 1 .. Len(entries) : i = 1
      BY <1>2
    <3> QED BY <1>2, <1>3, <3>1
  <2>2. entries[Len(entries)].op # "model_call_succeeded" /\ Len(entries) # 2
    BY <1>2
  <2>3. entries[1].op \in AllowedAfter[op] /\ entries[1].parent = id
    BY <1>2
  <2> QED BY <1>1, <1>2, <2>1, <2>2, <2>3, OwnedTransaction
<1>5. Len(ledger[q]) = n
  BY DEF WroteLast
<1>6. /\ Len(ledger'[q]) = Len(ledger[q]) + 1
      /\ ledger'[q][Len(ledger[q]) + 1] = entries[1]
      /\ \A i \in 1 .. Len(ledger[q]) : ledger'[q][i] = ledger[q][i]
  <2>1. LedgerInv /\ t \in Threads /\ Transaction(t, q, entries)
    BY <1>1, <1>4
  <2>2. entries \in Seq({entries[1]}) /\ Len(entries) = 1
    BY <1>2
  <2> QED BY ONLY <2>1, <2>2, q \in Runs, OneAppended, ZenonT(30)
<1>7. Len(ledger'[q]) = n + 1 /\ ledger'[q][n + 1] = entries[1]
  BY <1>5, <1>6
<1>8. WroteLast(t, n + 1, kind, Purpose(t, purpose))'
  BY <1>2, <1>7 DEF WroteLast, Purpose
<1> QED BY <1>2, <1>4, <1>5, <1>6, <1>8

\* The event is accepted and the decider goes on, or it is refused.
LEMMA EventAndOn ==
    ASSUME Inv, DistinctStamps, NEW t \in Decides, Active(t),
           NEW q \in Runs, threads[t].input.run = q,
           NEW n \in 6 .. 9, NEW op, NEW id, WroteLast(t, n, op, id), op # "tool_failed",
           NEW purpose, NEW suffix, NEW kind, NEW data,
           kind \in AllowedAfter[op], kind \in StepAt(n + 1),
           kind \notin {"tool_requested", "model_call_succeeded"},
           kind \in {"model_call_failed", "tool_failed"} => data # "answer",
           NEW place \in Under,
           AppendThen(t, <<Event(t, purpose, suffix, kind, id, data)>>, place),
           UNCHANGED <<approved, calls, grants, reads>>,
           /\ threads'[t].at = place /\ threads'[t].input = threads[t].input
           /\ WroteLast(t, n + 1, kind, Purpose(t, purpose))'
           /\ \A i \in 1 .. n : ledger'[q][i] = ledger[q][i]
           => DeciderInv(t)' /\ EffectsInPlace(t)'
    PROVE  Inv' /\ Extends(t)
<1> DEFINE entries == <<Event(t, purpose, suffix, kind, id, data)>>
<1>1. t \in Threads /\ ChatInv /\ threads[t].at # "idle"
  BY DeciderFacts DEF Active
<1>2. CASE UNCHANGED ledger /\ Reply(t, Refusal(entries), None)
  BY <1>1, <1>2, RefusalIsNoAnswer, DeciderReplies
<1>3. CASE Accepted(entries) /\ ledger' = Extended(q, entries) /\ Goto(t, place)
  <2>1. /\ threads'[t].at = place /\ threads'[t].input = threads[t].input
        /\ \A u \in Threads \ {t} : threads'[u] = threads[u]
    BY <1>1, <1>3, GotoFacts
  <2>2. place \notin BeforeWriting
    BY DEF Under, BeforeWriting
  <2> HIDE DEF entries
  <2>3. /\ entries \in Seq({entries[1]}) /\ Len(entries) = 1
        /\ Transaction(t, q, entries)
        /\ Len(ledger[q]) # 5
        /\ WroteLast(t, n + 1, kind, Purpose(t, purpose))'
        /\ \A i \in 1 .. n : ledger'[q][i] = ledger[q][i]
    BY <1>3, <2>1, <2>2, NextEvent DEF entries
  <2>4. DeciderInv(t)' /\ EffectsInPlace(t)'
    BY <2>1, <2>3
  <2> QED BY <1>3, <2>3, <2>4, DeciderGoesOn
<1> QED BY <1>2, <1>3 DEF AppendThen

\* The event is the last one, whether it is accepted or not.
LEMMA EventAndEnd ==
    ASSUME Inv, DistinctStamps, NEW t \in Decides, Active(t),
           NEW q \in Runs, threads[t].input.run = q,
           NEW n \in 6 .. 9, NEW op, NEW id, WroteLast(t, n, op, id), op # "tool_failed",
           NEW purpose, NEW suffix, NEW kind, NEW data,
           kind \in AllowedAfter[op], kind \in StepAt(n + 1),
           kind \notin {"tool_requested", "model_call_succeeded"},
           kind \in {"model_call_failed", "tool_failed"} => data # "answer",
           NEW reply, reply # "answer",
           AppendAndReply(t, <<Event(t, purpose, suffix, kind, id, data)>>, reply, None),
           UNCHANGED <<approved, calls, grants, reads>>
    PROVE  Inv' /\ Extends(t)
<1> DEFINE entries == <<Event(t, purpose, suffix, kind, id, data)>>
<1>1. t \in Threads /\ ChatInv /\ threads[t].at # "idle"
  BY DeciderFacts DEF Active
<1>2. CASE UNCHANGED ledger /\ Reply(t, Refusal(entries), None)
  BY <1>1, <1>2, RefusalIsNoAnswer, DeciderReplies
<1>3. CASE Accepted(entries) /\ ledger' = Extended(q, entries) /\ Reply(t, reply, None)
  <2>1. /\ threads'[t].at = "done" /\ threads'[t].input = threads[t].input
        /\ \A u \in Threads \ {t} : threads'[u] = threads[u]
    BY <1>1, <1>3, ReplyFacts
  <2>2. threads'[t].at \notin BeforeWriting
    BY <2>1 DEF BeforeWriting
  <2> HIDE DEF entries
  <2>3. /\ entries \in Seq({entries[1]})
        /\ Transaction(t, q, entries)
        /\ Len(ledger[q]) # 5
    BY <1>3, <2>1, <2>2, NextEvent, ZenonT(30) DEF entries
  <2> QED BY <1>3, <2>3, DeciderConcludes
<1> QED BY <1>2, <1>3 DEF AppendAndReply

-----------------------------------------------------------------------------
(* The grant, its claim and the read.                                      *)

LEMMA RegisterGrantKeeps ==
    ASSUME Inv, DistinctStamps, NEW t \in Decides, RegisterGrant(t)
    PROVE  Inv' /\ Extends(t)
<1> DEFINE id == threads[t].input.id
           q == threads[t].input.run
<1>1. /\ t \in Threads /\ t \notin Chats /\ ChatInv /\ Active(t)
      /\ DeciderInv(t) /\ EffectsInPlace(t)
      /\ threads[t].at = "register" /\ id \in DecisionIds /\ q \in Runs
      /\ threads[t].input \in DecideInputs
      /\ grants \in [DecisionIds -> GrantRows \cup {None}]
  BY DeciderFacts DEF RegisterGrant, Active, Inv, DecideInv
<1>2. /\ WroteLast(t, 6, "grant_approved", Decision(t))
      /\ threads[t].data \in Tools
  BY <1>1 DEF DeciderInv, OwnsTail, DeciderType
<1>3. CASE /\ GrantDenial(t) # None
           /\ FailTool(t, GrantDenial(t), Decision(t))
           /\ UNCHANGED <<grants, approved, calls, reads>>
  <2>1. GrantDenial(t) # "answer"
    BY NoneAssumption DEF GrantDenial
  <2>2. "tool_failed" \in AllowedAfter["grant_approved"] /\ "tool_failed" \in StepAt(6 + 1)
    BY DEF AllowedAfter, StepAt
  <2>3. AppendAndReply(t, <<Event(t, GrantDenial(t), "failed", "tool_failed", Decision(t),
                                  GrantDenial(t))>>, GrantDenial(t), None)
    BY <1>3 DEF FailTool
  <2> QED BY <1>1, <1>2, <1>3, <2>1, <2>2, <2>3, EventAndEnd
<1>4. CASE /\ grants' = [grants EXCEPT ![id] =
                 IF @ = None THEN [grant |-> Grant(t), consumed |-> FALSE] ELSE @]
           /\ Goto(t, "claim")
           /\ UNCHANGED <<ledger, approved, calls, reads>>
  <2>1. /\ threads'[t].at = "claim" /\ threads'[t].input = threads[t].input
        /\ \A u \in Threads \ {t} : threads'[u] = threads[u]
    BY <1>1, <1>4, GotoFacts
  <2>2. [grant |-> Grant(t), consumed |-> FALSE] \in GrantRows
    BY <1>1, <1>2 DEF Grant, GrantRows
  <2>3. /\ grants' \in [DecisionIds -> GrantRows \cup {None}]
        /\ grants'[id] # None
        /\ \A i \in DecisionIds : grants[i] # None => grants'[i] = grants[i]
    BY <1>1, <1>4, <2>2, NoRowAssumption
  <2>4. ChatInv' /\ Extends(t)
    BY <1>1, <1>4, QuietGoto DEF Under, BeforeWriting
  <2>5. Respects(t)
    BY <1>4, <2>1, <2>3, <2>4 DEF Respects
  <2>6. DeciderInv(t)'
    <3>1. WroteLast(t, 6, "grant_approved", Decision(t))'
      BY <1>2, <1>4, <2>1 DEF WroteLast, Decision
    <3>2. DeciderType(t)'
      BY <1>1, <2>1 DEF DeciderType
    <3> QED BY <2>1, <2>3, <3>1, <3>2 DEF DeciderInv, SeenStands, OwnsTail, OwnsGrant
  <2>7. OwnPart(t)
    BY <1>1, <1>4, <2>1, <2>3, <2>6, SMTT(30)
       DEF OwnPart, StartsAlone, EffectsInPlace, Inv, DecideInv
  <2> QED BY <1>1, <2>4, <2>5, <2>7, StepKeeps DEF Inv
<1> QED BY <1>3, <1>4 DEF RegisterGrant

LEMMA RecordClaimKeeps ==
    ASSUME Inv, DistinctStamps, NEW t \in Decides, RecordClaim(t)
    PROVE  Inv' /\ Extends(t)
<1> DEFINE q == threads[t].input.run
<1>1. /\ t \in Threads /\ t \notin Chats /\ ChatInv /\ Active(t)
      /\ DeciderInv(t) /\ EffectsInPlace(t) /\ threads[t].at = "claim" /\ q \in Runs
  BY DeciderFacts DEF RecordClaim, Active
<1>2. /\ WroteLast(t, 6, "grant_approved", Decision(t))
      /\ grants[threads[t].input.id] # None
  BY <1>1 DEF DeciderInv, OwnsTail, OwnsGrant
<1>3. ledger[q][6].id = Decision(t)
  BY <1>2 DEF WroteLast
<1>4. /\ "tool_call_claimed" \in AllowedAfter["grant_approved"]
      /\ "tool_call_claimed" \in StepAt(6 + 1)
  BY DEF AllowedAfter, StepAt
<1>5. UNCHANGED <<approved, calls, grants, reads>>
  BY DEF RecordClaim
<1>6. ASSUME threads'[t].at = "execute", threads'[t].input = threads[t].input,
             WroteLast(t, 6 + 1, "tool_call_claimed", Purpose(t, "file-read-claimed"))',
             \A i \in 1 .. 6 : ledger'[q][i] = ledger[q][i]
      PROVE  DeciderInv(t)' /\ EffectsInPlace(t)'
  <2>1. OwnsTail(t)'
    <3>1. ledger'[q][6] = ledger[q][6]
      BY <1>6
    <3>2. RunOf(t)'[6].id = Decision(t)'
      BY <1>3, <1>6, <3>1 DEF RunOf, Decision
    <3> QED BY <1>6, <3>2 DEF OwnsTail
  <2> QED BY <1>1, <1>2, <1>5, <1>6, <2>1
          DEF DeciderInv, SeenStands, DeciderType, OwnsGrant, EffectsInPlace
<1>7. AppendThen(t, <<Event(t, "file-read-claimed", "claimed", "tool_call_claimed",
                            Decision(t), None)>>, "execute")
  BY DEF RecordClaim
<1> QED BY <1>1, <1>2, <1>4, <1>5, <1>6, <1>7, EventAndOn, SMTT(30) DEF Under

\* A claim or a read that is refused leaves only its record to write.
LEMMA DeciderRefuses ==
    ASSUME Inv, DistinctStamps, NEW t \in Decides, threads[t].at \in {"execute", "read"},
           NEW kind, kind # "answer", Refuse(t, kind),
           UNCHANGED <<ledger, approved, calls, grants, reads>>
    PROVE  Inv' /\ Extends(t)
<1>1. /\ t \in Threads /\ t \notin Chats /\ ChatInv /\ threads[t].at # "idle"
      /\ DOMAIN threads = Threads /\ DOMAIN threads[t] = Fields
      /\ ThreadInv(t) /\ DeciderInv(t) /\ EffectsInPlace(t)
  BY DeciderFacts
<1>2. /\ WroteLast(t, 7, "tool_call_claimed", Purpose(t, "file-read-claimed"))
      /\ RunOf(t)[6].id = Decision(t)
  BY <1>1 DEF DeciderInv, OwnsTail
<1>3. /\ threads'[t].at = "fail" /\ threads'[t].input = threads[t].input
      /\ threads'[t].result = kind /\ threads'[t].reply = threads[t].reply
      /\ threads'[t].manifest = threads[t].manifest /\ threads'[t].seen = threads[t].seen
      /\ DOMAIN threads'[t] = Fields /\ DOMAIN threads' = Threads
      /\ \A u \in Threads \ {t} : threads'[u] = threads[u]
  BY <1>1 DEF Refuse, Fields
<1>4. ThreadInv(t)'
  BY <1>1, <1>3 DEF ThreadInv, ThreadType, OwnsRun, AnswerStands, DecidePlaces
<1>5. ChatInv'
  BY <1>1, <1>3, <1>4, QuietStepKeeps DEF ChatInv, CallsRecorded, BeforeWriting
<1>6. Respects(t) /\ Extends(t)
  BY <1>1, <1>3, QuietRespects DEF Respects
<1>7. DeciderInv(t)'
  BY <1>1, <1>2, <1>3
     DEF DeciderInv, SeenStands, DeciderType, OwnsTail, OwnsGrant, WroteLast, Decision,
         Purpose, RunOf
<1>8. OwnPart(t)
  BY <1>1, <1>3, <1>7 DEF OwnPart, StartsAlone, Active, EffectsInPlace, Inv, DecideInv
<1> QED BY <1>1, <1>5, <1>6, <1>8, StepKeeps DEF Inv

LEMMA ClaimGrantKeeps ==
    ASSUME Inv, DistinctStamps, NEW t \in Decides, ClaimGrant(t)
    PROVE  Inv' /\ Extends(t)
<1> DEFINE id == threads[t].input.id
<1>1. /\ t \in Threads /\ t \notin Chats /\ ChatInv /\ Active(t)
      /\ DOMAIN threads = Threads /\ DOMAIN threads[t] = Fields
      /\ ThreadInv(t) /\ DeciderInv(t) /\ EffectsInPlace(t)
      /\ threads[t].at = "execute" /\ id \in DecisionIds
      /\ grants \in [DecisionIds -> GrantRows \cup {None}]
      /\ UNCHANGED <<ledger, approved, calls, reads>>
  BY DeciderFacts DEF ClaimGrant, Active, Inv, DecideInv
<1>2. /\ WroteLast(t, 7, "tool_call_claimed", Purpose(t, "file-read-claimed"))
      /\ RunOf(t)[6].id = Decision(t)
      /\ grants[id] # None
  BY <1>1 DEF DeciderInv, OwnsTail, OwnsGrant
<1>3. CASE Refuse(t, ClaimDenial(t)) /\ UNCHANGED grants
  BY <1>1, <1>2, <1>3, DeciderRefuses DEF ClaimDenial
<1>4. CASE /\ grants' = [grants EXCEPT ![id] = GrantUsed(t)]
           /\ Goto(t, "read")
  <2>1. /\ threads'[t].at = "read" /\ threads'[t].input = threads[t].input
        /\ \A u \in Threads \ {t} : threads'[u] = threads[u]
    BY <1>1, <1>4, GotoFacts
  <2>2. grants[id] \in GrantRows
    BY <1>1, <1>2
  <2>3. GrantUsed(t) \in GrantRows /\ GrantUsed(t).consumed
    BY <2>2 DEF GrantUsed, GrantRows
  <2>4. /\ grants' \in [DecisionIds -> GrantRows \cup {None}]
        /\ grants'[id] # None /\ grants'[id].consumed
        /\ \A i \in DecisionIds \ {id} : grants'[i] = grants[i]
    BY <1>1, <1>4, <2>3, NoRowAssumption
  <2>5. ChatInv' /\ Extends(t)
    BY <1>1, <1>4, QuietGoto DEF Under, BeforeWriting
  <2>6. Respects(t)
    BY <1>1, <2>1, <2>4, <2>5 DEF Respects
  <2>7. DeciderInv(t)'
    BY <1>1, <1>2, <2>1, <2>4
       DEF DeciderInv, SeenStands, DeciderType, OwnsTail, OwnsGrant, WroteLast, Decision,
           Purpose, RunOf
  <2>8. OwnPart(t)
    BY <1>1, <2>1, <2>4, <2>7 DEF OwnPart, StartsAlone, EffectsInPlace, Inv, DecideInv
  <2> QED BY <1>1, <2>5, <2>6, <2>8, StepKeeps DEF Inv
<1> QED BY <1>3, <1>4 DEF ClaimGrant

LEMMA ReadFileKeeps ==
    ASSUME Inv, DistinctStamps, NEW t \in Decides, ReadFile(t)
    PROVE  Inv' /\ Extends(t)
<1> DEFINE in == threads[t].input
           q == in.run
           new == [by |-> t, run |-> q, decision |-> in.id]
<1>1. /\ t \in Threads /\ t \notin Chats /\ ChatInv /\ LedgerInv /\ Active(t)
      /\ DeciderInv(t) /\ EffectsInPlace(t)
      /\ threads[t].at = "read" /\ in.id \in DecisionIds /\ q \in Runs
      /\ grants \in [DecisionIds -> GrantRows \cup {None}] /\ reads \subseteq Reads
      /\ UNCHANGED <<ledger, approved, calls, grants>>
  BY DeciderFacts DEF ReadFile, Active, Inv, DecideInv
<1>2. /\ WroteLast(t, 7, "tool_call_claimed", Purpose(t, "file-read-claimed"))
      /\ RunOf(t)[6].id = Decision(t)
      /\ grants[in.id] # None /\ grants[in.id].consumed
  BY <1>1 DEF DeciderInv, OwnsTail, OwnsGrant
<1>3. CASE Refuse(t, "file_unavailable") /\ UNCHANGED reads
  BY <1>1, <1>3, DeciderRefuses
<1>4. CASE reads' = reads \cup {new} /\ Goto(t, "observe")
  <2>1. /\ threads'[t].at = "observe" /\ threads'[t].input = in
        /\ \A u \in Threads \ {t} : threads'[u] = threads[u]
    BY <1>1, <1>4, GotoFacts
  <2>2. new \in Reads
    BY <1>1 DEF Reads
  <2>3. ChatInv' /\ Extends(t)
    BY <1>1, <1>4, QuietGoto DEF Under, BeforeWriting
  <2>4. Respects(t)
    BY <1>1, <1>4, <2>1, <2>3 DEF Respects
  <2>5. \A r \in reads' \ reads : ReadClaimed(r)'
    <3>1. /\ Len(ledger[q]) = 7 /\ ledger[q][7].op = "tool_call_claimed"
          /\ ledger[q][7].stamp = Stamp[t] /\ ledger[q][6].id = Derived(in.id, "itself")
      BY <1>2 DEF WroteLast, RunOf, Decision
    <3>2. ReadClaimed(new)
      BY <1>2, <3>1 DEF ReadClaimed
    <3>3. \A r : ReadClaimed(r) => ReadClaimed(r)'
      BY <1>1 DEF ReadClaimed
    <3> HIDE DEF new
    <3> QED BY <1>4, <3>2, <3>3
  <2>6. DeciderInv(t)'
    <3>1. OwnsTail(t)'
      BY <1>1, <1>2, <2>1 DEF OwnsTail, WroteLast, Decision, Purpose, RunOf
    <3> QED BY <1>1, <2>1, <3>1 DEF DeciderInv, SeenStands, DeciderType, OwnsGrant
  <2>7. EffectsInPlace(t)'
    <3>1. HasRead(t)'
      <4>1. new \in reads' /\ new.by = t /\ new.run = q
        BY <1>4
      <4> QED BY <2>1, <4>1 DEF HasRead
    <3>2. \A c \in calls' : c.by # t
      BY <1>1 DEF EffectsInPlace
    <3> QED BY <2>1, <3>1, <3>2 DEF EffectsInPlace
  <2>8. OwnPart(t)
    BY <1>1, <1>4, <2>1, <2>2, <2>5, <2>6, <2>7 DEF OwnPart, StartsAlone, Active
  <2> QED BY <1>1, <2>3, <2>4, <2>8, StepKeeps DEF Inv
<1> QED BY <1>3, <1>4 DEF ReadFile

LEMMA RecordRefusalKeeps ==
    ASSUME Inv, DistinctStamps, NEW t \in Decides, RecordRefusal(t)
    PROVE  Inv' /\ Extends(t)
<1>1. /\ Active(t) /\ DeciderInv(t) /\ threads[t].at = "fail"
      /\ threads[t].input.run \in Runs
      /\ UNCHANGED <<approved, calls, grants, reads>>
  BY DeciderFacts DEF RecordRefusal, Active
<1>2. /\ WroteLast(t, 7, "tool_call_claimed", Purpose(t, "file-read-claimed"))
      /\ threads[t].result # "answer"
  BY <1>1 DEF DeciderInv, OwnsTail, DeciderType
<1>3. "tool_failed" \in AllowedAfter["tool_call_claimed"] /\ "tool_failed" \in StepAt(7 + 1)
  BY DEF AllowedAfter, StepAt
<1>4. AppendAndReply(t, <<Event(t, threads[t].result, "failed", "tool_failed",
                                Purpose(t, "file-read-claimed"), threads[t].result)>>,
                     threads[t].result, None)
  BY SMTT(30) DEF RecordRefusal, FailTool
<1> QED BY <1>1, <1>2, <1>3, <1>4, EventAndEnd

LEMMA RecordObservationKeeps ==
    ASSUME Inv, DistinctStamps, NEW t \in Decides, RecordObservation(t)
    PROVE  Inv' /\ Extends(t)
<1>1. /\ t \in Decides /\ Active(t) /\ DeciderInv(t) /\ EffectsInPlace(t)
      /\ threads[t].at = "observe" /\ threads[t].input.run \in Runs
      /\ UNCHANGED <<approved, calls, grants, reads>>
  BY DeciderFacts DEF RecordObservation, Active
<1>2. WroteLast(t, 7, "tool_call_claimed", Purpose(t, "file-read-claimed"))
  BY <1>1 DEF DeciderInv, OwnsTail
<1>3. "observation" \in AllowedAfter["tool_call_claimed"] /\ "observation" \in StepAt(7 + 1)
  BY DEF AllowedAfter, StepAt
<1>4. ASSUME threads'[t].at = "load", threads'[t].input = threads[t].input,
             WroteLast(t, 7 + 1, "observation", Purpose(t, "file-read-observation"))'
      PROVE  DeciderInv(t)' /\ EffectsInPlace(t)'
  BY <1>1, <1>4 DEF DeciderInv, SeenStands, DeciderType, OwnsTail, OwnsGrant,
                    EffectsInPlace, HasRead
<1>5. AppendThen(t, <<Event(t, "file-read-observation", "observation", "observation",
                            Purpose(t, "file-read-claimed"), None)>>, "load")
  BY DEF RecordObservation
<1> QED BY <1>1, <1>2, <1>3, <1>4, <1>5, EventAndOn, SMTT(30) DEF Under

-----------------------------------------------------------------------------
(* The follow-up call.                                                     *)

LEMMA LoadRecordsKeeps ==
    ASSUME Inv, DistinctStamps, NEW t \in Decides, LoadRecords(t)
    PROVE  Inv' /\ Extends(t)
<1>1. /\ t \in Threads /\ t \notin Chats /\ ChatInv /\ Active(t)
      /\ DeciderInv(t) /\ EffectsInPlace(t)
      /\ threads[t].at = "load" /\ threads[t].at # "idle"
      /\ UNCHANGED <<ledger, approved, calls, grants, reads>>
  BY DeciderFacts DEF LoadRecords, Active
<1>2. WroteLast(t, 8, "observation", Purpose(t, "file-read-observation"))
  BY <1>1 DEF DeciderInv, OwnsTail
<1>3. CASE Reply(t, "context_revision_unavailable", None)
  BY <1>1, <1>3, DeciderReplies
<1>4. CASE Goto(t, "followup")
  <2>1. /\ threads'[t].at = "followup" /\ threads'[t].input = threads[t].input
        /\ \A u \in Threads \ {t} : threads'[u] = threads[u]
    BY <1>1, <1>4, GotoFacts
  <2>2. ChatInv' /\ Extends(t)
    BY <1>1, <1>4, QuietGoto DEF Under, BeforeWriting
  <2>3. Respects(t)
    BY <1>1, <2>1, QuietRespects
  <2>4. DeciderInv(t)'
    <3>1. WroteLast(t, 8, "observation", Purpose(t, "file-read-observation"))'
      BY <1>1, <1>2, <2>1 DEF WroteLast, Purpose
    <3> QED BY <1>1, <2>1, <3>1 DEF DeciderInv, SeenStands, DeciderType, OwnsTail, OwnsGrant
  <2>5. EffectsInPlace(t)'
    BY <1>1, <2>1 DEF EffectsInPlace, HasRead
  <2>6. OwnPart(t)
    BY <1>1, <2>1, <2>4, <2>5, SMTT(30) DEF OwnPart, StartsAlone, Inv, DecideInv
  <2> QED BY <1>1, <2>2, <2>3, <2>6, StepKeeps DEF Inv
<1> QED BY <1>3, <1>4 DEF LoadRecords

LEMMA RecordFollowUpKeeps ==
    ASSUME Inv, DistinctStamps, NEW t \in Decides, RecordFollowUp(t)
    PROVE  Inv' /\ Extends(t)
<1>1. /\ t \in Decides /\ Active(t) /\ DeciderInv(t) /\ EffectsInPlace(t)
      /\ threads[t].at = "followup" /\ threads[t].input.run \in Runs
      /\ UNCHANGED <<approved, calls, grants, reads>>
  BY DeciderFacts DEF RecordFollowUp, Active
<1>2. WroteLast(t, 8, "observation", Purpose(t, "file-read-observation"))
  BY <1>1 DEF DeciderInv, OwnsTail
<1>3. /\ "model_call_pending" \in AllowedAfter["observation"]
      /\ "model_call_pending" \in StepAt(8 + 1)
  BY DEF AllowedAfter, StepAt
<1>4. ASSUME threads'[t].at = "dispatch", threads'[t].input = threads[t].input,
             WroteLast(t, 8 + 1, "model_call_pending", Purpose(t, "followup-pending"))'
      PROVE  DeciderInv(t)' /\ EffectsInPlace(t)'
  BY <1>1, <1>4 DEF DeciderInv, SeenStands, DeciderType, OwnsTail, OwnsGrant,
                    EffectsInPlace, HasRead
<1>5. AppendThen(t, <<Event(t, "followup-pending", "followup_pending", "model_call_pending",
                            Purpose(t, "file-read-observation"), None)>>, "dispatch")
  BY DEF RecordFollowUp
<1> QED BY <1>1, <1>2, <1>3, <1>4, <1>5, EventAndOn, SMTT(30) DEF Under

LEMMA FollowUpDispatchKeeps ==
    ASSUME Inv, DistinctStamps, NEW t \in Decides, Dispatch(t), UNCHANGED <<grants, reads>>
    PROVE  Inv' /\ Extends(t)
<1> DEFINE q == threads[t].input.run
           new == [by |-> t, run |-> q]
<1>1. /\ t \in Threads /\ t \notin Chats /\ ChatInv /\ LedgerInv /\ Active(t)
      /\ DeciderInv(t) /\ EffectsInPlace(t)
      /\ threads[t].at = "dispatch" /\ threads[t].at # "idle" /\ q \in Runs
      /\ UNCHANGED ledger /\ calls' = calls \cup {new} /\ Goto(t, "generating")
  BY DeciderFacts DEF Dispatch, Active
<1>2. WroteLast(t, 9, "model_call_pending", Purpose(t, "followup-pending"))
  BY <1>1 DEF DeciderInv, OwnsTail
<1>3. /\ threads'[t].at = "generating" /\ threads'[t].input = threads[t].input
      /\ \A u \in Threads \ {t} : threads'[u] = threads[u]
  BY <1>1, GotoFacts
<1>4. ChatInv' /\ Extends(t)
  BY <1>1, DispatchKeeps, QuietExtends
<1>5. Respects(t)
  BY <1>1, <1>3, <1>4 DEF Respects
<1>6. \A c \in calls' \ calls : FollowUpRecorded(c)'
  <2>1. HasRead(t)
    BY <1>1 DEF EffectsInPlace
  <2>2. Len(ledger[q]) = 9 /\ ledger[q][9].stamp = Stamp[t]
    BY <1>2 DEF WroteLast
  <2>3. FollowUpRecorded(new)
    BY <2>1, <2>2 DEF HasRead, FollowUpRecorded
  <2>4. \A c : FollowUpRecorded(c) => FollowUpRecorded(c)'
    BY <1>1 DEF FollowUpRecorded
  <2> HIDE DEF new
  <2> QED BY <1>1, <2>3, <2>4
<1>7. DeciderInv(t)'
  <2>1. WroteLast(t, 9, "model_call_pending", Purpose(t, "followup-pending"))'
    BY <1>1, <1>2, <1>3 DEF WroteLast, Purpose
  <2> QED BY <1>1, <1>3, <2>1 DEF DeciderInv, SeenStands, DeciderType, OwnsTail, OwnsGrant
<1>8. EffectsInPlace(t)'
  <2>1. HasRead(t)'
    BY <1>1, <1>3 DEF EffectsInPlace, HasRead
  <2> QED BY <1>1, <1>3, <2>1 DEF EffectsInPlace
<1>9. OwnPart(t)
  BY <1>1, <1>3, <1>6, <1>7, <1>8 DEF OwnPart, StartsAlone, Inv, DecideInv
<1> QED BY <1>1, <1>4, <1>5, <1>9, StepKeeps DEF Inv

LEMMA FollowUpReturnsKeeps ==
    ASSUME Inv, DistinctStamps, NEW t \in Decides, ProviderReturns(t),
           UNCHANGED <<grants, reads>>
    PROVE  Inv' /\ Extends(t)
<1>1. /\ t \in Threads /\ t \notin Chats /\ ChatInv /\ LedgerInv /\ Active(t)
      /\ DOMAIN threads = Threads /\ DOMAIN threads[t] = Fields
      /\ DeciderInv(t) /\ EffectsInPlace(t)
      /\ threads[t].at = "generating" /\ threads[t].at # "idle"
      /\ UNCHANGED <<ledger, calls>>
  BY DeciderFacts DEF ProviderReturns, Active
<1>2. WroteLast(t, 9, "model_call_pending", Purpose(t, "followup-pending"))
  BY <1>1 DEF DeciderInv, OwnsTail
<1>3. /\ threads'[t].at = "finish" /\ threads'[t].input = threads[t].input
      /\ \A u \in Threads \ {t} : threads'[u] = threads[u]
  BY <1>1 DEF ProviderReturns, Fields
<1>4. ChatInv' /\ Extends(t)
  BY <1>1, ProviderReturnsKeeps, QuietExtends
<1>5. Respects(t)
  BY <1>1, <1>3, QuietRespects
<1>6. DeciderInv(t)'
  <2>1. WroteLast(t, 9, "model_call_pending", Purpose(t, "followup-pending"))'
    BY <1>1, <1>2, <1>3 DEF WroteLast, Purpose
  <2> QED BY <1>1, <1>3, <2>1 DEF DeciderInv, SeenStands, DeciderType, OwnsTail, OwnsGrant
<1>7. EffectsInPlace(t)'
  <2>1. HasRead(t)'
    BY <1>1, <1>3 DEF EffectsInPlace, HasRead
  <2> QED BY <1>1, <1>3, <2>1 DEF EffectsInPlace
<1>8. OwnPart(t)
  BY <1>1, <1>3, <1>6, <1>7 DEF OwnPart, StartsAlone, Inv, DecideInv
<1> QED BY <1>1, <1>4, <1>5, <1>8, StepKeeps DEF Inv

LEMMA FinishDecisionKeeps ==
    ASSUME Inv, DistinctStamps, NEW t \in Decides, FinishDecision(t)
    PROVE  Inv' /\ Extends(t)
<1> DEFINE q == threads[t].input.run
           pending == Purpose(t, "followup-pending")
           result == threads[t].result
<1>1. /\ t \in Threads /\ t \notin Chats /\ ChatInv /\ LedgerInv /\ Active(t)
      /\ ThreadType(t) /\ DeciderInv(t)
      /\ threads[t].at = "finish" /\ threads[t].at # "idle" /\ q \in Runs
      /\ threads[t].input.key \in ClientKeys
      /\ UNCHANGED <<approved, calls, grants, reads>>
  BY DeciderFacts DEF FinishDecision, Active
<1>2. WroteLast(t, 9, "model_call_pending", pending)
  BY <1>1 DEF DeciderInv, OwnsTail
<1>3. CASE /\ result \in FailureKinds \cup {"tool"}
           /\ AppendAndReply(t,
                 <<Event(t, "followup-failed", "followup_failed", "model_call_failed",
                         pending,
                         IF result = "tool" THEN "repeated_tool_request" ELSE result)>>,
                 "provider_followup_failed", None)
  <2>1. /\ "model_call_failed" \in AllowedAfter["model_call_pending"]
        /\ "model_call_failed" \in StepAt(9 + 1)
    BY DEF AllowedAfter, StepAt
  <2>2. (IF result = "tool" THEN "repeated_tool_request" ELSE result) # "answer"
    BY <1>3, FailureKindsAssumption
  <2> QED BY <1>1, <1>2, <1>3, <2>1, <2>2, EventAndEnd
<1>4. CASE result = "other" /\ Reply(t, "error", None) /\ UNCHANGED ledger
  BY <1>1, <1>4, DeciderReplies
<1>5. ASSUME NEW entries,
             entries =
                <<Event(t, "followup-succeeded", "followup_success", "model_call_succeeded",
                        pending, None),
                  Event(t, "followup-response", "followup_response", "final_response",
                        Purpose(t, "followup-succeeded"), threads[t].data)>>,
             AppendAndReply(t, entries, "answer", threads[t].data)
      PROVE  Inv' /\ Extends(t)
  <2>1. CASE UNCHANGED ledger /\ Reply(t, Refusal(entries), None)
    BY <1>1, <2>1, RefusalIsNoAnswer, DeciderReplies
  <2>2. CASE Accepted(entries) /\ ledger' = Extended(q, entries)
             /\ Reply(t, "answer", threads[t].data)
    <3>1. threads'[t].at = "done" /\ \A u \in Threads \ {t} : threads'[u] = threads[u]
      BY <1>1, <2>2, ReplyFacts
    <3>2. /\ entries \in Seq({entries[1], entries[2]}) /\ Len(entries) = 2
          /\ EventAt(q, 9 + 1, entries[1]) /\ EventAt(q, 9 + 2, entries[2])
          /\ entries[1].stamp = Stamp[t] /\ entries[2].stamp = Stamp[t]
          /\ entries[1].op = "model_call_succeeded" /\ entries[1].parent = pending
          /\ entries[2].op = "final_response" /\ entries[2].data = threads[t].data
          /\ Follows(entries[1], entries[2])
          /\ entries[1].id # entries[2].id /\ entries[1].key # entries[2].key
      <4> DEFINE a == Event(t, "followup-succeeded", "followup_success",
                            "model_call_succeeded", pending, None)
                 b == Event(t, "followup-response", "followup_response", "final_response",
                            Purpose(t, "followup-succeeded"), threads[t].data)
      <4>1. /\ a.run = q /\ a.op = "model_call_succeeded" /\ a.parent = pending
            /\ a.id = Purpose(t, "followup-succeeded") /\ a.stamp = Stamp[t]
            /\ a.manifest = threads[t].manifest
            /\ a.key = <<threads[t].input.key, "followup_success">>
        BY <1>1 DEF Event, Purpose
      <4>2. /\ b.run = q /\ b.op = "final_response"
            /\ b.parent = Purpose(t, "followup-succeeded")
            /\ b.id = Purpose(t, "followup-response") /\ b.stamp = Stamp[t]
            /\ b.manifest = threads[t].manifest /\ b.data = threads[t].data
            /\ b.key = <<threads[t].input.key, "followup_response">>
        BY <1>1 DEF Event, Purpose
      <4>3. a.id # b.id /\ a.key # b.key
        BY <4>1, <4>2 DEF Purpose, Derived
      <4> HIDE DEF a, b
      <4>4. entries = <<a, b>>
        BY <1>5 DEF a, b
      <4>5. Follows(a, b)
        BY <4>1, <4>2 DEF Follows, AllowedAfter
      <4>6. EventAt(q, 10, a) /\ EventAt(q, 11, b)
        BY <1>1, <4>1, <4>2 DEF EventAt, StepAt, ThreadType
      <4>7. entries \in Seq({a, b}) /\ Len(entries) = 2 /\ entries[1] = a /\ entries[2] = b
        BY <4>4
      <4> QED BY <4>1, <4>2, <4>3, <4>5, <4>6, <4>7
    <3>3. Transaction(t, q, entries)
      <4>1. \A i \in 1 .. Len(entries) :
               EventAt(q, 9 + i, entries[i]) /\ entries[i].stamp = Stamp[t]
        <5>1. \A i \in 1 .. Len(entries) : i = 1 \/ i = 2
          BY <3>2
        <5> QED BY <3>2, <5>1
      <4>2. entries[1].op \in AllowedAfter["model_call_pending"]
        BY <3>2 DEF AllowedAfter
      <4>3. entries[Len(entries)].op # "model_call_succeeded"
        BY <3>2
      <4>4. threads'[t].at \notin BeforeWriting
        BY <3>1 DEF BeforeWriting
      <4> QED BY <1>1, <1>2, <2>2, <3>1, <3>2, <4>1, <4>2, <4>3, <4>4, OwnedTransaction
    <3>4. Len(ledger[q]) # 5
      BY <1>2 DEF WroteLast
    <3>5. /\ entries[Len(entries)].op = "final_response"
          /\ entries[Len(entries)].data = threads[t].data
      BY <3>2
    <3> QED BY <1>1, <2>2, <3>2, <3>3, <3>4, <3>5, DeciderConcludes
  <2> QED BY <1>5, <2>1, <2>2 DEF AppendAndReply
<1> QED BY <1>3, <1>4, <1>5 DEF FinishDecision

-----------------------------------------------------------------------------
(* The invariant.                                                          *)

LEMMA DecideStepKeeps ==
    ASSUME Inv, DistinctStamps, NEW t \in Decides, DecideStep(t)
    PROVE  Inv' /\ Extends(t)
BY LookupKeeps, RecordDecisionKeeps, RegisterGrantKeeps, RecordClaimKeeps, ClaimGrantKeeps,
   ReadFileKeeps, RecordRefusalKeeps, RecordObservationKeeps, LoadRecordsKeeps,
   RecordFollowUpKeeps, FinishDecisionKeeps, FollowUpDispatchKeeps, FollowUpReturnsKeeps
   DEF DecideStep

\* A step is that of a thread, or it touches no thread.
LEMMA NextKeeps ==
    ASSUME Inv, DistinctStamps, ~Overlap, [Next]_vars
    PROVE  Inv' /\ (UNCHANGED ledger \/ \E t \in Threads : Extends(t))
<1>1. ASSUME NEW t \in Chats, ChatLookup(t) \/ ChatStep(t) \/ Crash(t),
             UNCHANGED <<grants, reads>>
      PROVE  Inv' /\ \E u \in Threads : Extends(u)
  BY <1>1, ChatStepKeeps DEF Threads
<1>2. ASSUME MemoryChanges, UNCHANGED <<grants, reads>>
      PROVE  Inv' /\ UNCHANGED ledger
  BY <1>2, MemoryChangesKeeps, DecideInvUnchanged DEF Inv, MemoryChanges
<1>3. ASSUME NEW t \in Decides, Inspect(t) \/ DecideStep(t)
      PROVE  Inv' /\ \E u \in Threads : Extends(u)
  BY <1>3, InspectKeeps, DecideStepKeeps DEF Threads
<1>4. ASSUME NEW t \in Decides, Crash(t), UNCHANGED <<grants, reads>>
      PROVE  Inv' /\ \E u \in Threads : Extends(u)
  BY <1>4, DeciderCrashes DEF Threads
<1>5. CASE UNCHANGED vars
  <2>1. ChatInv'
    BY <1>5, ChatNextInv DEF vars, Inv, chatVars
  <2>2. DecideInv'
    BY <1>5, DecideInvUnchanged DEF vars, chatVars, Inv
  <2> QED BY <1>5, <2>1, <2>2 DEF Inv, vars, chatVars
<1> QED BY <1>1, <1>2, <1>3, <1>4, <1>5 DEF Next, ChatNext

LEMMA InitInv == Init => Inv
<1> SUFFICES ASSUME Init PROVE Inv
  OBVIOUS
<1>1. ChatInv
  BY ChatInitInv DEF Init
<1>2. /\ \A t \in Threads : threads[t].at = "idle"
      /\ calls = {} /\ reads = {}
  BY DEF Init, ChatInit, Idle
<1>3. grants \in [DecisionIds -> GrantRows \cup {None}]
  BY DEF Init
<1>4. \A t \in Decides : DeciderInv(t)
  BY <1>2 DEF Threads, DeciderInv, SeenStands, DeciderType, OwnsTail, OwnsGrant
<1>5. SameDecision /\ \A t \in Threads : EffectsInPlace(t)
  BY <1>2 DEF Threads, SameDecision, Active, EffectsInPlace
<1> QED BY <1>1, <1>2, <1>3, <1>4, <1>5 DEF Inv, DecideInv

\* Inv holds in every state, whatever the numbers of threads, runs, decisions
\* and tools, if the interface lets one decision at a time be under way.
THEOREM DecisionsInvariant == ASSUME DistinctStamps, ~Overlap PROVE Spec => []Inv
<1>1. Inv /\ [Next]_vars => Inv'
  BY NextKeeps
<1> QED BY <1>1, InitInv, PTL DEF Spec

LEMMA InvTypes == Inv => TypeOK
<1> SUFFICES ASSUME Inv PROVE TypeOK
  OBVIOUS
<1>1. ChatTypeOK
  BY ChatInvTypes DEF Inv
<1> QED BY <1>1 DEF Inv, DecideInv, TypeOK, Reads

\* What the two events before a read are.
LEMMA ReadOnRecord ==
    ASSUME Inv, NEW r \in reads
    PROVE  /\ r.by \in Decides /\ r.run \in Runs /\ r.decision \in DecisionIds
           /\ Len(ledger[r.run]) \in Nat /\ Len(ledger[r.run]) >= 7
           /\ DOMAIN ledger[r.run] = 1 .. Len(ledger[r.run])
           /\ ledger[r.run][6].op = "grant_approved"
           /\ ledger[r.run][6].id = Derived(r.decision, "itself")
           /\ ledger[r.run][7].op = "tool_call_claimed"
           /\ ledger[r.run][7].parent = ledger[r.run][6].id
           /\ ledger[r.run][7].stamp = Stamp[r.by]
           /\ grants[r.decision] # None /\ grants[r.decision].consumed
<1> DEFINE run == ledger[r.run]
           n == Len(run)
<1>1. /\ r.by \in Decides /\ r.run \in Runs /\ r.decision \in DecisionIds
      /\ LedgerInv /\ ReadClaimed(r)
  BY DEF Inv, DecideInv, ChatInv, Reads
<1>2. n \in Nat /\ n >= 7 /\ DOMAIN run = 1 .. n
  BY <1>1, RecordedElements DEF LedgerInv, ReadClaimed
<1>3. 6 \in 1 .. n /\ 7 \in 2 .. n /\ 7 - 1 = 6
  BY <1>2
<1>4. run # <<>> /\ WellFormed(run)
  BY <1>1, <1>2 DEF LedgerInv, Trajectories
<1>5. run[7].op \in AllowedAfter[run[6].op] /\ run[7].parent = run[6].id
  BY <1>3, <1>4 DEF WellFormed
<1>6. run[6].op \in {"grant_approved", "grant_denied"}
  BY <1>1, <1>3 DEF LedgerInv, Trajectories, EventAt, StepAt
<1>7. run[6].op = "grant_approved"
  BY <1>1, <1>5, <1>6 DEF AllowedAfter, ReadClaimed
<1> QED BY <1>1, <1>2, <1>5, <1>7 DEF ReadClaimed

\* A thread reads once: reads of one run are one read.
LEMMA OneReader ==
    ASSUME Inv, DistinctStamps, NEW r \in reads, NEW other \in reads,
           other.run = r.run
    PROVE  other = r
<1>1. Stamp[r.by] = Stamp[other.by] /\ r.by \in Threads /\ other.by \in Threads
  BY ReadOnRecord DEF Threads
<1>2. other.by = r.by
  BY <1>1 DEF DistinctStamps
<1>3. Derived(r.decision, "itself") = Derived(other.decision, "itself")
  BY ReadOnRecord
<1>4. other.decision = r.decision
  BY <1>3 DEF Derived
<1> QED BY <1>2, <1>4 DEF Inv, DecideInv, Reads

LEMMA InvReads ==
    ASSUME Inv, DistinctStamps
    PROVE  ReadsAreAuthorized /\ OneReadPerRequest
<1> SUFFICES ASSUME NEW r \in reads
             PROVE  /\ \A other \in reads : other.decision = r.decision => other = r
                    /\ \A other \in reads : other.run = r.run => other = r
                    /\ grants[r.decision] # None /\ grants[r.decision].consumed
                    /\ \E i, j \in DOMAIN ledger[r.run] :
                          /\ i < j
                          /\ ledger[r.run][i].op = "grant_approved"
                          /\ ledger[r.run][i].id = Derived(r.decision, "itself")
                          /\ ledger[r.run][j].op = "tool_call_claimed"
                          /\ ledger[r.run][j].parent = ledger[r.run][i].id
                    /\ \A i \in DOMAIN ledger[r.run] : ledger[r.run][i].op # "grant_denied"
  BY DEF ReadsAreAuthorized, OneReadPerRequest
<1>1. ASSUME NEW other \in reads, other.decision = r.decision
      PROVE  other = r
  <2>1. /\ r.run \in Runs /\ other.run \in Runs
        /\ 6 \in 1 .. Len(ledger[r.run]) /\ 6 \in 1 .. Len(ledger[other.run])
        /\ ledger[r.run][6].id = ledger[other.run][6].id
    BY <1>1, ReadOnRecord
  <2>2. r.run = other.run
    BY <2>1 DEF Inv, ChatInv, LedgerInv, UniqueEvents
  <2> QED BY <2>2, OneReader
<1>2. \E i, j \in DOMAIN ledger[r.run] :
         /\ i < j
         /\ ledger[r.run][i].op = "grant_approved"
         /\ ledger[r.run][i].id = Derived(r.decision, "itself")
         /\ ledger[r.run][j].op = "tool_call_claimed"
         /\ ledger[r.run][j].parent = ledger[r.run][i].id
  <2>1. 6 \in DOMAIN ledger[r.run] /\ 7 \in DOMAIN ledger[r.run] /\ 6 < 7
    BY ReadOnRecord
  <2> QED BY <2>1, ReadOnRecord
<1>3. ASSUME NEW i \in DOMAIN ledger[r.run]
      PROVE  ledger[r.run][i].op # "grant_denied"
  <2>1. r.run \in Runs /\ i \in 1 .. Len(ledger[r.run]) /\ ledger[r.run][6].op = "grant_approved"
    BY ReadOnRecord
  <2>2. ledger[r.run][i].op \in StepAt(i)
    BY <2>1 DEF Inv, ChatInv, LedgerInv, Trajectories, EventAt
  <2>3. "grant_denied" \in StepAt(i) => i = 6
    BY DEF StepAt
  <2> QED BY <2>1, <2>2, <2>3
<1> QED BY <1>1, <1>2, <1>3, ReadOnRecord, OneReader

LEMMA InvFollowUps == ASSUME Inv, DistinctStamps PROVE FollowUpsGrounded
<1> SUFFICES ASSUME NEW c \in calls, c.by \in Decides
             PROVE  /\ \A d \in calls : d.by \in Decides /\ d.run = c.run => d = c
                    /\ \E r \in reads : r.by = c.by /\ r.run = c.run
                    /\ \E i, j \in DOMAIN ledger[c.run] :
                          /\ i < j
                          /\ ledger[c.run][i].op = "observation"
                          /\ ledger[c.run][j].op = "model_call_pending"
                          /\ ledger[c.run][j].stamp = Stamp[c.by]
  BY DEF FollowUpsGrounded
<1> DEFINE run == ledger[c.run]
           n == Len(run)
<1>1. c \in [by : Threads, run : Runs] /\ LedgerInv /\ FollowUpRecorded(c)
  BY DEF Inv, DecideInv, ChatInv, CallsRecorded
<1>2. n \in Nat /\ n >= 9 /\ DOMAIN run = 1 .. n
  BY <1>1, RecordedElements DEF LedgerInv, FollowUpRecorded
<1>3. 8 \in 1 .. n /\ 9 \in 2 .. n /\ 9 \in 1 .. n /\ 9 - 1 = 8
  BY <1>2
<1>4. run # <<>> /\ WellFormed(run)
  BY <1>1, <1>2 DEF LedgerInv, Trajectories
<1>5. run[9].op \in AllowedAfter[run[8].op]
  BY <1>3, <1>4 DEF WellFormed
<1>6. run[8].op \in {"observation", "tool_failed"} /\ run[9].op = "model_call_pending"
  BY <1>1, <1>3 DEF LedgerInv, Trajectories, EventAt, StepAt
<1>7. run[8].op = "observation"
  BY <1>5, <1>6 DEF AllowedAfter
<1>8. ASSUME NEW d \in calls, d.by \in Decides, d.run = c.run
      PROVE  d = c
  <2>1. d \in [by : Threads, run : Runs] /\ FollowUpRecorded(d)
    BY <1>8 DEF Inv, DecideInv, ChatInv, CallsRecorded
  <2>2. Stamp[d.by] = Stamp[c.by]
    BY <1>1, <1>8, <2>1 DEF FollowUpRecorded
  <2>3. d.by = c.by
    BY <1>1, <2>1, <2>2 DEF DistinctStamps
  <2> QED BY <1>1, <1>8, <2>1, <2>3
<1>9. \E r \in reads : r.by = c.by /\ r.run = c.run
  BY <1>1 DEF FollowUpRecorded
<1>10. run[9].stamp = Stamp[c.by]
  BY <1>1 DEF FollowUpRecorded
<1>11. 8 < 9 /\ 8 \in DOMAIN run /\ 9 \in DOMAIN run
  BY <1>2, <1>3
<1> QED BY <1>6, <1>7, <1>8, <1>9, <1>10, <1>11

\* A decision and the chats beside it are always well typed.
THEOREM DecisionTypesAlwaysOK == ASSUME DistinctStamps, ~Overlap PROVE Spec => []TypeOK
BY DecisionsInvariant, InvTypes, PTL

\* With decisions on the same ledger an event id and an idempotency key still
\* name one event.
THEOREM SharedLedgerStaysIntact ==
    ASSUME DistinctStamps, ~Overlap PROVE Spec => []LedgerIntegrity
<1>1. Inv => LedgerIntegrity
  BY ChatInvIntegrity DEF Inv
<1> QED BY <1>1, DecisionsInvariant, PTL

\* Every run reads back as a trajectory, however far a decision on it got.
THEOREM DecidedRunsReconstruct ==
    ASSUME DistinctStamps, ~Overlap PROVE Spec => []RunsReconstruct
<1>1. Inv => RunsReconstruct
  BY ChatInvReconstructs DEF Inv
<1> QED BY <1>1, DecisionsInvariant, PTL

\* No retry of a chat or of a decision is answered with anything but the final
\* response on record.
THEOREM DecidedAnswersStayDurable ==
    ASSUME DistinctStamps, ~Overlap PROVE Spec => []AnswersAreDurable
<1>1. Inv => AnswersAreDurable
  BY ChatInvAnswers DEF Inv
<1> QED BY <1>1, DecisionsInvariant, PTL

\* Deciders do not make a message leave for the provider twice.
THEOREM DecidedRunsDispatchOnce ==
    ASSUME DistinctStamps, ~Overlap PROVE Spec => []DispatchedOnce
<1>1. Inv => DispatchedOnce
  BY ChatInvDispatch DEF Inv
<1> QED BY <1>1, DecisionsInvariant, PTL

\* A file is read only on an approval and a claim on record, with the grant of
\* that decision, once.
THEOREM ReadsStayAuthorized ==
    ASSUME DistinctStamps, ~Overlap PROVE Spec => []ReadsAreAuthorized
<1>1. Inv => ReadsAreAuthorized
  BY InvReads
<1> QED BY <1>1, DecisionsInvariant, PTL

\* A tool request is read at most once and never after a denial, whatever is
\* retried and wherever the process dies.
THEOREM AtMostOneRead == ASSUME DistinctStamps, ~Overlap PROVE Spec => []OneReadPerRequest
<1>1. Inv => OneReadPerRequest
  BY InvReads
<1> QED BY <1>1, DecisionsInvariant, PTL

\* The follow-up call leaves once, after its read and its records.
THEOREM FollowUpsStayGrounded ==
    ASSUME DistinctStamps, ~Overlap PROVE Spec => []FollowUpsGrounded
<1>1. Inv => FollowUpsGrounded
  BY InvFollowUps
<1> QED BY <1>1, DecisionsInvariant, PTL

\* No step of a chat or of a decision adds an event to a run that completed,
\* failed or was interrupted.
THEOREM DecidedRunsStay == ASSUME DistinctStamps, ~Overlap PROVE Spec => SettledRunsStay
<1>1. Inv /\ [Next]_vars => [\A q \in Runs : Settled(q) => ledger'[q] = ledger[q]]_ledger
  BY NextKeeps DEF Extends
<1> QED BY <1>1, DecisionsInvariant, PTL DEF Spec, SettledRunsStay

=============================================================================
