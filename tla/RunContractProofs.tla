--------------------------- MODULE RunContractProofs ---------------------------
(***************************************************************************)
(* Chats and decisions implement RunContract: every step of CapabilityLoop *)
(* is a step of the contract of one run, or none.  The inductive invariant *)
(* of CapabilityLoopProofs says where the ledger of a run stands when a    *)
(* thread acts on it, and what the thread has done by then.                *)
(***************************************************************************)
EXTENDS CapabilityLoopProofs

-----------------------------------------------------------------------------
(* The phase of a run.                                                     *)

\* The phase of a run whose last event is its n-th.
PhaseName(n, op) ==
    CASE op = "model_call_pending" -> IF n = 3 THEN "calling" ELSE "following"
      [] op = "tool_requested" -> "awaiting"
      [] op = "grant_approved" -> "granted"
      [] op = "tool_call_claimed" -> "claimed"
      [] op = "observation" -> "observed"
      [] op = "final_response" -> "completed"
      [] OTHER -> "failed"

\* The second call of the model is the one that follows an observation.
LEMMA PendingTwice ==
    ASSUME NEW q, NEW run, NEW n \in Nat \ {0}, Len(run) = n, DOMAIN run = 1 .. n,
           \A i \in 1 .. n : EventAt(q, i, run[i]), WellFormed(run),
           run[n].op = "model_call_pending"
    PROVE  (\E i \in DOMAIN run : run[i].op = "observation") <=> n # 3
<1>1. n \in {3, 9}
  BY DEF EventAt, StepAt
<1>2. CASE n = 3
  <2>1. \A i \in 1 .. 3 : "observation" \notin StepAt(i)
    BY DEF StepAt
  <2> QED BY <1>2, <2>1 DEF EventAt
<1>3. CASE n = 9
  <2>1. 8 \in 1 .. n /\ 9 \in 2 .. n /\ 9 - 1 = 8
    BY <1>3
  <2>2. run[9].op \in AllowedAfter[run[8].op] /\ run[9].op = "model_call_pending"
    BY <1>3, <2>1 DEF WellFormed
  <2>3. run[8].op \in {"observation", "tool_failed"}
    BY <2>1 DEF EventAt, StepAt
  <2>4. run[8].op = "observation"
    BY <2>2, <2>3 DEF AllowedAfter
  <2> QED BY <1>3, <2>1, <2>4
<1> QED BY <1>1, <1>2, <1>3

PhaseOnRecord ==
    \A q \in Runs :
        LET n == Len(ledger[q])
        IN  /\ n \in Nat
            /\ n = 0 => Phase(q) = "unasked"
            /\ n # 0 => Phase(q) = PhaseName(n, ledger[q][n].op)

LEMMA PhaseNow == LedgerInv => PhaseOnRecord
<1> SUFFICES ASSUME LedgerInv, NEW q \in Runs
             PROVE  /\ Len(ledger[q]) \in Nat
                    /\ Len(ledger[q]) = 0 => Phase(q) = "unasked"
                    /\ Len(ledger[q]) # 0 =>
                          Phase(q) = PhaseName(Len(ledger[q]), ledger[q][Len(ledger[q])].op)
  BY DEF PhaseOnRecord
<1> DEFINE run == ledger[q]
           n == Len(run)
<1>1. run \in Seq(Recorded)
  BY DEF LedgerInv, LedgerOfSequences
<1>2. n \in Nat /\ DOMAIN run = 1 .. n /\ (n = 0 <=> run = <<>>)
  BY <1>1, LenProperties, EmptySeq
<1>3. CASE n = 0
  BY <1>2, <1>3 DEF Phase
<1>4. CASE n # 0
  <2>1. WellFormed(run) /\ \A i \in 1 .. n : EventAt(q, i, run[i])
    BY <1>2, <1>4 DEF LedgerInv, Trajectories
  <2>2. run[n].op = "model_call_pending" =>
           ((\E i \in DOMAIN run : run[i].op = "observation") <=> n # 3)
    BY <1>2, <1>4, <2>1, PendingTwice
  <2> QED BY <1>2, <1>4, <2>2 DEF Phase, Final, PhaseName
<1> QED BY <1>2, <1>3, <1>4

LEMMA PhaseNext == LedgerInv' => PhaseOnRecord'
BY PhaseNow, PTL

\* A run that a step changes has grown.
LEMMA ChangedHasGrown ==
    ASSUME LedgerInv, LedgerInv', NEW t, Extends(t), NEW q \in Runs,
           ledger'[q] # ledger[q]
    PROVE  Len(ledger[q]) < Len(ledger'[q])
<1>1. ledger[q] \in Seq(Recorded) /\ ledger'[q] \in Seq(Recorded')
  BY DEF LedgerInv, LedgerOfSequences
<1>2. Len(ledger[q]) \in Nat /\ Len(ledger'[q]) \in Nat
  BY <1>1, LenProperties
<1>3. /\ Len(ledger[q]) <= Len(ledger'[q])
      /\ \A i \in 1 .. Len(ledger[q]) : ledger'[q][i] = ledger[q][i]
  BY DEF Extends
<1>4. ASSUME Len(ledger[q]) = Len(ledger'[q])
      PROVE  FALSE
  BY <1>1, <1>3, <1>4, SeqEqual
<1> QED BY <1>2, <1>3, <1>4

-----------------------------------------------------------------------------
(* The effects of a run.                                                   *)

LEMMA OneOrNone ==
    ASSUME NEW S, \A x, y \in S : x = y
    PROVE  /\ S = {} => Cardinality(S) = 0
           /\ S # {} => Cardinality(S) = 1
<1>1. Cardinality({}) = 0
  BY FS_EmptySet
<1>2. ASSUME NEW x \in S PROVE Cardinality(S) = 1
  <2>1. S = {x}
    BY <1>2
  <2> QED BY <2>1, FS_Singleton
<1> QED BY <1>1, <1>2

CallsBy(q, senders) == {c \in calls : c.run = q /\ c.by \in senders}

ReadsOf(q) == {r \in reads : r.run = q}

\* No effect happened twice.
LEMMA Effects ==
    ASSUME Inv, DistinctStamps, NEW q \in Runs
    PROVE  /\ CallsBy(q, Chats) = {} => CallsOf(q, Chats) = 0
           /\ CallsBy(q, Chats) # {} => CallsOf(q, Chats) = 1
           /\ CallsBy(q, Decides) = {} => CallsOf(q, Decides) = 0
           /\ CallsBy(q, Decides) # {} => CallsOf(q, Decides) = 1
           /\ ReadsOf(q) = {} => Cardinality(ReadsOf(q)) = 0
           /\ ReadsOf(q) # {} => Cardinality(ReadsOf(q)) = 1
<1>1. \A c, d \in CallsBy(q, Chats) : c = d
  BY ChatInvDispatch DEF Inv, DispatchedOnce, CallsBy
<1>2. \A c, d \in CallsBy(q, Decides) : c = d
  BY InvFollowUps DEF FollowUpsGrounded, CallsBy
<1>3. \A r, s \in ReadsOf(q) : r = s
  BY OneReader DEF ReadsOf
<1> QED BY <1>1, <1>2, <1>3, OneOrNone DEF CallsOf, CallsBy

-----------------------------------------------------------------------------
(* Steps of the contract.                                                  *)

\* The runs as the contract sees them.
RunsNow ==
    [q \in Runs |->
        [phase |-> Phase(q), calls |-> CallsOf(q, Chats),
         reads |-> Cardinality(ReadsOf(q)),
         follow_ups |-> CallsOf(q, Decides)]]

ContractStep == Contract!ContractNext \/ UNCHANGED RunsNow

LEMMA QuietStep ==
    ASSUME \A q \in Runs : ledger'[q] = ledger[q], UNCHANGED <<calls, reads>>
    PROVE  ContractStep
BY DEF ContractStep, RunsNow, Phase, CallsOf, ReadsOf

\* A step that adds to one run changes the phase of that run.
LEMMA RecordReaches ==
    ASSUME UNCHANGED <<calls, reads>>, NEW q \in Runs,
           \A p \in Runs \ {q} : ledger'[p] = ledger[p],
           NEW phase, Phase(q)' = phase
    PROVE  Contract!Reach(q, phase)
<1>1. \A p \in Runs : CallsOf(p, Chats)' = CallsOf(p, Chats)
                      /\ CallsOf(p, Decides)' = CallsOf(p, Decides)
  BY DEF CallsOf
<1>2. \A p \in Runs \ {q} : Phase(p)' = Phase(p)
  BY DEF Phase
<1>3. \A p : ReadsOf(p)' = ReadsOf(p)
  BY DEF ReadsOf
<1>4. RunsNow' = [RunsNow EXCEPT ![q].phase = phase]
  BY <1>1, <1>2, <1>3 DEF RunsNow
<1> QED BY <1>4 DEF Contract!Reach, RunsNow, ReadsOf

\* An effect changes its count.
LEMMA SendCounts ==
    ASSUME UNCHANGED <<ledger, reads>>, NEW t \in Chats, NEW q \in Runs,
           calls' = calls \cup {[by |-> t, run |-> q]},
           CallsOf(q, Chats)' = 1
    PROVE  RunsNow' = [RunsNow EXCEPT ![q].calls = 1]
<1>1. t \notin Decides
  BY ThreadsAssumption
<1>2. \A p \in Runs : CallsOf(p, Decides)' = CallsOf(p, Decides)
  <2>1. \A p : {c \in calls' : c.run = p /\ c.by \in Decides}
               = {c \in calls : c.run = p /\ c.by \in Decides}
    BY <1>1
  <2> QED BY <2>1 DEF CallsOf
<1>3. \A p \in Runs \ {q} : CallsOf(p, Chats)' = CallsOf(p, Chats)
  <2>1. ASSUME NEW p \in Runs \ {q}
        PROVE  {c \in calls' : c.run = p /\ c.by \in Chats}
               = {c \in calls : c.run = p /\ c.by \in Chats}
    OBVIOUS
  <2> QED BY <2>1 DEF CallsOf
<1>4. \A p \in Runs : Phase(p)' = Phase(p)
  BY DEF Phase
<1>5. \A p : ReadsOf(p)' = ReadsOf(p)
  BY DEF ReadsOf
<1> QED BY <1>2, <1>3, <1>4, <1>5 DEF RunsNow

LEMMA SendAgainCounts ==
    ASSUME UNCHANGED <<ledger, reads>>, NEW t \in Decides, NEW q \in Runs,
           calls' = calls \cup {[by |-> t, run |-> q]},
           CallsOf(q, Decides)' = 1
    PROVE  RunsNow' = [RunsNow EXCEPT ![q].follow_ups = 1]
<1>1. t \notin Chats
  BY ThreadsAssumption
<1>2. \A p \in Runs : CallsOf(p, Chats)' = CallsOf(p, Chats)
  <2>1. \A p : {c \in calls' : c.run = p /\ c.by \in Chats}
               = {c \in calls : c.run = p /\ c.by \in Chats}
    BY <1>1
  <2> QED BY <2>1 DEF CallsOf
<1>3. \A p \in Runs \ {q} : CallsOf(p, Decides)' = CallsOf(p, Decides)
  <2>1. ASSUME NEW p \in Runs \ {q}
        PROVE  {c \in calls' : c.run = p /\ c.by \in Decides}
               = {c \in calls : c.run = p /\ c.by \in Decides}
    OBVIOUS
  <2> QED BY <2>1 DEF CallsOf
<1>4. \A p \in Runs : Phase(p)' = Phase(p)
  BY DEF Phase
<1>5. \A p : ReadsOf(p)' = ReadsOf(p)
  BY DEF ReadsOf
<1> QED BY <1>2, <1>3, <1>4, <1>5 DEF RunsNow

LEMMA ReadCounts ==
    ASSUME UNCHANGED <<ledger, calls>>, NEW q \in Runs, NEW r, r.run = q,
           reads' = reads \cup {r}, Cardinality(ReadsOf(q))' = 1
    PROVE  RunsNow' = [RunsNow EXCEPT ![q].reads = 1]
<1>1. \A p \in Runs : /\ CallsOf(p, Chats)' = CallsOf(p, Chats)
                      /\ CallsOf(p, Decides)' = CallsOf(p, Decides)
                      /\ Phase(p)' = Phase(p)
  BY DEF CallsOf, Phase
<1>2. \A p \in Runs \ {q} : ReadsOf(p)' = ReadsOf(p)
  BY DEF ReadsOf
<1> QED BY <1>1, <1>2 DEF RunsNow

EffectsOnce ==
    \A q \in Runs :
        /\ CallsBy(q, Chats) # {} => CallsOf(q, Chats) = 1
        /\ CallsBy(q, Decides) # {} => CallsOf(q, Decides) = 1
        /\ ReadsOf(q) # {} => Cardinality(ReadsOf(q)) = 1

LEMMA EffectsNow == ASSUME DistinctStamps PROVE Inv => EffectsOnce
BY Effects DEF EffectsOnce

LEMMA EffectsNext == ASSUME DistinctStamps PROVE Inv' => EffectsOnce'
BY EffectsNow, PTL

\* What the contract sees of a run.
LEMMA ContractView ==
    ASSUME NEW q \in Runs
    PROVE  /\ \A phase : Contract!In(q, phase) <=> Phase(q) = phase
           /\ RunsNow[q].calls = CallsOf(q, Chats)
           /\ RunsNow[q].follow_ups = CallsOf(q, Decides)
           /\ RunsNow[q].reads = Cardinality(ReadsOf(q))
BY DEF Contract!In, RunsNow, ReadsOf

\* The last event of run q is its n-th, and of operation op.
EndsAt(q, n, op) == Len(ledger[q]) = n /\ ledger[q][n].op = op

LEMMA PhaseBefore ==
    ASSUME LedgerInv, NEW q \in Runs, NEW n \in Nat \ {0}, NEW op, EndsAt(q, n, op)
    PROVE  Contract!In(q, PhaseName(n, op))
BY PhaseNow, ContractView DEF PhaseOnRecord, EndsAt

\* A transaction on run q takes it to the phase of its new last event.
LEMMA PhaseReached ==
    ASSUME LedgerInv', NEW q \in Runs, UNCHANGED <<calls, reads>>,
           \A p \in Runs \ {q} : ledger'[p] = ledger[p],
           NEW n \in Nat \ {0}, NEW op, EndsAt(q, n, op)'
    PROVE  Contract!Reach(q, PhaseName(n, op))
<1>1. Phase(q)' = PhaseName(n, op)
  BY PhaseNext DEF PhaseOnRecord, EndsAt
<1> QED BY <1>1, RecordReaches

LEMMA PhaseNames ==
    /\ PhaseName(3, "model_call_pending") = "calling"
    /\ PhaseName(9, "model_call_pending") = "following"
    /\ \A n : /\ PhaseName(n, "tool_requested") = "awaiting"
              /\ PhaseName(n, "grant_approved") = "granted"
              /\ PhaseName(n, "grant_denied") = "failed"
              /\ PhaseName(n, "tool_call_claimed") = "claimed"
              /\ PhaseName(n, "observation") = "observed"
              /\ PhaseName(n, "tool_failed") = "failed"
              /\ PhaseName(n, "final_response") = "completed"
              /\ PhaseName(n, "model_call_failed") = "failed"
              /\ PhaseName(n, "model_call_interrupted") = "failed"
BY DEF PhaseName

\* A transaction touches one run.
LEMMA OtherRunsStay ==
    ASSUME LedgerInv, NEW q \in Runs, NEW entries, ledger' = Extended(q, entries)
    PROVE  \A p \in Runs \ {q} : ledger'[p] = ledger[p]
BY DEF LedgerInv, LedgerOfSequences, Extended

-----------------------------------------------------------------------------
(* The steps of chats.                                                     *)

LEMMA PrepareAsks ==
    ASSUME Inv, Inv', DistinctStamps, NEW t \in Chats, Prepare(t), UNCHANGED <<grants, reads>>,
           NEW q \in Runs, threads[t].input.run = q
    PROVE  ContractStep
<1> DEFINE n == Len(ledger[q])
<1>1. /\ t \in Threads /\ ChatInv /\ LedgerInv /\ LedgerInv'
      /\ UNCHANGED <<calls, reads>> /\ Extends(t)
  BY ChatStepKeeps DEF Inv, ChatInv, Threads, ThreadInv, ThreadType, Prepare, ChatStep
<1>2. CASE UNCHANGED ledger
  BY <1>1, <1>2, QuietStep
<1>3. ASSUME NEW entries, ledger' = Extended(q, entries), Goto(t, "dispatch"),
             ledger'[q] # ledger[q]
      PROVE  ContractStep
  <2>1. threads'[t].at = "dispatch" /\ threads'[t].input = threads[t].input
    BY <1>1, <1>3, GotoFacts
  <2>2. Len(ledger'[q]) = 3 /\ ledger'[q][3].op = "model_call_pending"
    BY <1>1, <2>1 DEF Inv, ChatInv, ThreadInv, OwnsRun, WroteLast
  <2>3. n < 3
    BY <1>1, <1>3, <2>2, ChangedHasGrown
  <2>4. n \in Nat /\ (n # 0 => n >= 3)
    BY <1>1, RecordedElements DEF LedgerInv, Trajectories
  <2>5. n = 0
    BY <2>3, <2>4
  <2>6. \A p \in Runs \ {q} : ledger'[p] = ledger[p]
    BY <1>1, <1>3, OtherRunsStay
  <2>7. Contract!In(q, "unasked")
    BY <1>1, <2>5, PhaseNow, ContractView DEF PhaseOnRecord
  <2>8. EndsAt(q, 3, "model_call_pending")'
    BY <2>2 DEF EndsAt
  <2>9. Contract!Reach(q, PhaseName(3, "model_call_pending"))
    BY <1>1, <2>6, <2>8, PhaseReached
  <2>10. Contract!Ask(q)
    BY <2>7, <2>9, PhaseNames DEF Contract!Ask
  <2> QED BY <1>1, <2>10 DEF ContractStep, Contract!ContractNext
<1>4. ASSUME NEW entries, ledger' = Extended(q, entries), ledger'[q] = ledger[q]
      PROVE  ContractStep
  BY <1>1, <1>4, OtherRunsStay, QuietStep
<1> QED BY <1>2, <1>3, <1>4 DEF Prepare, AppendThen

LEMMA DispatchSends ==
    ASSUME Inv, Inv', DistinctStamps, NEW t \in Chats, Dispatch(t), UNCHANGED <<grants, reads>>,
           NEW q \in Runs, threads[t].input.run = q
    PROVE  ContractStep
<1> DEFINE new == [by |-> t, run |-> q]
<1>1. /\ t \in Threads /\ LedgerInv /\ EffectsInPlace(t)
      /\ threads[t].at = "dispatch"
      /\ UNCHANGED <<ledger, reads>> /\ calls' = calls \cup {new}
  BY DEF Inv, DecideInv, ChatInv, Threads, ThreadInv, ThreadType, Dispatch
<1>2. WroteLast(t, 3, "model_call_pending", Pending(t))
  BY <1>1 DEF Inv, ChatInv, ThreadInv, OwnsRun
<1>3. Len(ledger[q]) = 3 /\ ledger[q][3].op = "model_call_pending"
      /\ ledger[q][3].stamp = Stamp[t]
  BY <1>2 DEF WroteLast
<1>4. Contract!In(q, "calling")
  <2>1. EndsAt(q, 3, "model_call_pending")
    BY <1>3 DEF EndsAt
  <2>2. Contract!In(q, PhaseName(3, "model_call_pending"))
    BY <1>1, <2>1, PhaseBefore
  <2> QED BY <2>2, PhaseNames
<1>5. CallsBy(q, Chats) = {}
  <2> SUFFICES ASSUME NEW c \in calls, c.run = q, c.by \in Chats PROVE FALSE
    BY DEF CallsBy
  <2>1. ledger[q][3].stamp = Stamp[c.by] /\ c.by \in Threads
    BY DEF Inv, ChatInv, CallsRecorded, Threads
  <2>2. c.by = t
    BY <1>1, <1>3, <2>1 DEF DistinctStamps
  <2> QED BY <1>1, <2>2 DEF EffectsInPlace
<1>6. CallsOf(q, Chats) = 0
  BY <1>1, <1>5, Effects
<1>7. CallsOf(q, Chats)' = 1
  <2>1. CallsBy(q, Chats)' # {}
    <3>1. new \in calls' /\ new.run = q /\ new.by \in Chats
      BY <1>1
    <3> QED BY <3>1 DEF CallsBy
  <2> QED BY <1>1, <2>1, EffectsNext DEF EffectsOnce
<1>8. RunsNow' = [RunsNow EXCEPT ![q].calls = 1]
  BY <1>1, <1>7, SendCounts
<1>9. Contract!Send(q)
  BY <1>1, <1>4, <1>6, <1>8, ContractView DEF Contract!Send, RunsNow, ReadsOf
<1> QED BY <1>1, <1>9 DEF ContractStep, Contract!ContractNext

LEMMA FinishRecordsOutcome ==
    ASSUME Inv, Inv', DistinctStamps, NEW t \in Chats, ChatFinish(t),
           UNCHANGED <<grants, reads>>, NEW q \in Runs, threads[t].input.run = q
    PROVE  ContractStep
<1>1. /\ t \in Threads /\ LedgerInv /\ LedgerInv' /\ EffectsInPlace(t)
      /\ threads[t].at = "finish" /\ UNCHANGED <<calls, reads>> /\ Extends(t)
  BY ChatStepKeeps DEF Inv, DecideInv, ChatInv, Threads, ChatFinish, ChatStep
<1>2. WroteLast(t, 3, "model_call_pending", Pending(t))
  BY <1>1 DEF Inv, ChatInv, ThreadInv, OwnsRun
<1>3. Len(ledger[q]) = 3 /\ ledger[q][3].op = "model_call_pending"
  BY <1>2 DEF WroteLast
<1>4. \A p \in Runs \ {q} : ledger'[p] = ledger[p]
  <2>1. UNCHANGED ledger \/ \E entries : ledger' = Extended(q, entries)
    BY DEF ChatFinish, TerminalModelEvent, AppendAndReply
  <2> QED BY <1>1, <2>1, OtherRunsStay
<1>5. CASE ledger'[q] = ledger[q]
  BY <1>1, <1>4, <1>5, QuietStep
<1>6. CASE ledger'[q] # ledger[q]
  <2>1. PICK m : m = Len(ledger'[q])
    OBVIOUS
  <2>2. PICK op : op = ledger'[q][m].op
    OBVIOUS
  <2>3. m \in {4, 5}
    <3>1. 3 < m /\ m <= 5
      BY <1>1, <1>3, <1>6, <2>1, ChangedHasGrown DEF Extends
    <3>2. m \in Nat
      BY <1>1, <2>1, PhaseNext DEF PhaseOnRecord
    <3> QED BY <3>1, <3>2
  <2>4. PhaseName(m, op) \in {"completed", "failed", "awaiting"}
    <3>1. m \in 1 .. m /\ ledger'[q] # <<>>
      BY <1>1, <2>1, <2>3, EmptySeq DEF LedgerInv, LedgerOfSequences
    <3>2. op \in StepAt(m) /\ op # "model_call_succeeded"
      BY <1>1, <2>1, <2>2, <3>1 DEF LedgerInv, Trajectories, EventAt, Final
    <3>3. op \in {"tool_requested", "final_response", "model_call_failed",
                 "model_call_interrupted"}
      BY <2>3, <3>2 DEF StepAt
    <3> QED BY <3>3, PhaseNames
  <2>5. Contract!In(q, "calling") /\ Contract!Reach(q, PhaseName(m, op))
    <3>1. EndsAt(q, 3, "model_call_pending") /\ EndsAt(q, m, op)'
      BY <1>3, <2>1, <2>2 DEF EndsAt
    <3>2. m \in Nat \ {0} /\ 3 \in Nat \ {0}
      BY <2>3
    <3>3. Contract!In(q, PhaseName(3, "model_call_pending"))
      BY <1>1, <3>1, <3>2, PhaseBefore
    <3>4. Contract!Reach(q, PhaseName(m, op))
      BY <1>1, <1>4, <3>1, <3>2, PhaseReached
    <3> QED BY <3>3, <3>4, PhaseNames
  <2>6. CallsOf(q, Chats) = 1
    <3>1. CallsBy(q, Chats) # {}
      BY <1>1 DEF EffectsInPlace, CallsBy
    <3> QED BY <1>1, <3>1, Effects
  <2>7. Contract!RecordOutcome(q)
    BY <2>4, <2>5, <2>6, ContractView DEF Contract!RecordOutcome, RunsNow, ReadsOf
  <2> QED BY <2>7 DEF ContractStep, Contract!ContractNext
<1> QED BY <1>5, <1>6

-----------------------------------------------------------------------------
(* The steps of decisions.                                                 *)

LEMMA DecisionDecides ==
    ASSUME Inv, Inv', DistinctStamps, NEW t \in Decides, RecordDecision(t),
           NEW q \in Runs, threads[t].input.run = q
    PROVE  ContractStep
<1>1. /\ t \in Threads /\ ChatInv /\ LedgerInv /\ LedgerInv' /\ DeciderInv(t) /\ ThreadType(t)
      /\ threads[t].at = "decide" /\ UNCHANGED <<calls, reads>>
      /\ threads[t].manifest \subseteq Memories
  BY DeciderFacts DEF Inv, ChatInv, RecordDecision, ThreadType
<1>2. CASE UNCHANGED ledger
  BY <1>1, <1>2, QuietStep
<1>3. ASSUME NEW op \in {"grant_approved", "grant_denied"}, NEW entries,
             entries = <<Event(t, "itself", "", op, ToolEventId(q), threads[t].input.verdict)>>,
             Accepted(entries), ledger' = Extended(q, entries),
             threads'[t].at \in {"register", "done"},
             \A u \in Threads \ {t} : threads'[u] = threads[u]
      PROVE  ContractStep
  <2>1. /\ entries \in Seq({entries[1]}) /\ Len(entries) = 1
        /\ entries[1].run = q /\ entries[1].key = threads[t].input.key
        /\ entries[1].op = op /\ entries[1].parent = ToolEventId(q)
        /\ entries[1].stamp = Stamp[t] /\ entries[1].manifest \subseteq Memories
    BY <1>1, <1>3 DEF Event
  <2>2. Transaction(t, q, entries) /\ Len(ledger[q]) = 5
    BY <1>1, <1>3, <2>1, DecisionIsTransaction DEF BeforeWriting
  <2>3. Len(ledger'[q]) = 6 /\ ledger'[q][6].op = op
    <3>1. LedgerInv /\ t \in Threads /\ Transaction(t, q, entries)
      BY <1>1, <2>2
    <3>2. entries \in Seq({entries[1]}) /\ Len(entries) = 1
      BY <2>1
    <3>3. Len(ledger'[q]) = Len(ledger[q]) + 1 /\ ledger'[q][Len(ledger[q]) + 1] = entries[1]
      BY ONLY <3>1, <3>2, q \in Runs, OneAppended, ZenonT(30)
    <3> QED BY <2>1, <2>2, <3>3
  <2>4. ledger[q][5].op = "tool_requested"
    BY <1>1 DEF DeciderInv, DeciderType, RunOf
  <2>5. \A p \in Runs \ {q} : ledger'[p] = ledger[p]
    BY <1>1, <1>3, OtherRunsStay
  <2>6. EndsAt(q, 5, "tool_requested") /\ EndsAt(q, 6, op)'
    BY <2>2, <2>3, <2>4 DEF EndsAt
  <2>7. /\ Contract!In(q, PhaseName(5, "tool_requested"))
        /\ Contract!Reach(q, PhaseName(6, op))
    BY <1>1, <2>5, <2>6, PhaseBefore, PhaseReached
  <2>8. Contract!Decide(q)
    BY <1>3, <2>7, PhaseNames DEF Contract!Decide
  <2> QED BY <2>8 DEF ContractStep, Contract!ContractNext
<1>4. ASSUME Goto(t, "register") \/ Reply(t, "denied", None)
      PROVE  /\ threads'[t].at \in {"register", "done"}
             /\ \A u \in Threads \ {t} : threads'[u] = threads[u]
  BY <1>1, <1>4, GotoFacts, ReplyFacts
<1> QED BY <1>2, <1>3, <1>4 DEF RecordDecision, AppendThen, AppendAndReply

\* An event of this kind may be written after the n-th, by who wrote that.
MayFollow(n, op, kind, data) ==
    /\ kind \in AllowedAfter[op] /\ kind \in StepAt(n + 1)
    /\ kind \notin {"tool_requested", "model_call_succeeded"}
    /\ kind \in {"model_call_failed", "tool_failed"} => data # "answer"

\* A decider adds one event to the run it owns.
LEMMA EventMoves ==
    ASSUME Inv, LedgerInv', DistinctStamps, NEW t \in Decides, Active(t),
           NEW q \in Runs, threads[t].input.run = q,
           NEW n \in 6 .. 9, NEW op, NEW id, WroteLast(t, n, op, id), op # "tool_failed",
           NEW purpose, NEW suffix, NEW kind, NEW data, MayFollow(n, op, kind, data),
           NEW entries, entries = <<Event(t, purpose, suffix, kind, id, data)>>,
           Accepted(entries), ledger' = Extended(q, entries),
           threads'[t].at \notin BeforeWriting, threads'[t].input = threads[t].input,
           \A u \in Threads \ {t} : threads'[u] = threads[u],
           UNCHANGED <<calls, reads>>
    PROVE  /\ Contract!In(q, PhaseName(n, op))
           /\ Contract!Reach(q, PhaseName(n + 1, kind))
<1>1. t \in Threads /\ LedgerInv
  BY DeciderFacts
<1>2. WroteLast(t, n + 1, kind, Purpose(t, purpose))'
  BY NextEvent DEF MayFollow
<1>3. EndsAt(q, n, op) /\ EndsAt(q, n + 1, kind)'
  BY <1>2 DEF WroteLast, EndsAt
<1>4. n \in Nat \ {0} /\ n + 1 \in Nat \ {0}
  OBVIOUS
<1>5. \A p \in Runs \ {q} : ledger'[p] = ledger[p]
  BY <1>1, OtherRunsStay
<1>6. Contract!In(q, PhaseName(n, op))
  BY <1>1, <1>3, <1>4, PhaseBefore
<1>7. Contract!Reach(q, PhaseName(n + 1, kind))
  BY <1>3, <1>4, <1>5, PhaseReached
<1> QED BY <1>6, <1>7

\* It is refused, or it moves the run and the decider goes on.
LEMMA EventOnMoves ==
    ASSUME Inv, LedgerInv', DistinctStamps, NEW t \in Decides, Active(t),
           NEW q \in Runs, threads[t].input.run = q,
           NEW n \in 6 .. 9, NEW op, NEW id, WroteLast(t, n, op, id), op # "tool_failed",
           NEW purpose, NEW suffix, NEW kind, NEW data, MayFollow(n, op, kind, data),
           NEW place \in Under,
           AppendThen(t, <<Event(t, purpose, suffix, kind, id, data)>>, place),
           UNCHANGED <<calls, reads>>
    PROVE  \/ UNCHANGED ledger
           \/ /\ Contract!In(q, PhaseName(n, op))
              /\ Contract!Reach(q, PhaseName(n + 1, kind))
<1> DEFINE entries == <<Event(t, purpose, suffix, kind, id, data)>>
<1>1. t \in Threads /\ ChatInv
  BY DeciderFacts
<1>2. CASE Accepted(entries) /\ ledger' = Extended(q, entries) /\ Goto(t, place)
  <2>1. /\ threads'[t].at \notin BeforeWriting /\ threads'[t].input = threads[t].input
        /\ \A u \in Threads \ {t} : threads'[u] = threads[u]
    BY <1>1, <1>2, GotoFacts DEF BeforeWriting, Under
  <2> QED BY <1>2, <2>1, EventMoves
<1> QED BY <1>2 DEF AppendThen

\* It is refused, or it moves the run and is the last one.
LEMMA EventEndMoves ==
    ASSUME Inv, LedgerInv', DistinctStamps, NEW t \in Decides, Active(t),
           NEW q \in Runs, threads[t].input.run = q,
           NEW n \in 6 .. 9, NEW op, NEW id, WroteLast(t, n, op, id), op # "tool_failed",
           NEW purpose, NEW suffix, NEW kind, NEW data, MayFollow(n, op, kind, data),
           NEW reply, AppendAndReply(t, <<Event(t, purpose, suffix, kind, id, data)>>, reply, None),
           UNCHANGED <<calls, reads>>
    PROVE  \/ UNCHANGED ledger
           \/ /\ Contract!In(q, PhaseName(n, op))
              /\ Contract!Reach(q, PhaseName(n + 1, kind))
<1> DEFINE entries == <<Event(t, purpose, suffix, kind, id, data)>>
<1>1. t \in Threads /\ ChatInv
  BY DeciderFacts
<1>2. CASE Accepted(entries) /\ ledger' = Extended(q, entries) /\ Reply(t, reply, None)
  <2>1. /\ threads'[t].at \notin BeforeWriting /\ threads'[t].input = threads[t].input
        /\ \A u \in Threads \ {t} : threads'[u] = threads[u]
    BY <1>1, <1>2, ReplyFacts DEF BeforeWriting
  <2> QED BY <1>2, <2>1, EventMoves
<1> QED BY <1>2 DEF AppendAndReply

\* Nobody reads for a run before its claim, and only who claimed it reads.
LEMMA NothingRead ==
    ASSUME Inv, DistinctStamps, NEW t \in Threads, NEW q \in Runs, threads[t].input.run = q,
           NEW n \in 6 .. 7, NEW op, NEW id, WroteLast(t, n, op, id),
           n = 7 => \A r \in reads : r.by # t
    PROVE  Cardinality(ReadsOf(q)) = 0
<1>1. ReadsOf(q) = {}
  <2> SUFFICES ASSUME NEW r \in reads, r.run = q PROVE FALSE
    BY DEF ReadsOf
  <2>1. Len(ledger[q]) >= 7 /\ ledger[q][7].stamp = Stamp[r.by] /\ r.by \in Threads
    BY DEF Inv, DecideInv, ReadClaimed, Reads, Threads
  <2>2. Len(ledger[q]) = n /\ ledger[q][n].stamp = Stamp[t]
    BY DEF WroteLast
  <2>3. n = 7 /\ r.by # t
    BY <2>1, <2>2
  <2> QED BY <2>1, <2>2, <2>3 DEF DistinctStamps
<1> QED BY <1>1, Effects

LEMMA ReadOnce ==
    ASSUME Inv, DistinctStamps, NEW t \in Threads, NEW q \in Runs, threads[t].input.run = q,
           HasRead(t)
    PROVE  Cardinality(ReadsOf(q)) = 1
<1>1. ReadsOf(q) # {}
  BY DEF HasRead, ReadsOf
<1> QED BY <1>1, Effects

LEMMA RegisterGrantMoves ==
    ASSUME Inv, Inv', DistinctStamps, NEW t \in Decides, RegisterGrant(t),
           NEW q \in Runs, threads[t].input.run = q
    PROVE  ContractStep
<1>1. /\ t \in Threads /\ Active(t) /\ UNCHANGED <<calls, reads>> /\ LedgerInv'
      /\ WroteLast(t, 6, "grant_approved", Decision(t))
  BY DeciderFacts DEF RegisterGrant, Active, DeciderInv, OwnsTail, Inv, ChatInv
<1>2. CASE FailTool(t, GrantDenial(t), Decision(t)) /\ GrantDenial(t) # None
  <2>1. GrantDenial(t) # "answer"
    BY NoneAssumption DEF GrantDenial
  <2>2. MayFollow(6, "grant_approved", "tool_failed", GrantDenial(t))
    BY <2>1 DEF MayFollow, AllowedAfter, StepAt
  <2>3. AppendAndReply(t, <<Event(t, GrantDenial(t), "failed", "tool_failed", Decision(t),
                                  GrantDenial(t))>>, GrantDenial(t), None)
    BY <1>2 DEF FailTool
  <2>4. \/ UNCHANGED ledger
        \/ /\ Contract!In(q, PhaseName(6, "grant_approved"))
           /\ Contract!Reach(q, PhaseName(6 + 1, "tool_failed"))
    BY <1>1, <2>2, <2>3, EventEndMoves
  <2>5. CASE UNCHANGED ledger
    BY <1>1, <2>5, QuietStep
  <2>6. CASE Contract!In(q, "granted") /\ Contract!Reach(q, "failed")
    <3>1. Cardinality(ReadsOf(q)) = 0
      <4>1. 6 \in 6 .. 7 /\ ~(6 = 7)
        OBVIOUS
      <4> QED BY <1>1, <4>1, NothingRead
    <3>2. Contract!FailTool(q)
      BY <2>6, <3>1, ContractView DEF Contract!FailTool, RunsNow, ReadsOf
    <3> QED BY <3>2 DEF ContractStep, Contract!ContractNext
  <2> QED BY <2>4, <2>5, <2>6, PhaseNames
<1>3. CASE UNCHANGED ledger
  BY <1>1, <1>3, QuietStep
<1> QED BY <1>2, <1>3 DEF RegisterGrant

LEMMA RecordClaimMoves ==
    ASSUME Inv, Inv', DistinctStamps, NEW t \in Decides, RecordClaim(t),
           NEW q \in Runs, threads[t].input.run = q
    PROVE  ContractStep
<1>1. /\ Active(t) /\ UNCHANGED <<calls, reads>> /\ LedgerInv'
      /\ WroteLast(t, 6, "grant_approved", Decision(t))
      /\ AppendThen(t, <<Event(t, "file-read-claimed", "claimed", "tool_call_claimed",
                               Decision(t), None)>>, "execute")
  BY DeciderFacts DEF RecordClaim, Active, DeciderInv, OwnsTail, Inv, ChatInv
<1>2. \/ UNCHANGED ledger
      \/ /\ Contract!In(q, PhaseName(6, "grant_approved"))
         /\ Contract!Reach(q, PhaseName(6 + 1, "tool_call_claimed"))
  <2>1. MayFollow(6, "grant_approved", "tool_call_claimed", None)
    BY DEF MayFollow, AllowedAfter, StepAt
  <2> QED BY <1>1, <2>1, EventOnMoves DEF Under
<1>3. CASE UNCHANGED ledger
  BY <1>1, <1>3, QuietStep
<1>4. CASE Contract!In(q, "granted") /\ Contract!Reach(q, "claimed")
  BY <1>4 DEF Contract!Claim, ContractStep, Contract!ContractNext
<1> QED BY <1>2, <1>3, <1>4, PhaseNames

LEMMA ReadFileMoves ==
    ASSUME Inv, Inv', DistinctStamps, NEW t \in Decides, ReadFile(t),
           NEW q \in Runs, threads[t].input.run = q
    PROVE  ContractStep
<1> DEFINE new == [by |-> t, run |-> q, decision |-> threads[t].input.id]
<1>1. /\ t \in Threads /\ LedgerInv /\ UNCHANGED <<ledger, calls>>
      /\ WroteLast(t, 7, "tool_call_claimed", Purpose(t, "file-read-claimed"))
      /\ \A r \in reads : r.by # t
  BY DeciderFacts DEF ReadFile, DeciderInv, OwnsTail, EffectsInPlace
<1>2. CASE UNCHANGED reads
  BY <1>1, <1>2, QuietStep
<1>3. CASE reads' = reads \cup {new}
  <2>1. Contract!In(q, "claimed")
    <3>1. EndsAt(q, 7, "tool_call_claimed")
      BY <1>1 DEF WroteLast, EndsAt
    <3>2. Contract!In(q, PhaseName(7, "tool_call_claimed"))
      BY <1>1, <3>1, PhaseBefore
    <3> QED BY <3>2, PhaseNames
  <2>2. Cardinality(ReadsOf(q)) = 0
    <3>1. 7 \in 6 .. 7
      OBVIOUS
    <3> QED BY <1>1, <3>1, NothingRead
  <2>3. Cardinality(ReadsOf(q))' = 1
    <3>1. ReadsOf(q)' # {}
      <4>1. new \in reads' /\ new.run = q
        BY <1>3
      <4> QED BY <4>1 DEF ReadsOf
    <3> QED BY <3>1, EffectsNext DEF EffectsOnce
  <2>4. RunsNow' = [RunsNow EXCEPT ![q].reads = 1]
    <3>1. new.run = q
      OBVIOUS
    <3> HIDE DEF new
    <3> QED BY <1>1, <1>3, <2>3, <3>1, ReadCounts
  <2>5. Contract!Read(q)
    BY <2>1, <2>2, <2>4, ContractView DEF Contract!Read, RunsNow, ReadsOf
  <2> QED BY <2>5 DEF ContractStep, Contract!ContractNext
<1> QED BY <1>2, <1>3 DEF ReadFile

LEMMA RecordRefusalMoves ==
    ASSUME Inv, Inv', DistinctStamps, NEW t \in Decides, RecordRefusal(t),
           NEW q \in Runs, threads[t].input.run = q
    PROVE  ContractStep
<1>1. /\ t \in Threads /\ Active(t) /\ UNCHANGED <<calls, reads>> /\ LedgerInv'
      /\ WroteLast(t, 7, "tool_call_claimed", Purpose(t, "file-read-claimed"))
      /\ threads[t].result # "answer" /\ \A r \in reads : r.by # t
      /\ AppendAndReply(t, <<Event(t, threads[t].result, "failed", "tool_failed",
                                   Purpose(t, "file-read-claimed"), threads[t].result)>>,
                        threads[t].result, None)
  BY DeciderFacts DEF RecordRefusal, FailTool, Active, DeciderInv, OwnsTail, DeciderType,
                      EffectsInPlace, Inv, ChatInv
<1>2. \/ UNCHANGED ledger
      \/ /\ Contract!In(q, PhaseName(7, "tool_call_claimed"))
         /\ Contract!Reach(q, PhaseName(7 + 1, "tool_failed"))
  <2>1. MayFollow(7, "tool_call_claimed", "tool_failed", threads[t].result)
    BY <1>1 DEF MayFollow, AllowedAfter, StepAt
  <2> QED BY <1>1, <2>1, EventEndMoves
<1>3. CASE UNCHANGED ledger
  BY <1>1, <1>3, QuietStep
<1>4. CASE Contract!In(q, "claimed") /\ Contract!Reach(q, "failed")
  <2>1. Cardinality(ReadsOf(q)) = 0
    <3>1. 7 \in 6 .. 7
      OBVIOUS
    <3> QED BY <1>1, <3>1, NothingRead
  <2>2. Contract!FailTool(q)
    BY <1>4, <2>1, ContractView DEF Contract!FailTool, RunsNow, ReadsOf
  <2> QED BY <2>2 DEF ContractStep, Contract!ContractNext
<1> QED BY <1>2, <1>3, <1>4, PhaseNames

LEMMA RecordObservationMoves ==
    ASSUME Inv, Inv', DistinctStamps, NEW t \in Decides, RecordObservation(t),
           NEW q \in Runs, threads[t].input.run = q
    PROVE  ContractStep
<1>1. /\ t \in Threads /\ Active(t) /\ UNCHANGED <<calls, reads>> /\ LedgerInv'
      /\ WroteLast(t, 7, "tool_call_claimed", Purpose(t, "file-read-claimed")) /\ HasRead(t)
      /\ AppendThen(t, <<Event(t, "file-read-observation", "observation", "observation",
                               Purpose(t, "file-read-claimed"), None)>>, "load")
  BY DeciderFacts DEF RecordObservation, Active, DeciderInv, OwnsTail, EffectsInPlace, Inv,
                      ChatInv
<1>2. \/ UNCHANGED ledger
      \/ /\ Contract!In(q, PhaseName(7, "tool_call_claimed"))
         /\ Contract!Reach(q, PhaseName(7 + 1, "observation"))
  <2>1. MayFollow(7, "tool_call_claimed", "observation", None)
    BY DEF MayFollow, AllowedAfter, StepAt
  <2> QED BY <1>1, <2>1, EventOnMoves DEF Under
<1>3. CASE UNCHANGED ledger
  BY <1>1, <1>3, QuietStep
<1>4. CASE Contract!In(q, "claimed") /\ Contract!Reach(q, "observed")
  <2>1. Cardinality(ReadsOf(q)) = 1
    BY <1>1, ReadOnce
  <2>2. Contract!Observe(q)
    BY <1>4, <2>1, ContractView DEF Contract!Observe, RunsNow, ReadsOf
  <2> QED BY <2>2 DEF ContractStep, Contract!ContractNext
<1> QED BY <1>2, <1>3, <1>4, PhaseNames

LEMMA RecordFollowUpMoves ==
    ASSUME Inv, Inv', DistinctStamps, NEW t \in Decides, RecordFollowUp(t),
           NEW q \in Runs, threads[t].input.run = q
    PROVE  ContractStep
<1>1. /\ Active(t) /\ UNCHANGED <<calls, reads>> /\ LedgerInv'
      /\ WroteLast(t, 8, "observation", Purpose(t, "file-read-observation"))
      /\ AppendThen(t, <<Event(t, "followup-pending", "followup_pending",
                               "model_call_pending", Purpose(t, "file-read-observation"),
                               None)>>, "dispatch")
  BY DeciderFacts DEF RecordFollowUp, Active, DeciderInv, OwnsTail, Inv, ChatInv
<1>2. \/ UNCHANGED ledger
      \/ /\ Contract!In(q, PhaseName(8, "observation"))
         /\ Contract!Reach(q, PhaseName(9, "model_call_pending"))
  <2>1. MayFollow(8, "observation", "model_call_pending", None)
    BY DEF MayFollow, AllowedAfter, StepAt
  <2>2. \/ UNCHANGED ledger
        \/ /\ Contract!In(q, PhaseName(8, "observation"))
           /\ Contract!Reach(q, PhaseName(8 + 1, "model_call_pending"))
    BY <1>1, <2>1, EventOnMoves DEF Under
  <2> QED BY <2>2
<1>3. CASE UNCHANGED ledger
  BY <1>1, <1>3, QuietStep
<1>4. CASE Contract!In(q, "observed") /\ Contract!Reach(q, "following")
  BY <1>4 DEF Contract!AskAgain, ContractStep, Contract!ContractNext
<1> QED BY <1>2, <1>3, <1>4, PhaseNames

LEMMA FollowUpSends ==
    ASSUME Inv, Inv', DistinctStamps, NEW t \in Decides, Dispatch(t), UNCHANGED <<grants, reads>>,
           NEW q \in Runs, threads[t].input.run = q
    PROVE  ContractStep
<1> DEFINE new == [by |-> t, run |-> q]
<1>1. /\ t \in Threads /\ LedgerInv /\ UNCHANGED <<ledger, reads>> /\ calls' = calls \cup {new}
      /\ WroteLast(t, 9, "model_call_pending", Purpose(t, "followup-pending"))
      /\ \A c \in calls : c.by # t
  BY DeciderFacts DEF Dispatch, DeciderInv, OwnsTail, EffectsInPlace
<1>2. Contract!In(q, "following")
  <2>1. EndsAt(q, 9, "model_call_pending")
    BY <1>1 DEF WroteLast, EndsAt
  <2>2. Contract!In(q, PhaseName(9, "model_call_pending"))
    BY <1>1, <2>1, PhaseBefore
  <2> QED BY <2>2, PhaseNames
<1>3. CallsOf(q, Decides) = 0
  <2>1. CallsBy(q, Decides) = {}
    <3> SUFFICES ASSUME NEW c \in calls, c.run = q, c.by \in Decides PROVE FALSE
      BY DEF CallsBy
    <3>1. ledger[q][9].stamp = Stamp[c.by] /\ c.by \in Threads
      BY DEF Inv, DecideInv, FollowUpRecorded, Threads
    <3>2. ledger[q][9].stamp = Stamp[t]
      BY <1>1 DEF WroteLast
    <3> QED BY <1>1, <3>1, <3>2 DEF DistinctStamps
  <2> QED BY <2>1, Effects
<1>4. CallsOf(q, Decides)' = 1
  <2>1. CallsBy(q, Decides)' # {}
    <3>1. new \in calls' /\ new.run = q /\ new.by \in Decides
      BY <1>1
    <3> QED BY <3>1 DEF CallsBy
  <2> QED BY <2>1, EffectsNext DEF EffectsOnce
<1>5. RunsNow' = [RunsNow EXCEPT ![q].follow_ups = 1]
  BY <1>1, <1>4, SendAgainCounts
<1>6. Contract!SendAgain(q)
  BY <1>2, <1>3, <1>5, ContractView DEF Contract!SendAgain, RunsNow, ReadsOf
<1> QED BY <1>6 DEF ContractStep, Contract!ContractNext

LEMMA DecisionConcludes ==
    ASSUME Inv, Inv', DistinctStamps, NEW t \in Decides, FinishDecision(t),
           NEW q \in Runs, threads[t].input.run = q
    PROVE  ContractStep
<1>1. /\ t \in Threads /\ LedgerInv /\ LedgerInv' /\ EffectsInPlace(t)
      /\ threads[t].at = "finish" /\ UNCHANGED <<calls, reads>> /\ Extends(t)
      /\ WroteLast(t, 9, "model_call_pending", Purpose(t, "followup-pending"))
  BY DeciderFacts, FinishDecisionKeeps DEF Inv, ChatInv, DeciderInv, OwnsTail, FinishDecision
<1>2. Len(ledger[q]) = 9 /\ EndsAt(q, 9, "model_call_pending")
  BY <1>1 DEF WroteLast, EndsAt
<1>3. \A p \in Runs \ {q} : ledger'[p] = ledger[p]
  <2>1. UNCHANGED ledger \/ \E entries : ledger' = Extended(q, entries)
    BY DEF FinishDecision, AppendAndReply
  <2> QED BY <1>1, <2>1, OtherRunsStay
<1>4. CASE ledger'[q] = ledger[q]
  BY <1>1, <1>3, <1>4, QuietStep
<1>5. CASE ledger'[q] # ledger[q]
  <2>1. PICK m : m = Len(ledger'[q])
    OBVIOUS
  <2>2. PICK op : op = ledger'[q][m].op
    OBVIOUS
  <2>3. m \in Nat /\ m > 9
    <3>1. 9 < m
      BY <1>1, <1>2, <1>5, <2>1, ChangedHasGrown
    <3>2. m \in Nat
      BY <1>1, <2>1, PhaseNext DEF PhaseOnRecord
    <3> QED BY <3>1, <3>2
  <2>4. op \in {"final_response", "model_call_failed"}
    <3>1. m \in 1 .. m /\ ledger'[q] # <<>>
      BY <1>1, <2>1, <2>3, EmptySeq DEF LedgerInv, LedgerOfSequences
    <3>2. op \in StepAt(m) /\ op # "model_call_succeeded"
      BY <1>1, <2>1, <2>2, <3>1 DEF LedgerInv, Trajectories, EventAt, Final
    <3> QED BY <2>3, <3>2 DEF StepAt
  <2>5. Contract!In(q, "following") /\ Contract!Reach(q, PhaseName(m, op))
    <3>1. EndsAt(q, m, op)'
      BY <2>1, <2>2 DEF EndsAt
    <3>2. m \in Nat \ {0} /\ 9 \in Nat \ {0}
      BY <2>3
    <3>3. Contract!In(q, PhaseName(9, "model_call_pending"))
      BY <1>1, <1>2, <3>2, PhaseBefore
    <3>4. Contract!Reach(q, PhaseName(m, op))
      BY <1>1, <1>3, <3>1, <3>2, PhaseReached
    <3> QED BY <3>3, <3>4, PhaseNames
  <2>6. CallsOf(q, Decides) = 1
    <3>1. CallsBy(q, Decides) # {}
      BY <1>1 DEF EffectsInPlace, CallsBy
    <3> QED BY <3>1, Effects
  <2>7. Contract!Conclude(q)
    <3>1. PhaseName(m, op) \in {"completed", "failed"}
      BY <2>4, PhaseNames
    <3> QED BY <2>5, <2>6, <3>1, ContractView DEF Contract!Conclude, RunsNow, ReadsOf
  <2> QED BY <2>7 DEF ContractStep, Contract!ContractNext
<1> QED BY <1>4, <1>5

-----------------------------------------------------------------------------
(* Every step.                                                             *)

LEMMA ChatStepMoves ==
    ASSUME Inv, Inv', DistinctStamps, NEW t \in Chats, ChatStep(t),
           UNCHANGED <<grants, reads>>
    PROVE  ContractStep
<1>1. CASE CompileContext(t) \/ ProviderReturns(t)
  BY <1>1, QuietStep DEF CompileContext, ProviderReturns
<1>2. CASE Prepare(t) \/ Dispatch(t) \/ ChatFinish(t)
  <2>1. PICK q : threads[t].input.run = q
    OBVIOUS
  <2>2. q \in Runs
    BY <1>2, <2>1 DEF Inv, ChatInv, ThreadInv, ThreadType, Prepare, Dispatch, ChatFinish,
                      Threads
  <2> QED BY <1>2, <2>1, <2>2, PrepareAsks, DispatchSends, FinishRecordsOutcome
<1> QED BY <1>1, <1>2 DEF ChatStep

LEMMA DecideStepMoves ==
    ASSUME Inv, Inv', DistinctStamps, NEW t \in Decides, DecideStep(t)
    PROVE  ContractStep
<1>1. CASE Lookup(t) \/ ClaimGrant(t) \/ LoadRecords(t)
           \/ (ProviderReturns(t) /\ UNCHANGED <<grants, reads>>)
  BY <1>1, QuietStep DEF Lookup, ClaimGrant, LoadRecords, ProviderReturns
<1>2. CASE RecordDecision(t) \/ RegisterGrant(t) \/ RecordClaim(t) \/ ReadFile(t)
           \/ RecordRefusal(t) \/ RecordObservation(t) \/ RecordFollowUp(t)
           \/ FinishDecision(t) \/ (Dispatch(t) /\ UNCHANGED <<grants, reads>>)
  <2>1. PICK q : threads[t].input.run = q
    OBVIOUS
  <2>2. threads[t].at # "idle"
    BY <1>2 DEF RecordDecision, RegisterGrant, RecordClaim, ReadFile, RecordRefusal,
                RecordObservation, RecordFollowUp, FinishDecision, Dispatch
  <2>3. q \in Runs
    BY <2>1, <2>2, DeciderFacts
  <2> QED BY <1>2, <2>1, <2>3, DecisionDecides, RegisterGrantMoves, RecordClaimMoves,
             ReadFileMoves, RecordRefusalMoves, RecordObservationMoves, RecordFollowUpMoves,
             DecisionConcludes, FollowUpSends
<1> QED BY <1>1, <1>2 DEF DecideStep

LEMMA NextMoves ==
    ASSUME Inv, Inv', DistinctStamps, [Next]_vars
    PROVE  ContractStep
<1>1. ASSUME NEW t \in Chats, ChatLookup(t) \/ Crash(t), UNCHANGED <<grants, reads>>
      PROVE  ContractStep
  BY <1>1, QuietStep, ZenonT(30) DEF ChatLookup, Crash
<1>2. ASSUME NEW t \in Decides, Inspect(t) \/ (Crash(t) /\ UNCHANGED <<grants, reads>>)
      PROVE  ContractStep
  BY <1>2, QuietStep, ZenonT(30) DEF Inspect, Crash
<1>3. CASE (MemoryChanges /\ UNCHANGED <<grants, reads>>) \/ UNCHANGED vars
  BY <1>3, QuietStep DEF MemoryChanges, vars, chatVars
<1> QED BY <1>1, <1>2, <1>3, ChatStepMoves, DecideStepMoves DEF Next, ChatNext

LEMMA InitUnasked == Init => Contract!ContractInit
<1> SUFFICES ASSUME Init PROVE Contract!ContractInit
  OBVIOUS
<1>1. \A q \in Runs : Phase(q) = "unasked"
  BY DEF Init, ChatInit, Phase
<1>2. \A q \in Runs : /\ {c \in calls : c.run = q /\ c.by \in Chats} = {}
                      /\ {c \in calls : c.run = q /\ c.by \in Decides} = {}
                      /\ {r \in reads : r.run = q} = {}
  BY DEF Init, ChatInit
<1>3. Cardinality({}) = 0
  BY FS_EmptySet
<1>4. \A q \in Runs : /\ CallsOf(q, Chats) = 0 /\ CallsOf(q, Decides) = 0
                      /\ Cardinality({r \in reads : r.run = q}) = 0
  BY <1>2, <1>3 DEF CallsOf
<1> QED BY <1>1, <1>4 DEF Contract!ContractInit, Contract!Unasked

\* Chats, decisions, retries and crashes implement the contract of every run:
\* each effect on the outside happens once, in its phase, after its intent and
\* before its outcome are on record.
THEOREM RunsKeepTheirContract ==
    ASSUME DistinctStamps, ~Overlap PROVE Spec => ImplementsContract
<1>1. Inv /\ Inv' /\ [Next]_vars => Contract!ContractNext \/ UNCHANGED RunsNow
  BY NextMoves DEF ContractStep
<1>2. Inv /\ Inv' /\ [Next]_vars =>
         [Contract!ContractNext]_([q \in Runs |->
            [phase |-> Phase(q), calls |-> CallsOf(q, Chats),
             reads |-> Cardinality({r \in reads : r.run = q}),
             follow_ups |-> CallsOf(q, Decides)]])
  BY <1>1 DEF RunsNow, ReadsOf
<1>3. Spec => []Inv
  BY DecisionsInvariant
<1> QED BY <1>2, <1>3, InitUnasked, PTL DEF Spec, ImplementsContract, Contract!ContractSpec

=============================================================================
