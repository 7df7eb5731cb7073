---------------------------- MODULE AgentRunProofs ----------------------------
(***************************************************************************)
(* Proofs about the event ledger and the chats of AgentRun, for any number *)
(* of threads, runs, keys and messages.                                    *)
(***************************************************************************)
EXTENDS AgentRun, TLAPS, FiniteSetTheorems, SequenceTheorems

-----------------------------------------------------------------------------
(* Transactions.                                                           *)

LedgerOfSequences ==
    /\ DOMAIN ledger = Runs
    /\ \A q \in Runs : ledger[q] \in Seq(Recorded)

LEMMA RecordedElements ==
    ASSUME LedgerOfSequences, NEW q \in Runs
    PROVE  /\ Len(ledger[q]) \in Nat
           /\ DOMAIN ledger[q] = 1 .. Len(ledger[q])
           /\ \A i \in 1 .. Len(ledger[q]) : ledger[q][i] \in Recorded
<1>1. ledger[q] \in Seq(Recorded)
  BY DEF LedgerOfSequences
<1> QED BY <1>1, LenProperties, ElementOfSeq

\* An event on record is at some place of the ledger of some run.
LEMMA RecordedSomewhere ==
    ASSUME LedgerOfSequences, NEW e \in Recorded
    PROVE  \E q \in Runs : \E i \in 1 .. Len(ledger[q]) : e = ledger[q][i]
<1>1. PICK q \in Runs : e \in {ledger[q][i] : i \in DOMAIN ledger[q]}
  BY DEF Recorded
<1> QED BY <1>1, RecordedElements

LEMMA CardinalityUpTo ==
    ASSUME NEW n \in Nat
    PROVE  Cardinality(1 .. n) = n
<1>1. Cardinality(1 .. n) = IF 1 > n THEN 0 ELSE n - 1 + 1
  BY FS_Interval
<1> QED BY <1>1

\* When no key of a transaction is on record, all its entries are inserted.
LEMMA InsertedWhenNew ==
    ASSUME NEW S, NEW entries \in Seq(S),
           \A i \in 1 .. Len(entries) : EventsWithKey(entries[i].key) = {}
    PROVE  Inserted(entries) = entries
<1> DEFINE new == {i \in DOMAIN entries : EventsWithKey(entries[i].key) = {}}
           nth(n) == CHOOSE i \in new : Cardinality({j \in new : j <= i}) = n
<1>1. /\ Len(entries) \in Nat
      /\ DOMAIN entries = 1 .. Len(entries)
      /\ entries \in [1 .. Len(entries) -> S]
  BY LenProperties
<1>2. new = 1 .. Len(entries)
  BY <1>1
<1> HIDE DEF new
<1>3. Cardinality(new) = Len(entries)
  BY <1>1, <1>2, CardinalityUpTo
<1>4. ASSUME NEW n \in 1 .. Len(entries)
      PROVE  nth(n) = n
  <2>1. ASSUME NEW i \in new
        PROVE  Cardinality({j \in new : j <= i}) = i
    <3>1. i \in Nat /\ i <= Len(entries)
      BY <1>1, <1>2
    <3>2. {j \in new : j <= i} = 1 .. i
      BY <1>1, <1>2, <3>1
    <3> QED BY <3>1, <3>2, CardinalityUpTo
  <2>2. n \in new
    BY <1>2
  <2> QED BY <2>1, <2>2
<1> HIDE DEF nth
<1>5. [n \in 1 .. Cardinality(new) |-> entries[nth(n)]] = entries
  BY <1>1, <1>3, <1>4
<1>6. Inserted(entries) = [n \in 1 .. Cardinality(new) |-> entries[nth(n)]]
  BY DEF Inserted, new, nth
<1> QED BY <1>5, <1>6

\* A transaction that brings nothing already on record is accepted only if all
\* its ids and keys are new, and then it extends the ledger of its run.
LEMMA AcceptedMeansNew ==
    ASSUME NEW S, NEW entries \in Seq(S), Accepted(entries), NEW q \in Runs,
           \A i \in 1 .. Len(entries) : entries[i] \notin Recorded
    PROVE  /\ Extended(q, entries) = [ledger EXCEPT ![q] = @ \o entries]
           /\ \A i \in 1 .. Len(entries) :
                 /\ entries[i].id \notin EventIds
                 /\ EventsWithKey(entries[i].key) = {}
                 /\ Characters(entries[i].key) <= MaxKeyLength
<1>1. DOMAIN entries = 1 .. Len(entries)
  BY LenProperties
<1>2. ASSUME NEW i \in 1 .. Len(entries)
      PROVE  /\ entries[i].id \notin EventIds
             /\ EventsWithKey(entries[i].key) = {}
             /\ Characters(entries[i].key) <= MaxKeyLength
  <2>1. EntryOutcome(entries, i) \in {"inserted", "replayed"}
    BY <1>1 DEF Accepted
  <2> QED BY <2>1 DEF EntryOutcome, KeyValid
<1>3. Inserted(entries) = entries
  BY <1>2, InsertedWhenNew
<1> QED BY <1>2, <1>3, SMTT(30) DEF Extended

\* A refusal has a name of its own.
LEMMA RefusalIsNoAnswer ==
    ASSUME NEW entries
    PROVE  Refusal(entries) # "answer"
BY DEF Refusal, EntryOutcome

-----------------------------------------------------------------------------
(* The inductive invariant.                                                *)

\* No two threads read the same time.
DistinctStamps == \A t, u \in Threads : Stamp[t] = Stamp[u] => t = u

Fields == {"at", "input", "manifest", "seen", "result", "data", "reply", "answer"}

\* The places of a thread that has not written to the ledger.
BeforeWriting == {"idle", "compile", "prepare", "look", "decide"}

\* A run is written in this order, the first five events by chats, the others
\* by decisions.
StepAt(i) ==
    CASE i = 1 -> {"request_recorded"}
      [] i = 2 -> {"context_compiled"}
      [] i \in {3, 9} -> {"model_call_pending"}
      [] i = 4 -> {"model_call_succeeded", "model_call_failed", "model_call_interrupted"}
      [] i = 5 -> {"tool_requested", "final_response"}
      [] i = 6 -> {"grant_approved", "grant_denied"}
      [] i = 7 -> {"tool_call_claimed", "tool_failed"}
      [] i = 8 -> {"observation", "tool_failed"}
      [] i = 10 -> {"model_call_succeeded", "model_call_failed"}
      [] i = 11 -> {"final_response"}
      [] OTHER -> {}

\* What the i-th event of run q is.
EventAt(q, i, e) ==
    /\ e.run = q
    /\ e.op \in StepAt(i)
    /\ e.manifest \subseteq Memories
    /\ i = 1 => e.id = Derived(q, "itself")
    /\ i = 3 => e.id = Derived(q, "chat-model-call-pending")
    /\ e.op = "tool_requested" => e.id = ToolEventId(q) /\ e.data \in Tools
    /\ e.op \in {"model_call_failed", "tool_failed"} => e.data # "answer"

\* Every run is a beginning of a trajectory and not in the middle of one of
\* its transactions.
Trajectories ==
    \A q \in Runs :
        /\ \A i \in 1 .. Len(ledger[q]) : EventAt(q, i, ledger[q][i])
        /\ ledger[q] # <<>> =>
              /\ WellFormed(ledger[q])
              /\ Len(ledger[q]) >= 3
              /\ Final(ledger[q]).op # "model_call_succeeded"

\* The event was written by a thread of its kind, and not before it wrote.
Authored ==
    \A q \in Runs : \A i \in 1 .. Len(ledger[q]) :
        \E t \in IF i <= 5 THEN Chats ELSE Decides :
            /\ ledger[q][i].stamp = Stamp[t]
            /\ threads[t].at \notin BeforeWriting

UniqueEvents ==
    \A q1, q2 \in Runs : \A i \in 1 .. Len(ledger[q1]), j \in 1 .. Len(ledger[q2]) :
        (\/ ledger[q1][i].id = ledger[q2][j].id
         \/ ledger[q1][i].key = ledger[q2][j].key) => q1 = q2 /\ i = j

\* The last event of the run of thread t is the n-th, and t wrote it.
WroteLast(t, n, op, id) ==
    LET run == ledger[threads[t].input.run]
    IN  /\ Len(run) = n
        /\ run[n].op = op /\ run[n].id = id /\ run[n].stamp = Stamp[t]

\* Every key was accepted.
KeysFit ==
    \A q \in Runs : \A i \in 1 .. Len(ledger[q]) :
        Characters(ledger[q][i].key) <= MaxKeyLength

LedgerInv == LedgerOfSequences /\ Trajectories /\ UniqueEvents /\ KeysFit

ChatPlaces ==
    {"idle", "compile", "prepare", "dispatch", "generating", "finish", "done", "crashed"}

DecidePlaces ==
    {"idle", "look", "decide", "register", "claim", "execute", "read", "fail", "observe",
     "load", "followup", "dispatch", "generating", "finish", "done", "crashed"}

\* The locals of a thread are well typed.
ThreadType(t) ==
    /\ DOMAIN threads[t] = Fields
    /\ threads[t].at \in IF t \in Chats THEN ChatPlaces ELSE DecidePlaces
    /\ threads[t].manifest \subseteq Memories
    /\ threads[t].seen \in Nat
    /\ threads[t].at # "idle" =>
          /\ threads[t].input # None
          /\ threads[t].input.run \in Runs /\ threads[t].input.key \in ClientKeys
    /\ threads[t].at = "finish" =>
          /\ threads[t].result \in {"answer", "tool", "other"} \cup FailureKinds
          /\ threads[t].result = "tool" => threads[t].data \in Tools

\* From its first transaction to its second the run belongs to the chat.
OwnsRun(t) ==
    t \in Chats /\ threads[t].at \in {"dispatch", "generating", "finish"} =>
        WroteLast(t, 3, "model_call_pending", Pending(t))

\* An answer is the final response of the run.
AnswerStands(t) ==
    threads[t].reply = "answer" =>
        LET run == ledger[threads[t].input.run]
        IN  /\ threads[t].at = "done"
            /\ run # <<>>
            /\ Final(run).op = "final_response"
            /\ Final(run).data = threads[t].answer

ThreadInv(t) == ThreadType(t) /\ OwnsRun(t) /\ AnswerStands(t)

\* A call was sent by the thread that recorded the intent to send it.
CallsRecorded ==
    /\ calls \subseteq [by : Threads, run : Runs]
    /\ \A c \in calls : c.by \in Chats =>
          Len(ledger[c.run]) >= 3 /\ ledger[c.run][3].stamp = Stamp[c.by]

ChatInv ==
    /\ LedgerInv /\ Authored
    /\ DOMAIN threads = Threads
    /\ \A t \in Threads : ThreadInv(t)
    /\ CallsRecorded
    /\ approved \subseteq Memories

-----------------------------------------------------------------------------
(* One transaction.                                                        *)

LEMMA SeqOfElements ==
    ASSUME NEW S, NEW s \in Seq(S), NEW T, \A i \in 1 .. Len(s) : s[i] \in T
    PROVE  s \in Seq(T)
<1>1. Len(s) \in Nat /\ s \in [1 .. Len(s) -> S]
  BY LenProperties
<1>2. s \in [1 .. Len(s) -> T]
  BY <1>1
<1> QED BY <1>1, <1>2, SeqDef

\* What the ledger is after entries were appended to run q.
LEMMA AppendedLedger ==
    ASSUME LedgerOfSequences, NEW q \in Runs, NEW S, NEW entries \in Seq(S),
           ledger' = [ledger EXCEPT ![q] = @ \o entries]
    PROVE  /\ LedgerOfSequences'
           /\ Len(ledger'[q]) = Len(ledger[q]) + Len(entries)
           /\ \A i \in 1 .. Len(ledger[q]) : ledger'[q][i] = ledger[q][i]
           /\ \A i \in 1 .. Len(entries) : ledger'[q][Len(ledger[q]) + i] = entries[i]
           /\ \A p \in Runs \ {q} : ledger'[p] = ledger[p]
<1> DEFINE All == Recorded \cup {entries[i] : i \in 1 .. Len(entries)}
           n == Len(ledger[q])
<1>1. ledger[q] \in Seq(Recorded) /\ DOMAIN ledger = Runs
  BY DEF LedgerOfSequences
<1>2. n \in Nat /\ Len(entries) \in Nat
  BY <1>1, LenProperties
<1>3. entries \in Seq(All) /\ ledger[q] \in Seq(All)
  BY <1>1, SeqOfElements, SeqMonotonic, SMTT(30)
<1>4. /\ ledger[q] \o entries \in Seq(All)
      /\ Len(ledger[q] \o entries) = n + Len(entries)
      /\ \A i \in 1 .. n + Len(entries) :
            (ledger[q] \o entries)[i] = IF i <= n THEN ledger[q][i] ELSE entries[i - n]
  BY <1>3, ConcatProperties
<1>5. ledger'[q] = ledger[q] \o entries /\ \A p \in Runs \ {q} : ledger'[p] = ledger[p]
  BY <1>1
<1>6. /\ \A i \in 1 .. n : ledger'[q][i] = ledger[q][i]
      /\ \A i \in 1 .. Len(entries) : ledger'[q][n + i] = entries[i]
  BY <1>2, <1>4, <1>5
<1>7. LedgerOfSequences'
  <2>1. DOMAIN ledger' = Runs
    BY <1>1
  <2>2. ASSUME NEW p \in Runs
        PROVE  ledger'[p] \in Seq(Recorded')
    <3>1. PICK T : ledger'[p] \in Seq(T)
      BY <1>4, <1>5 DEF LedgerOfSequences
    <3>2. DOMAIN ledger'[p] = 1 .. Len(ledger'[p])
      BY <3>1, LenProperties
    <3>3. ASSUME NEW i \in 1 .. Len(ledger'[p])
          PROVE  ledger'[p][i] \in Recorded'
      <4>1. ledger'[p][i] \in {ledger'[p][j] : j \in DOMAIN ledger'[p]}
        BY <3>2
      <4> QED BY <4>1, SMTT(30) DEF Recorded
    <3> QED BY <3>1, <3>3, SeqOfElements
  <2> QED BY <2>1, <2>2 DEF LedgerOfSequences
<1> QED BY <1>4, <1>5, <1>6, <1>7

\* Event e may come after event d.
Follows(d, e) == e.op \in AllowedAfter[d.op] /\ e.parent = d.id

\* The entries continue the trajectory of run q by a whole transaction.
Continues(q, entries) ==
    LET n == Len(ledger[q])
        k == Len(entries)
    IN  /\ k \in 1 .. 3
        /\ \A i \in 1 .. k : EventAt(q, n + i, entries[i])
        /\ \A i \in 1 .. k - 1 : Follows(entries[i], entries[i + 1])
        /\ n = 0 => k = 3 /\ entries[1].parent = None
        /\ n # 0 => Follows(ledger[q][n], entries[1])
        /\ entries[k].op # "model_call_succeeded"
        /\ \A i, j \in 1 .. k :
              entries[i].id = entries[j].id \/ entries[i].key = entries[j].key => i = j

LEMMA TrajectoryContinues ==
    ASSUME LedgerOfSequences, Trajectories, NEW q \in Runs, NEW S,
           NEW entries \in Seq(S), Continues(q, entries),
           ledger' = [ledger EXCEPT ![q] = @ \o entries]
    PROVE  Trajectories'
<1> DEFINE n == Len(ledger[q])
           k == Len(entries)
           run == ledger'[q]
<1>1. n \in Nat /\ k \in 1 .. 3
  BY RecordedElements DEF Continues
<1>2. /\ LedgerOfSequences'
      /\ Len(run) = n + k
      /\ \A i \in 1 .. n : run[i] = ledger[q][i]
      /\ \A i \in 1 .. k : run[n + i] = entries[i]
      /\ \A p \in Runs \ {q} : ledger'[p] = ledger[p]
  BY AppendedLedger
<1>3. \A i \in 1 .. n + k : EventAt(q, i, run[i])
  <2>1. ASSUME NEW i \in 1 .. n + k
        PROVE  EventAt(q, i, run[i])
    <3>1. CASE i <= n
      BY <1>1, <1>2, <3>1 DEF Trajectories
    <3>2. CASE i > n
      <4>1. i - n \in 1 .. k /\ i = n + (i - n)
        BY <1>1, <3>2
      <4>2. run[i] = entries[i - n]
        BY <1>2, <4>1
      <4>3. EventAt(q, n + (i - n), entries[i - n])
        BY <4>1 DEF Continues
      <4> QED BY <4>1, <4>2, <4>3
    <3> QED BY <1>1, <3>1, <3>2
  <2> QED BY <2>1
<1>4. run[1].op = "request_recorded" /\ run[1].parent = None
  <2>1. CASE n = 0
    <3>1. run[1] = entries[1] /\ entries[1].parent = None
      BY <1>1, <1>2, <2>1 DEF Continues
    <3> QED BY <1>1, <1>3, <3>1, SMTT(30) DEF EventAt, StepAt
  <2>2. CASE n # 0
    <3>1. ledger[q] # <<>>
      BY <2>2
    <3> QED BY <1>1, <1>2, <2>2, <3>1 DEF Trajectories, WellFormed
  <2> QED BY <2>1, <2>2
<1>5. ASSUME NEW i \in 2 .. n + k
      PROVE  Follows(run[i - 1], run[i])
  <2>1. CASE i <= n
    <3>1. ledger[q] # <<>>
      BY <1>1, <2>1
    <3>2. run[i - 1] = ledger[q][i - 1] /\ run[i] = ledger[q][i]
      BY <1>1, <1>2, <2>1
    <3> QED BY <1>1, <2>1, <3>1, <3>2 DEF Trajectories, WellFormed, Follows
  <2>2. CASE i = n + 1
    <3>1. run[i - 1] = ledger[q][n] /\ run[i] = entries[1] /\ n # 0
      BY <1>1, <1>2, <2>2
    <3> QED BY <3>1 DEF Continues
  <2>3. CASE i > n + 1
    <3>1. i - n - 1 \in 1 .. k - 1
      BY <1>1, <2>3
    <3>2. run[n + (i - n - 1)] = entries[i - n - 1] /\ run[n + (i - n)] = entries[i - n]
      BY <1>1, <1>2, <3>1
    <3>3. Follows(entries[i - n - 1], entries[(i - n - 1) + 1])
      BY <3>1 DEF Continues
    <3> QED BY <1>1, <3>2, <3>3
  <2> QED BY <1>1, <2>1, <2>2, <2>3
<1>6. WellFormed(run)
  BY <1>2, <1>4, <1>5 DEF WellFormed, Follows
<1>7. Len(run) >= 3
  <2>1. CASE n = 0
    <3>1. k = 3
      BY <2>1 DEF Continues
    <3> QED BY <1>2, <2>1, <3>1
  <2>2. CASE n # 0
    <3>1. n >= 3
      BY <2>2 DEF Trajectories
    <3> QED BY <1>1, <1>2, <3>1
  <2> QED BY <2>1, <2>2
<1>8. Final(run).op # "model_call_succeeded"
  <2>1. k \in 1 .. k
    BY <1>1, SMTT(30)
  <2>2. run[n + k] = entries[k]
    BY <1>2, <2>1
  <2> QED BY <1>2, <2>2 DEF Final, Continues
<1>9. ASSUME NEW p \in Runs \ {q}, ledger'[p] # <<>>
      PROVE  /\ WellFormed(ledger'[p])
             /\ Len(ledger'[p]) >= 3
             /\ Final(ledger'[p]).op # "model_call_succeeded"
  BY <1>2, <1>9 DEF Trajectories
<1>10. ASSUME NEW p \in Runs
       PROVE  \A i \in 1 .. Len(ledger'[p]) : EventAt(p, i, ledger'[p][i])
  BY <1>2, <1>3 DEF Trajectories
<1> QED BY <1>6, <1>7, <1>8, <1>9, <1>10 DEF Trajectories

\* No other event has an id or a key of a transaction that was accepted.
LEMMA UniqueContinues ==
    ASSUME LedgerOfSequences, UniqueEvents, NEW q \in Runs, NEW S,
           NEW entries \in Seq(S), Continues(q, entries),
           \A i \in 1 .. Len(entries) :
              entries[i].id \notin EventIds /\ EventsWithKey(entries[i].key) = {},
           ledger' = [ledger EXCEPT ![q] = @ \o entries]
    PROVE  UniqueEvents'
<1> DEFINE n == Len(ledger[q])
           k == Len(entries)
           Old(p, i) == i \in 1 .. Len(ledger[p]) /\ ledger'[p][i] = ledger[p][i]
           New(p, i) == p = q /\ i - n \in 1 .. k /\ ledger'[p][i] = entries[i - n]
<1>1. /\ LedgerOfSequences'
      /\ Len(ledger'[q]) = n + k
      /\ \A i \in 1 .. n : ledger'[q][i] = ledger[q][i]
      /\ \A i \in 1 .. k : ledger'[q][n + i] = entries[i]
      /\ \A p \in Runs \ {q} : ledger'[p] = ledger[p]
  BY AppendedLedger
<1>2. n \in Nat /\ k \in Nat
  BY RecordedElements, LenProperties
<1>3. ASSUME NEW p \in Runs, NEW i \in 1 .. Len(ledger'[p])
      PROVE  Old(p, i) \/ New(p, i)
  <2>1. CASE p = q /\ i > n
    <3>1. i - n \in 1 .. k /\ n + (i - n) = i
      BY <1>1, <1>2, <2>1
    <3> QED BY <1>1, <2>1, <3>1
  <2> QED BY <1>1, <1>2, <2>1
<1>4. ASSUME NEW p1 \in Runs, NEW i, Old(p1, i), NEW p2 \in Runs, NEW j, New(p2, j)
      PROVE  /\ ledger'[p1][i].id # ledger'[p2][j].id
             /\ ledger'[p1][i].key # ledger'[p2][j].key
  <2>1. ledger[p1][i] \in Recorded
    BY <1>4, RecordedElements
  <2>2. ledger[p1][i].id \in EventIds
    BY <2>1 DEF EventIds
  <2>3. ledger[p1][i].key # entries[j - n].key
    BY <1>4, <2>1 DEF EventsWithKey
  <2> QED BY <1>4, <2>2, <2>3
<1>5. ASSUME NEW p1 \in Runs, NEW p2 \in Runs,
             NEW i \in 1 .. Len(ledger'[p1]), NEW j \in 1 .. Len(ledger'[p2]),
             \/ ledger'[p1][i].id = ledger'[p2][j].id
             \/ ledger'[p1][i].key = ledger'[p2][j].key
      PROVE  p1 = p2 /\ i = j
  <2>1. CASE Old(p1, i) /\ Old(p2, j)
    BY <1>5, <2>1 DEF UniqueEvents
  <2>2. CASE New(p1, i) /\ New(p2, j)
    <3>1. i - n = j - n
      BY <1>5, <2>2 DEF Continues
    <3>2. i \in Int /\ j \in Int
      OBVIOUS
    <3> QED BY <1>2, <2>2, <3>1, <3>2
  <2>3. CASE Old(p1, i) /\ New(p2, j)
    <3>1. /\ ledger'[p1][i].id # ledger'[p2][j].id
          /\ ledger'[p1][i].key # ledger'[p2][j].key
      BY <1>4, <2>3, ZenonT(30)
    <3> QED BY <1>5, <3>1
  <2>4. CASE Old(p2, j) /\ New(p1, i)
    <3>1. /\ ledger'[p2][j].id # ledger'[p1][i].id
          /\ ledger'[p2][j].key # ledger'[p1][i].key
      BY <1>4, <2>4, ZenonT(30)
    <3> QED BY <1>5, <3>1
  <2> HIDE DEF Old, New
  <2> QED BY <1>3, <2>1, <2>2, <2>3, <2>4
<1> QED BY <1>5 DEF UniqueEvents

-----------------------------------------------------------------------------
(* A transaction of one thread, seen by the others.                        *)

\* An event on record lies in the run it names.
LEMMA RecordedInItsRun ==
    ASSUME LedgerInv, NEW e \in Recorded
    PROVE  \E i \in 1 .. Len(ledger[e.run]) : e.run \in Runs /\ e = ledger[e.run][i]
<1>1. PICK q \in Runs : \E i \in 1 .. Len(ledger[q]) : e = ledger[q][i]
  BY RecordedSomewhere DEF LedgerInv
<1>2. PICK i \in 1 .. Len(ledger[q]) : e = ledger[q][i]
  BY <1>1
<1>3. e.run = q
  BY <1>2 DEF LedgerInv, Trajectories, EventAt
<1> QED BY <1>2, <1>3

\* A thread that has not written to the ledger finds nothing of its own there.
LEMMA NothingWritten ==
    ASSUME LedgerInv, Authored, DistinctStamps, NEW t \in Threads,
           threads[t].at \in BeforeWriting, NEW e, e.stamp = Stamp[t]
    PROVE  e \notin Recorded
<1> SUFFICES ASSUME e \in Recorded PROVE FALSE
  OBVIOUS
<1>1. PICK q \in Runs : \E i \in 1 .. Len(ledger[q]) : e = ledger[q][i]
  BY RecordedSomewhere DEF LedgerInv
<1>2. PICK i \in 1 .. Len(ledger[q]) : e = ledger[q][i]
  BY <1>1
<1>3. PICK u \in Threads : e.stamp = Stamp[u] /\ threads[u].at \notin BeforeWriting
  BY <1>2 DEF Authored, Threads
<1> QED BY <1>3 DEF DistinctStamps

\* Thread t appends entries to run q, which is empty, its own, or left to
\* decisions.
Transaction(t, q, entries) ==
    LET n == Len(ledger[q])
        k == Len(entries)
    IN  /\ Accepted(entries)
        /\ ledger' = Extended(q, entries)
        /\ Continues(q, entries)
        /\ \A i \in 1 .. k : entries[i].stamp = Stamp[t] /\ entries[i] \notin Recorded
        /\ n = 0 \/ ledger[q][n].stamp = Stamp[t] \/ n = 5
        /\ t \in Chats => n + k <= 5
        /\ t \in Decides => n >= 5
        /\ threads'[t].at \notin BeforeWriting
        /\ \A u \in Threads \ {t} : threads'[u] = threads[u]

LEMMA TransactionLedger ==
    ASSUME LedgerInv, NEW t \in Threads, NEW q \in Runs, NEW S, NEW entries \in Seq(S),
           Transaction(t, q, entries)
    PROVE  /\ LedgerInv'
           /\ Len(ledger'[q]) = Len(ledger[q]) + Len(entries)
           /\ \A i \in 1 .. Len(ledger[q]) : ledger'[q][i] = ledger[q][i]
           /\ \A i \in 1 .. Len(entries) : ledger'[q][Len(ledger[q]) + i] = entries[i]
           /\ \A p \in Runs \ {q} : ledger'[p] = ledger[p]
<1>1. /\ ledger' = [ledger EXCEPT ![q] = @ \o entries]
      /\ \A i \in 1 .. Len(entries) :
            /\ entries[i].id \notin EventIds
            /\ EventsWithKey(entries[i].key) = {}
            /\ Characters(entries[i].key) <= MaxKeyLength
  BY AcceptedMeansNew DEF Transaction
<1>2. /\ LedgerOfSequences'
      /\ Len(ledger'[q]) = Len(ledger[q]) + Len(entries)
      /\ \A i \in 1 .. Len(ledger[q]) : ledger'[q][i] = ledger[q][i]
      /\ \A i \in 1 .. Len(entries) : ledger'[q][Len(ledger[q]) + i] = entries[i]
      /\ \A p \in Runs \ {q} : ledger'[p] = ledger[p]
  BY <1>1, AppendedLedger DEF LedgerInv
<1>3. Trajectories' /\ UniqueEvents'
  BY <1>1, TrajectoryContinues, UniqueContinues DEF LedgerInv, Transaction
<1>4. KeysFit'
  <2> DEFINE n == Len(ledger[q])
  <2>1. n \in Nat /\ Len(entries) \in Nat
    BY RecordedElements, LenProperties DEF LedgerInv
  <2>2. ASSUME NEW i \in 1 .. Len(ledger'[q])
        PROVE  Characters(ledger'[q][i].key) <= MaxKeyLength
    <3>1. CASE i <= n
      BY <1>2, <2>1, <3>1 DEF LedgerInv, KeysFit
    <3>2. CASE i > n
      <4>1. i - n \in 1 .. Len(entries) /\ n + (i - n) = i
        BY <1>2, <2>1, <3>2
      <4> QED BY <1>1, <1>2, <4>1
    <3> QED BY <2>1, <3>1, <3>2
  <2> QED BY <1>2, <2>2 DEF LedgerInv, KeysFit
<1> QED BY <1>2, <1>3, <1>4 DEF LedgerInv

LEMMA TransactionAuthored ==
    ASSUME LedgerInv, Authored, NEW t \in Threads, NEW q \in Runs, NEW S,
           NEW entries \in Seq(S), Transaction(t, q, entries)
    PROVE  Authored'
<1> DEFINE n == Len(ledger[q])
           k == Len(entries)
           Kind(i) == IF i <= 5 THEN Chats ELSE Decides
<1>1. /\ Len(ledger'[q]) = n + k
      /\ \A i \in 1 .. n : ledger'[q][i] = ledger[q][i]
      /\ \A i \in 1 .. k : ledger'[q][n + i] = entries[i]
      /\ \A p \in Runs \ {q} : ledger'[p] = ledger[p]
  BY TransactionLedger
<1>2. n \in Nat /\ k \in Nat
  BY RecordedElements, LenProperties DEF LedgerInv
<1>3. \A u \in Threads :
          threads[u].at \notin BeforeWriting => threads'[u].at \notin BeforeWriting
  BY DEF Transaction
<1>4. ASSUME NEW p \in Runs, NEW i \in 1 .. Len(ledger[p])
      PROVE  \E u \in Kind(i) :
                ledger[p][i].stamp = Stamp[u] /\ threads'[u].at \notin BeforeWriting
  BY <1>3 DEF Authored, Threads
<1>5. ASSUME NEW i \in 1 .. n + k, i > n
      PROVE  /\ t \in Kind(i)
             /\ ledger'[q][i].stamp = Stamp[t] /\ threads'[t].at \notin BeforeWriting
  <2>1. i - n \in 1 .. k /\ n + (i - n) = i
    BY <1>2, <1>5
  <2>2. ledger'[q][i] = entries[i - n]
    BY <1>1, <2>1
  <2>3. t \in Kind(i)
    BY <1>2, <1>5 DEF Transaction, Threads
  <2> QED BY <2>1, <2>2, <2>3 DEF Transaction
<1>6. ASSUME NEW p \in Runs, NEW i \in 1 .. Len(ledger'[p])
      PROVE  \E u \in Kind(i) :
                ledger'[p][i].stamp = Stamp[u] /\ threads'[u].at \notin BeforeWriting
  <2>1. CASE p = q /\ i > n
    BY <1>1, <1>5, <2>1
  <2>2. CASE ~(p = q /\ i > n)
    <3>1. i \in 1 .. Len(ledger[p]) /\ ledger'[p][i] = ledger[p][i]
      BY <1>1, <1>2, <2>2
    <3> QED BY <1>4, <3>1
  <2> QED BY <2>1, <2>2
<1> QED BY <1>6 DEF Authored

\* No transaction of thread t takes its run or its answer from another thread.
LEMMA TransactionOfAnother ==
    ASSUME ChatInv, DistinctStamps, NEW t \in Threads, NEW q \in Runs, NEW S,
           NEW entries \in Seq(S), Transaction(t, q, entries),
           NEW u \in Threads \ {t}
    PROVE  ThreadInv(u)'
<1> DEFINE run == ledger[threads[u].input.run]
<1>1. /\ ThreadInv(u) /\ LedgerInv
      /\ threads'[u] = threads[u]
  BY DEF ChatInv, Transaction
<1>2. \A p \in Runs \ {q} : ledger'[p] = ledger[p]
  BY <1>1, TransactionLedger
<1>3. ThreadType(u)'
  BY <1>1 DEF ThreadInv, ThreadType
<1>4. OwnsRun(u)'
  <2> SUFFICES ASSUME u \in Chats, threads[u].at \in {"dispatch", "generating", "finish"}
               PROVE  WroteLast(u, 3, "model_call_pending", Pending(u))'
    BY <1>1 DEF OwnsRun
  <2>1. WroteLast(u, 3, "model_call_pending", Pending(u)) /\ threads[u].input.run \in Runs
    BY <1>1 DEF ThreadInv, OwnsRun, ThreadType
  <2>2. threads[u].input.run # q
    <3> SUFFICES ASSUME threads[u].input.run = q PROVE FALSE
      OBVIOUS
    <3>1. Len(ledger[q]) = 3 /\ ledger[q][3].stamp = Stamp[u]
      BY <2>1 DEF WroteLast
    <3>2. ledger[q][3].stamp = Stamp[t]
      BY <3>1 DEF Transaction
    <3> QED BY <3>1, <3>2 DEF DistinctStamps
  <2> QED BY <1>1, <1>2, <2>1, <2>2 DEF WroteLast, Pending
<1>5. AnswerStands(u)'
  <2> SUFFICES ASSUME threads[u].reply = "answer"
               PROVE  AnswerStands(u)'
    BY <1>1 DEF AnswerStands
  <2>1. /\ threads[u].at = "done" /\ threads[u].input.run \in Runs
        /\ run # <<>> /\ Final(run).op = "final_response"
    BY <1>1 DEF ThreadInv, AnswerStands, ThreadType
  <2>2. threads[u].input.run # q
    <3> SUFFICES ASSUME threads[u].input.run = q PROVE FALSE
      OBVIOUS
    <3>1. Len(ledger[q]) # 0
      BY <1>1, <2>1, RecordedElements, EmptySeq DEF LedgerInv, Trajectories
    <3>2. entries[1].op \in AllowedAfter[ledger[q][Len(ledger[q])].op]
      BY <3>1 DEF Transaction, Continues, Follows
    <3> QED BY <2>1, <3>2 DEF Final, AllowedAfter
  <2> QED BY <1>1, <1>2, <2>1, <2>2 DEF ThreadInv, AnswerStands, Final
<1> QED BY <1>3, <1>4, <1>5 DEF ThreadInv

\* A step of thread t adds events at the end of runs.  It adds none to a
\* settled run, and the step of a chat none beyond the fifth.
Extends(t) ==
    \A q \in Runs :
        /\ Len(ledger[q]) <= Len(ledger'[q])
        /\ \A i \in 1 .. Len(ledger[q]) : ledger'[q][i] = ledger[q][i]
        /\ ledger'[q] # ledger[q] =>
              /\ ~Settled(q)
              /\ t \in Chats => Len(ledger[q]) < 5 /\ Len(ledger'[q]) <= 5

LEMMA TransactionExtends ==
    ASSUME LedgerInv, NEW t \in Threads, NEW q \in Runs, NEW S, NEW entries \in Seq(S),
           Transaction(t, q, entries)
    PROVE  Extends(t)
<1>1. /\ Len(ledger'[q]) = Len(ledger[q]) + Len(entries)
      /\ \A i \in 1 .. Len(ledger[q]) : ledger'[q][i] = ledger[q][i]
      /\ \A p \in Runs \ {q} : ledger'[p] = ledger[p]
  BY TransactionLedger
<1>2. ~Settled(q)
  <2> SUFFICES ASSUME Settled(q) PROVE FALSE
    OBVIOUS
  <2>1. Len(ledger[q]) # 0
    BY RecordedElements, EmptySeq DEF LedgerInv, Trajectories, Settled
  <2>2. entries[1].op \in AllowedAfter[Final(ledger[q]).op]
    BY <2>1 DEF Transaction, Continues, Follows, Final
  <2>3. AllowedAfter[Final(ledger[q]).op] = {}
    BY DEF Settled, RunState, AllowedAfter
  <2> QED BY <2>2, <2>3
<1>3. t \in Chats => Len(ledger[q]) < 5 /\ Len(ledger'[q]) <= 5
  <2>1. Len(ledger[q]) \in Nat /\ Len(entries) \in Nat \ {0}
    BY RecordedElements DEF LedgerInv, Transaction, Continues
  <2>2. t \in Chats => Len(ledger[q]) + Len(entries) <= 5
    BY DEF Transaction
  <2> QED BY <1>1, <2>1, <2>2
<1>4. \A p \in Runs : Len(ledger[p]) \in Nat
  BY RecordedElements DEF LedgerInv
<1>5. Len(ledger[q]) <= Len(ledger'[q])
  BY <1>1, <1>4, LenProperties
<1> QED BY <1>1, <1>2, <1>3, <1>4, <1>5 DEF Extends

LEMMA QuietExtends ==
    ASSUME LedgerInv, UNCHANGED ledger, NEW t
    PROVE  Extends(t)
<1>1. \A q \in Runs : Len(ledger[q]) \in Nat
  BY RecordedElements DEF LedgerInv
<1> QED BY <1>1 DEF Extends

\* A transaction keeps the invariant if its own thread does.
LEMMA TransactionKeeps ==
    ASSUME ChatInv, DistinctStamps, NEW t \in Threads, NEW q \in Runs, NEW S,
           NEW entries \in Seq(S), Transaction(t, q, entries),
           DOMAIN threads' = Threads, ThreadInv(t)', UNCHANGED <<approved, calls>>
    PROVE  ChatInv' /\ Extends(t)
<1>1. LedgerInv /\ Authored /\ CallsRecorded
  BY DEF ChatInv
<1>2. LedgerInv' /\ Authored'
  BY <1>1, TransactionLedger, TransactionAuthored
<1>3. \A u \in Threads : ThreadInv(u)'
  BY TransactionOfAnother
<1>4. CallsRecorded'
  <2>1. /\ Len(ledger'[q]) = Len(ledger[q]) + Len(entries)
        /\ \A i \in 1 .. Len(ledger[q]) : ledger'[q][i] = ledger[q][i]
        /\ \A p \in Runs \ {q} : ledger'[p] = ledger[p]
    BY <1>1, TransactionLedger
  <2>2. Len(ledger[q]) \in Nat /\ Len(entries) \in Nat
    BY <1>1, RecordedElements, LenProperties DEF LedgerInv
  <2>3. ASSUME NEW c \in calls, c.by \in Chats
        PROVE  Len(ledger'[c.run]) >= 3 /\ ledger'[c.run][3].stamp = Stamp[c.by]
    <3>1. /\ c.run \in Runs
          /\ Len(ledger[c.run]) >= 3 /\ ledger[c.run][3].stamp = Stamp[c.by]
      BY <1>1, <2>3 DEF CallsRecorded
    <3>2. CASE c.run = q
      <4>1. 3 \in 1 .. Len(ledger[q])
        BY <2>2, <3>1, <3>2
      <4> QED BY <2>1, <2>2, <3>1, <3>2, <4>1
    <3> QED BY <2>1, <3>1, <3>2
  <2> QED BY <1>1, <2>3 DEF CallsRecorded
<1> QED BY <1>1, <1>2, <1>3, <1>4, TransactionExtends DEF ChatInv

\* So does a step that leaves the ledger alone.
LEMMA QuietStepKeeps ==
    ASSUME ChatInv, NEW t \in Threads, UNCHANGED ledger,
           \A u \in Threads \ {t} : threads'[u] = threads[u],
           threads[t].at \notin BeforeWriting => threads'[t].at \notin BeforeWriting,
           DOMAIN threads' = Threads, ThreadInv(t)', CallsRecorded',
           approved' \subseteq Memories
    PROVE  ChatInv'
<1>1. LedgerInv'
  BY DEF ChatInv, LedgerInv, LedgerOfSequences, Trajectories, UniqueEvents, KeysFit,
         EventAt, Recorded
<1>2. Authored'
  BY DEF ChatInv, Authored, Threads
<1>3. ASSUME NEW u \in Threads \ {t}
      PROVE  ThreadInv(u)'
  BY <1>3 DEF ChatInv, ThreadInv, ThreadType, OwnsRun, AnswerStands, WroteLast, Pending
<1> QED BY <1>1, <1>2, <1>3 DEF ChatInv

-----------------------------------------------------------------------------
(* The steps of a chat.  Those of the provider and of crashes are shared by  *)
(* the decisions.                                                            *)

LEMMA ChatLookupKeeps ==
    ASSUME ChatInv, NEW t \in Chats, ChatLookup(t)
    PROVE  ChatInv'
<1>1. t \in Threads /\ ThreadInv(t) /\ LedgerInv
  BY DEF ChatInv, Threads
<1>2. PICK in \in ChatInputs :
         \/ threads' = [threads EXCEPT ![t].at = "compile", ![t].input = in]
         \/ \E e \in EventsWithKey(in.key) :
               threads' = [threads EXCEPT
                              ![t].at = "done", ![t].input = in,
                              ![t].reply = Replayed(in, e).reply,
                              ![t].answer = Replayed(in, e).answer]
  BY DEF ChatLookup
<1>3. in # None /\ in.run \in Runs /\ in.key \in ClientKeys
  BY ChatInputsAssumption
<1>4. DOMAIN threads' = Threads /\ \A u \in Threads \ {t} : threads'[u] = threads[u]
  BY <1>2 DEF ChatInv
<1>5. ThreadType(t)' /\ OwnsRun(t)'
  <2>1. ASSUME NEW e \in EventsWithKey(in.key),
               threads' = [threads EXCEPT
                              ![t].at = "done", ![t].input = in,
                              ![t].reply = Replayed(in, e).reply,
                              ![t].answer = Replayed(in, e).answer]
        PROVE  ThreadType(t)' /\ OwnsRun(t)'
    BY <1>1, <1>3, <2>1
       DEF ChatInv, ThreadInv, ThreadType, OwnsRun, Fields, ChatPlaces
  <2>2. CASE threads' = [threads EXCEPT ![t].at = "compile", ![t].input = in]
    BY <1>1, <1>3, <2>2
       DEF ChatInv, ThreadInv, ThreadType, OwnsRun, Fields, ChatPlaces
  <2> QED BY <1>2, <2>1, <2>2
<1>6. AnswerStands(t)'
  <2>1. CASE threads' = [threads EXCEPT ![t].at = "compile", ![t].input = in]
    BY <1>1, <2>1 DEF ChatInv, ChatLookup, ThreadInv, ThreadType, AnswerStands, Fields
  <2>2. ASSUME NEW e \in EventsWithKey(in.key),
               threads' = [threads EXCEPT
                              ![t].at = "done", ![t].input = in,
                              ![t].reply = Replayed(in, e).reply,
                              ![t].answer = Replayed(in, e).answer]
        PROVE  AnswerStands(t)'
    <3> DEFINE run == ledger[in.run]
    <3>1. /\ threads'[t].at = "done" /\ threads'[t].input = in
          /\ threads'[t].reply = Replayed(in, e).reply
          /\ threads'[t].answer = Replayed(in, e).answer
      BY <1>1, <2>2 DEF ChatInv, ThreadInv, ThreadType, Fields
    <3> SUFFICES ASSUME Replayed(in, e).reply = "answer" PROVE AnswerStands(t)'
      BY <3>1 DEF AnswerStands
    <3>2. /\ e.run = in.run
          /\ RunState(run) = "completed" /\ Replayed(in, e).answer = Final(run).data
      BY DEF Replayed
    <3>3. Final(run).op = "final_response"
      BY <3>2 DEF RunState
    <3>4. run # <<>>
      <4>1. e \in Recorded
        BY DEF EventsWithKey
      <4>2. PICK i \in 1 .. Len(run) : e = run[i]
        BY <1>1, <3>2, <4>1, RecordedInItsRun
      <4>3. Len(run) \in Nat
        BY <1>1, <1>3, RecordedElements DEF LedgerInv
      <4> QED BY <4>2, <4>3
    <3> QED BY <1>3, <3>1, <3>2, <3>3, <3>4 DEF AnswerStands, ChatLookup
  <2> QED BY <1>2, <2>1, <2>2
<1> QED BY <1>1, <1>4, <1>5, <1>6, QuietStepKeeps
        DEF ChatLookup, ChatInv, CallsRecorded, ThreadInv, BeforeWriting

LEMMA CompileContextKeeps ==
    ASSUME ChatInv, NEW t \in Chats, CompileContext(t)
    PROVE  ChatInv'
<1>1. t \in Threads /\ ThreadInv(t)
  BY DEF ChatInv, Threads
<1>2. PICK selected \in SUBSET approved :
         threads' = [threads EXCEPT ![t].at = "prepare", ![t].manifest = selected]
  BY DEF CompileContext
<1>3. ThreadInv(t)'
  BY <1>1, <1>2 DEF ChatInv, CompileContext, ThreadInv, ThreadType, OwnsRun, AnswerStands,
                    Fields, ChatPlaces
<1> QED BY <1>1, <1>2, <1>3, QuietStepKeeps
        DEF CompileContext, ChatInv, CallsRecorded, BeforeWriting

LEMMA DispatchKeeps ==
    ASSUME ChatInv, NEW t \in Threads, Dispatch(t)
    PROVE  ChatInv'
<1>1. ThreadInv(t) /\ threads[t].at = "dispatch"
  BY DEF ChatInv, Dispatch
<1>2. ThreadInv(t)'
  BY <1>1 DEF ChatInv, Dispatch, Goto, ThreadInv, ThreadType, OwnsRun, AnswerStands,
              WroteLast, Pending, Fields, ChatPlaces, DecidePlaces
<1>3. CallsRecorded'
  <2>1. ASSUME t \in Chats
        PROVE  /\ Len(ledger[threads[t].input.run]) = 3
               /\ ledger[threads[t].input.run][3].stamp = Stamp[t]
    BY <1>1, <2>1 DEF ThreadInv, OwnsRun, WroteLast
  <2>2. threads[t].input.run \in Runs
    BY <1>1 DEF ThreadInv, ThreadType
  <2> QED BY <2>1, <2>2 DEF Dispatch, ChatInv, CallsRecorded
<1> QED BY <1>1, <1>2, <1>3, QuietStepKeeps DEF Dispatch, Goto, ChatInv, BeforeWriting

LEMMA ProviderReturnsKeeps ==
    ASSUME ChatInv, NEW t \in Threads, ProviderReturns(t)
    PROVE  ChatInv'
<1>1. ThreadInv(t) /\ threads[t].at = "generating"
  BY DEF ChatInv, ProviderReturns
<1>2. PICK result \in {"answer", "tool", "other"} \cup FailureKinds :
      \E data \in IF result = "answer" THEN Answers
                  ELSE IF result = "tool" THEN Tools ELSE {None} :
         threads' = [threads EXCEPT ![t].at = "finish", ![t].result = result,
                                    ![t].data = data]
  BY DEF ProviderReturns
<1>3. ThreadInv(t)'
  BY <1>1, <1>2, SMTT(30)
     DEF ChatInv, ThreadInv, ThreadType, OwnsRun, AnswerStands, ProviderReturns,
              WroteLast, Pending, Fields, ChatPlaces, DecidePlaces
<1> QED BY <1>1, <1>2, <1>3, QuietStepKeeps
        DEF ProviderReturns, ChatInv, CallsRecorded, BeforeWriting

LEMMA CrashKeeps ==
    ASSUME ChatInv, NEW t \in Threads, Crash(t)
    PROVE  ChatInv'
<1>1. ThreadInv(t) /\ threads[t].at \notin {"idle", "done", "crashed"}
  BY DEF ChatInv, Crash
<1>2. ThreadInv(t)'
  BY <1>1 DEF ChatInv, Crash, Goto, ThreadInv, ThreadType, OwnsRun, AnswerStands,
              Fields, ChatPlaces, DecidePlaces
<1> QED BY <1>1, <1>2, QuietStepKeeps
        DEF Crash, Goto, ChatInv, CallsRecorded, BeforeWriting

LEMMA MemoryChangesKeeps ==
    ASSUME ChatInv, MemoryChanges
    PROVE  ChatInv'
BY SMTT(30) DEF MemoryChanges, ChatInv, LedgerInv, LedgerOfSequences, Trajectories, UniqueEvents,
       KeysFit, EventAt, Recorded, Authored, CallsRecorded, ThreadInv, ThreadType, OwnsRun,
       AnswerStands, WroteLast, Pending

-----------------------------------------------------------------------------
(* The steps that write.                                                     *)

\* The keys of one request differ: a key is shorter than those made from it.
LEMMA DerivedKeysDiffer ==
    ASSUME NEW k \in ClientKeys, NEW s \in Suffixes
    PROVE  k # <<k, s>>
<1>1. SuffixLength[s] \in Nat \ {0}
  BY DEF Suffixes, SuffixLength
<1>2. KeyLength[k] \in Nat
  BY KeyLengthAssumption DEF MaxKeyLength
<1> QED BY <1>1, <1>2, KeyLengthAssumption

\* A thread may always give up with a reply that is not an answer.
LEMMA ReplyKeeps ==
    ASSUME ChatInv, NEW t \in Threads, threads[t].at # "idle", NEW reply,
           reply # "answer", Reply(t, reply, None), UNCHANGED <<ledger, approved, calls>>
    PROVE  ChatInv' /\ Extends(t)
<1>1. ThreadInv(t)
  BY DEF ChatInv
<1>2. ThreadInv(t)'
  BY <1>1 DEF ChatInv, Reply, ThreadInv, ThreadType, OwnsRun, AnswerStands,
              Fields, ChatPlaces, DecidePlaces
<1> QED BY <1>1, <1>2, QuietStepKeeps
        DEF Reply, ChatInv, CallsRecorded, BeforeWriting, Extends

\* The last transaction of a thread: an answer is what it recorded last.
LEMMA CommitAndReplyKeeps ==
    ASSUME ChatInv, DistinctStamps, NEW t \in Threads, threads[t].at # "idle",
           NEW q \in Runs, threads[t].input.run = q,
           NEW S, NEW entries \in Seq(S), Transaction(t, q, entries),
           NEW reply, NEW answer, Reply(t, reply, answer), UNCHANGED <<approved, calls>>,
           reply = "answer" =>
              /\ entries[Len(entries)].op = "final_response"
              /\ entries[Len(entries)].data = answer
    PROVE  ChatInv' /\ Extends(t)
<1>1. ThreadInv(t) /\ LedgerInv
  BY DEF ChatInv
<1>2. ThreadType(t)' /\ OwnsRun(t)'
  BY <1>1 DEF ChatInv, Reply, ThreadInv, ThreadType, OwnsRun, Fields, ChatPlaces,
              DecidePlaces
<1>3. /\ threads'[t].input = threads[t].input /\ threads'[t].at = "done"
      /\ threads'[t].reply = reply /\ threads'[t].answer = answer
  BY <1>1 DEF ChatInv, Reply, ThreadInv, ThreadType, Fields
<1>4. /\ Len(ledger'[q]) = Len(ledger[q]) + Len(entries)
      /\ \A i \in 1 .. Len(entries) : ledger'[q][Len(ledger[q]) + i] = entries[i]
  BY <1>1, TransactionLedger
<1>5. Len(ledger[q]) \in Nat /\ Len(entries) \in 1 .. 3
  BY <1>1, RecordedElements DEF LedgerInv, Transaction, Continues
<1>6. Final(ledger'[q]) = entries[Len(entries)] /\ ledger'[q] # <<>>
  <2>1. Len(entries) \in 1 .. Len(entries)
    <3>1. ASSUME NEW k \in 1 .. 3
          PROVE  k \in 1 .. k
      OBVIOUS
    <3> QED BY <1>5, <3>1
  <2>2. ledger'[q][Len(ledger[q]) + Len(entries)] = entries[Len(entries)]
    BY <1>4, <2>1
  <2> QED BY <1>4, <1>5, <2>2 DEF Final
<1>7. AnswerStands(t)'
  BY <1>3, <1>6 DEF AnswerStands
<1>8. ThreadInv(t)' /\ DOMAIN threads' = Threads
  BY <1>2, <1>7 DEF ThreadInv, Reply, ChatInv
<1> QED BY <1>1, <1>8, TransactionKeeps

LEMMA PrepareKeeps ==
    ASSUME ChatInv, DistinctStamps, NEW t \in Chats, Prepare(t)
    PROVE  ChatInv' /\ Extends(t)
<1> DEFINE in == threads[t].input
           q == in.run
           entries == PrepareEntries(t)
           S == {entries[1], entries[2], entries[3]}
<1>1. /\ t \in Threads /\ ThreadInv(t) /\ LedgerInv /\ Authored
      /\ threads[t].at = "prepare" /\ q \in Runs /\ in.key \in ClientKeys
      /\ threads[t].manifest \subseteq Memories
  BY DEF ChatInv, Threads, ThreadInv, ThreadType, Prepare
<1>2. CASE Accepted(entries) /\ ledger' = Extended(q, entries) /\ Goto(t, "dispatch")
  <2>1. entries \in Seq(S) /\ Len(entries) = 3
    BY DEF PrepareEntries
  <2>2. /\ entries[1].id = Derived(q, "itself") /\ entries[1].key = in.key
        /\ entries[1].op = "request_recorded" /\ entries[1].parent = None
        /\ entries[2].id = Derived(q, "chat-context-compiled")
        /\ entries[2].key = <<in.key, "context">> /\ entries[2].op = "context_compiled"
        /\ entries[2].parent = entries[1].id
        /\ entries[3].id = Derived(q, "chat-model-call-pending")
        /\ entries[3].key = <<in.key, "model_pending">>
        /\ entries[3].op = "model_call_pending" /\ entries[3].parent = entries[2].id
    BY DEF PrepareEntries, Event
  <2>3. \A i \in 1 .. 3 : /\ entries[i].run = q /\ entries[i].stamp = Stamp[t]
                          /\ entries[i].manifest \subseteq Memories
    BY <1>1 DEF PrepareEntries, Event
  <2>4. \A i \in 1 .. 3 : entries[i] \notin Recorded
    BY <1>1, <2>3, NothingWritten DEF BeforeWriting
  <2> HIDE DEF entries
  <2>5. Len(ledger[q]) = 0
    <3> SUFFICES ASSUME Len(ledger[q]) # 0 PROVE FALSE
      OBVIOUS
    <3>1. 1 \in 1 .. Len(ledger[q])
      BY <1>1, RecordedElements DEF LedgerInv
    <3>2. ledger[q][1].id = entries[1].id /\ ledger[q][1] \in Recorded
      BY <1>1, <2>2, <3>1, RecordedElements DEF LedgerInv, Trajectories, EventAt
    <3>3. entries[1].id \in EventIds
      BY <3>2 DEF EventIds
    <3> QED BY <1>1, <1>2, <2>1, <2>4, <3>3, AcceptedMeansNew
  <2>6. in.key # <<in.key, "context">> /\ in.key # <<in.key, "model_pending">>
    BY <1>1, DerivedKeysDiffer DEF Suffixes, SuffixLength
  <2>7. Continues(q, entries)
    <3>1. \A i \in 1 .. 3 : EventAt(q, 0 + i, entries[i])
      BY <2>2, <2>3 DEF EventAt, StepAt
    <3>2. \A i \in 1 .. 2 : Follows(entries[i], entries[i + 1])
      BY <2>2 DEF Follows, AllowedAfter
    <3>3. \A i, j \in 1 .. 3 :
             entries[i].id = entries[j].id \/ entries[i].key = entries[j].key => i = j
      BY <2>2, <2>6 DEF Derived
    <3> QED BY <2>1, <2>2, <2>5, <3>1, <3>2, <3>3 DEF Continues
  <2>8. /\ threads'[t].at = "dispatch" /\ \A u \in Threads \ {t} : threads'[u] = threads[u]
        /\ DOMAIN threads' = Threads
    BY <1>1, <1>2 DEF Goto, ChatInv, ThreadInv, ThreadType, Fields
  <2>9. Transaction(t, q, entries)
    BY <1>1, <1>2, <2>1, <2>3, <2>4, <2>5, <2>7, <2>8, ThreadsAssumption
       DEF Transaction, BeforeWriting
  <2>10. ThreadInv(t)'
    <3>1. ThreadType(t)' /\ AnswerStands(t)' /\ threads'[t].input = in
      BY <1>1, <1>2 DEF Goto, ChatInv, ThreadInv, ThreadType, AnswerStands, Fields, ChatPlaces
    <3>2. ledger'[q][0 + 3] = entries[3] /\ Len(ledger'[q]) = 0 + 3
      BY <1>1, <2>1, <2>5, <2>9, TransactionLedger
    <3>3. OwnsRun(t)'
      BY <2>2, <2>3, <3>1, <3>2 DEF OwnsRun, WroteLast, Pending
    <3> QED BY <3>1, <3>3 DEF ThreadInv
  <2> QED BY <1>1, <2>1, <2>8, <2>9, <2>10, TransactionKeeps DEF Prepare
<1>3. CASE UNCHANGED ledger /\ Reply(t, Refusal(entries), None)
  BY <1>1, <1>3, RefusalIsNoAnswer, ReplyKeeps DEF Prepare
<1> QED BY <1>2, <1>3 DEF Prepare, AppendThen

\* The outcome of its call is the chat's second transaction.
LEMMA OutcomeIsTransaction ==
    ASSUME ChatInv, NEW t \in Chats, threads[t].at = "finish",
           NEW q \in Runs, threads[t].input.run = q,
           NEW S, NEW entries \in Seq(S), Accepted(entries), ledger' = Extended(q, entries),
           NEW reply, NEW answer, Reply(t, reply, answer),
           Len(entries) \in 1 .. 2,
           \A i \in 1 .. Len(entries) :
              EventAt(q, 3 + i, entries[i]) /\ entries[i].stamp = Stamp[t],
           entries[1].parent = Pending(t),
           Len(entries) = 2 => /\ Follows(entries[1], entries[2])
                               /\ entries[1].id # entries[2].id
                               /\ entries[1].key # entries[2].key,
           entries[Len(entries)].op # "model_call_succeeded"
    PROVE  Transaction(t, q, entries)
<1>1. /\ t \in Threads /\ ThreadInv(t) /\ LedgerInv /\ DOMAIN threads = Threads
      /\ WroteLast(t, 3, "model_call_pending", Pending(t))
  BY DEF ChatInv, Threads, ThreadInv, OwnsRun
<1>2. /\ Len(ledger[q]) = 3 /\ ledger[q][3].op = "model_call_pending"
      /\ ledger[q][3].id = Pending(t) /\ ledger[q][3].stamp = Stamp[t]
  BY <1>1 DEF WroteLast
<1>3. Len(entries) = 1 \/ Len(entries) = 2
  OBVIOUS
<1>4. \A i \in 1 .. Len(entries) : entries[i] \notin Recorded
  <2> SUFFICES ASSUME NEW i \in 1 .. Len(entries), entries[i] \in Recorded PROVE FALSE
    OBVIOUS
  <2>1. entries[i].run = q /\ entries[i].op \in StepAt(3 + i)
    BY DEF EventAt
  <2>2. PICK j \in 1 .. 3 : entries[i] = ledger[q][j]
    BY <1>1, <1>2, <2>1, RecordedInItsRun
  <2>3. entries[i].op \in StepAt(j)
    BY <1>1, <1>2, <2>2 DEF LedgerInv, Trajectories, EventAt
  <2> QED BY <1>3, <2>1, <2>2, <2>3, SMTT(30) DEF StepAt
<1>5. Continues(q, entries)
  <2>1. Follows(ledger[q][3], entries[1])
    BY <1>2, <1>3 DEF Follows, EventAt, StepAt, AllowedAfter
  <2>2. \A i \in 1 .. Len(entries) - 1 : Follows(entries[i], entries[i + 1])
    BY <1>3
  <2>3. \A i, j \in 1 .. Len(entries) :
           entries[i].id = entries[j].id \/ entries[i].key = entries[j].key => i = j
    <3>1. CASE Len(entries) = 1
      BY <3>1
    <3>2. CASE Len(entries) = 2
      <4>1. entries[1].id # entries[2].id /\ entries[1].key # entries[2].key
        BY <3>2
      <4> QED BY <3>2, <4>1
    <3> QED BY <1>3, <3>1, <3>2
  <2> QED BY <1>2, <1>3, <2>1, <2>2, <2>3 DEF Continues
<1>6. threads'[t].at = "done" /\ \A u \in Threads \ {t} : threads'[u] = threads[u]
  BY <1>1 DEF Reply, ThreadInv, ThreadType, Fields
<1> QED BY <1>1, <1>2, <1>3, <1>4, <1>5, <1>6, ThreadsAssumption
        DEF Transaction, BeforeWriting

LEMMA ChatFinishKeeps ==
    ASSUME ChatInv, DistinctStamps, NEW t \in Chats, ChatFinish(t)
    PROVE  ChatInv' /\ Extends(t)
<1> DEFINE in == threads[t].input
           q == in.run
<1>1. /\ t \in Threads /\ ThreadInv(t) /\ threads[t].at = "finish"
      /\ q \in Runs /\ in.key \in ClientKeys
      /\ threads[t].manifest \subseteq Memories
      /\ threads[t].result = "tool" => threads[t].data \in Tools
  BY DEF ChatInv, Threads, ThreadInv, ThreadType, ChatFinish
<1>2. UNCHANGED <<approved, calls>>
  BY DEF ChatFinish
<1>3. ASSUME NEW entries, NEW reply, NEW answer,
             AppendAndReply(t, entries, reply, answer),
             ~Accepted(entries)
      PROVE  ChatInv' /\ Extends(t)
  BY <1>1, <1>2, <1>3, RefusalIsNoAnswer, ReplyKeeps DEF AppendAndReply
<1>4. ASSUME NEW purpose \in {"chat-response", "chat-tool-request"},
             NEW suffix \in {"response", "tool_request"},
             NEW op \in {"final_response", "tool_requested"}, NEW reply, NEW answer,
             op = "tool_requested" =>
                purpose = "chat-tool-request" /\ threads[t].result = "tool",
             reply = "answer" => op = "final_response" /\ answer = threads[t].data,
             AppendAndReply(t, ModelSucceeded(t, purpose, suffix, op), reply, answer)
      PROVE  ChatInv' /\ Extends(t)
  <2> DEFINE entries == ModelSucceeded(t, purpose, suffix, op)
  <2>1. CASE Accepted(entries) /\ ledger' = Extended(q, entries) /\ Reply(t, reply, answer)
    <3>1. entries \in Seq({entries[1], entries[2]}) /\ Len(entries) = 2
      BY DEF ModelSucceeded
    <3>2. /\ entries[1].id = Derived(q, "chat-model-call-succeeded")
          /\ entries[1].key = <<in.key, "model_success">>
          /\ entries[1].op = "model_call_succeeded" /\ entries[1].parent = Pending(t)
          /\ entries[2].id = Derived(q, purpose)
          /\ entries[2].key = <<in.key, suffix>> /\ entries[2].op = op
          /\ entries[2].parent = entries[1].id /\ entries[2].data = threads[t].data
      BY <1>4 DEF ModelSucceeded, Event
    <3>3. /\ entries[1].run = q /\ entries[1].stamp = Stamp[t]
          /\ entries[1].manifest \subseteq Memories
          /\ entries[2].run = q /\ entries[2].stamp = Stamp[t]
          /\ entries[2].manifest \subseteq Memories
      BY <1>1 DEF ModelSucceeded, Event
    <3> HIDE DEF entries
    <3>4. \A i \in 1 .. 2 : EventAt(q, 3 + i, entries[i])
      BY <1>1, <1>4, <3>2, <3>3 DEF EventAt, StepAt, ToolEventId
    <3>5. /\ Follows(entries[1], entries[2])
          /\ entries[1].id # entries[2].id /\ entries[1].key # entries[2].key
      BY <1>4, <3>2 DEF Follows, AllowedAfter, Derived
    <3>6. entries[Len(entries)].op # "model_call_succeeded"
      BY <3>1, <3>2
    <3>7. Transaction(t, q, entries)
      BY <1>1, <2>1, <3>1, <3>2, <3>3, <3>4, <3>5, <3>6, OutcomeIsTransaction
    <3> QED BY <1>1, <1>2, <1>4, <2>1, <3>1, <3>2, <3>7, CommitAndReplyKeeps
  <2> QED BY <1>3, <1>4, <2>1 DEF AppendAndReply
<1>5. ASSUME NEW purpose, NEW suffix \in {"model_failed", "model_interrupted"},
             NEW op \in {"model_call_failed", "model_call_interrupted"},
             NEW data, data # "answer", NEW reply \in {"failed", "error"},
             AppendAndReply(t, <<Event(t, purpose, suffix, op, Pending(t), data)>>,
                            reply, None)
      PROVE  ChatInv' /\ Extends(t)
  <2> DEFINE entries == <<Event(t, purpose, suffix, op, Pending(t), data)>>
  <2>1. CASE Accepted(entries) /\ ledger' = Extended(q, entries) /\ Reply(t, reply, None)
    <3>1. entries \in Seq({entries[1]}) /\ Len(entries) = 1
      OBVIOUS
    <3>2. /\ entries[1].op = op /\ entries[1].parent = Pending(t)
          /\ entries[1].data = data /\ entries[1].run = q /\ entries[1].stamp = Stamp[t]
          /\ entries[1].manifest \subseteq Memories
      BY <1>1 DEF Event
    <3> HIDE DEF entries
    <3>3. EventAt(q, 3 + 1, entries[1])
      BY <1>5, <3>2 DEF EventAt, StepAt
    <3>4. Transaction(t, q, entries)
      BY <1>1, <1>5, <2>1, <3>1, <3>2, <3>3, OutcomeIsTransaction
    <3> QED BY <1>1, <1>2, <1>5, <2>1, <3>1, <3>4, CommitAndReplyKeeps
  <2> QED BY <1>3, <1>5, <2>1 DEF AppendAndReply
<1>6. CASE AppendAndReply(t, ModelSucceeded(t, "chat-response", "response",
                                            "final_response"), "answer", threads[t].data)
  BY <1>4, <1>6
<1>7. CASE /\ threads[t].result = "tool"
           /\ AppendAndReply(t, ModelSucceeded(t, "chat-tool-request", "tool_request",
                                               "tool_requested"), "pending_tool", None)
  BY <1>4, <1>7
<1>8. CASE /\ threads[t].result \in FailureKinds
           /\ AppendAndReply(t, <<Event(t, "chat-model-call-failed", "model_failed",
                 "model_call_failed", Pending(t), threads[t].result)>>, "failed", None)
  BY <1>5, <1>8, FailureKindsAssumption
<1>9. CASE AppendAndReply(t, <<Event(t, "chat-model-call-interrupted", "model_interrupted",
                 "model_call_interrupted", Pending(t), None)>>, "error", None)
  BY <1>5, <1>9, NoneAssumption
<1> QED BY <1>6, <1>7, <1>8, <1>9 DEF ChatFinish, TerminalModelEvent

-----------------------------------------------------------------------------
(* The theorems.                                                             *)

LEMMA ChatInitInv == ChatInit => ChatInv
<1> SUFFICES ASSUME ChatInit PROVE ChatInv
  OBVIOUS
<1>1. \A q \in Runs : ledger[q] = <<>>
  BY DEF ChatInit
<1>2. LedgerInv /\ Authored
  BY <1>1 DEF ChatInit, LedgerInv, LedgerOfSequences, Trajectories, UniqueEvents, KeysFit,
              Authored
<1>3. ASSUME NEW t \in Threads
      PROVE  ThreadInv(t)
  BY NoneAssumption DEF ChatInit, Idle, ThreadInv, ThreadType, OwnsRun, AnswerStands, Fields, ChatPlaces,
         DecidePlaces
<1> QED BY <1>2, <1>3 DEF ChatInit, ChatInv, CallsRecorded

LEMMA ChatNextInv ==
    ASSUME DistinctStamps, ChatInv, [ChatNext]_chatVars
    PROVE  ChatInv'
<1>1. CASE ChatNext
  <2>1. ASSUME NEW t \in Chats, ChatLookup(t) \/ ChatStep(t) \/ Crash(t)
        PROVE  ChatInv'
    <3>1. t \in Threads
      BY DEF Threads
    <3> QED BY <2>1, <3>1, ChatLookupKeeps, CompileContextKeeps, PrepareKeeps,
               DispatchKeeps, ProviderReturnsKeeps, ChatFinishKeeps, CrashKeeps
            DEF ChatStep
  <2> QED BY <1>1, <2>1, MemoryChangesKeeps DEF ChatNext
<1>2. CASE UNCHANGED chatVars
  BY <1>2 DEF chatVars, ChatInv, LedgerInv, LedgerOfSequences, Trajectories, UniqueEvents,
              KeysFit, EventAt, Recorded, Authored, CallsRecorded, ThreadInv, ThreadType,
              OwnsRun, AnswerStands, WroteLast, Pending
<1> QED BY <1>1, <1>2

\* The inductive invariant of the chats.
THEOREM ChatInvariant == ASSUME DistinctStamps PROVE ChatSpec => []ChatInv
<1>1. ChatInv /\ [ChatNext]_chatVars => ChatInv'
  BY ChatNextInv
<1> QED BY <1>1, ChatInitInv, PTL DEF ChatSpec

LEMMA ChatInvTypes == ChatInv => ChatTypeOK
<1> SUFFICES ASSUME ChatInv PROVE ChatTypeOK
  OBVIOUS
<1>1. ASSUME NEW q \in Runs, NEW i \in DOMAIN ledger[q]
      PROVE  /\ ledger[q][i].run = q
             /\ ledger[q][i].op \in Operations
             /\ Characters(ledger[q][i].key) <= MaxKeyLength
  <2>1. i \in 1 .. Len(ledger[q])
    BY RecordedElements DEF ChatInv, LedgerInv
  <2>2. EventAt(q, i, ledger[q][i])
    BY <2>1 DEF ChatInv, LedgerInv, Trajectories
  <2>3. ledger[q][i].op \in Operations
    BY <2>2 DEF EventAt, StepAt, Operations, AllowedAfter
  <2> QED BY <2>1, <2>2, <2>3 DEF ChatInv, LedgerInv, KeysFit, EventAt
<1>2. ASSUME NEW t \in Threads
      PROVE  /\ [at |-> threads[t].at, manifest |-> threads[t].manifest,
                 seen |-> threads[t].seen] \in Locals
             /\ threads[t].at \notin {"idle", "done", "crashed"} => threads[t].input # None
  <2>1. ThreadType(t)
    BY DEF ChatInv, ThreadInv
  <2>2. ChatPlaces \cup DecidePlaces \subseteq
           {"idle", "compile", "prepare", "dispatch", "generating", "finish", "done",
            "crashed", "look", "decide", "register", "claim", "execute", "read",
            "observe", "load", "followup", "fail"}
    BY DEF ChatPlaces, DecidePlaces
  <2> QED BY <2>1, <2>2 DEF ThreadType, Locals
<1> QED BY <1>1, <1>2 DEF ChatInv, CallsRecorded, ChatTypeOK

LEMMA ChatInvIntegrity == ChatInv => LedgerIntegrity
<1> SUFFICES ASSUME ChatInv PROVE LedgerIntegrity
  OBVIOUS
<1>1. \A q \in Runs : DOMAIN ledger[q] = 1 .. Len(ledger[q]) /\ Len(ledger[q]) \in Nat
  BY RecordedElements DEF ChatInv, LedgerInv
<1>2. ASSUME NEW q \in Runs, NEW i \in 1 .. Len(ledger[q]), ledger[q][i].parent # None
      PROVE  \E j \in 1 .. i - 1 : ledger[q][j].id = ledger[q][i].parent
  <2>1. ledger[q] # <<>>
    BY <1>1, <1>2
  <2>2. WellFormed(ledger[q])
    BY <2>1 DEF ChatInv, LedgerInv, Trajectories
  <2>3. i # 1
    BY <1>2, <2>2 DEF WellFormed
  <2>4. i \in 2 .. Len(ledger[q]) /\ i - 1 \in 1 .. i - 1
    BY <1>1, <2>3
  <2> QED BY <2>2, <2>4 DEF WellFormed
<1> QED BY <1>1, <1>2, SMTT(30) DEF LedgerIntegrity, ChatInv, LedgerInv, UniqueEvents

LEMMA ChatInvReconstructs == ChatInv => RunsReconstruct
BY DEF ChatInv, LedgerInv, Trajectories, RunsReconstruct

LEMMA ChatInvDispatch == ASSUME DistinctStamps, ChatInv PROVE DispatchedOnce
<1> SUFFICES ASSUME NEW c \in calls, c.by \in Chats
             PROVE  /\ \A d \in calls : d.by \in Chats /\ d.run = c.run => d = c
                    /\ \E i \in DOMAIN ledger[c.run] :
                          /\ ledger[c.run][i].op = "model_call_pending"
                          /\ ledger[c.run][i].stamp = Stamp[c.by]
  BY DEF DispatchedOnce
<1>1. ASSUME NEW d \in calls, d.by \in Chats
      PROVE  /\ d \in [by : Threads, run : Runs]
             /\ Len(ledger[d.run]) >= 3 /\ ledger[d.run][3].stamp = Stamp[d.by]
  BY <1>1 DEF ChatInv, CallsRecorded
<1>2. ASSUME NEW d \in calls, d.by \in Chats, d.run = c.run
      PROVE  d = c
  <2>1. d.by = c.by
    BY <1>1, <1>2 DEF DistinctStamps
  <2> QED BY <1>1, <1>2, <2>1
<1>3. 3 \in 1 .. Len(ledger[c.run]) /\ DOMAIN ledger[c.run] = 1 .. Len(ledger[c.run])
  BY <1>1, RecordedElements DEF ChatInv, LedgerInv
<1>4. ledger[c.run][3].op = "model_call_pending"
  BY <1>1, <1>3 DEF ChatInv, LedgerInv, Trajectories, EventAt, StepAt
<1> QED BY <1>1, <1>2, <1>3, <1>4

LEMMA ChatInvAnswers == ChatInv => AnswersAreDurable
BY DEF ChatInv, ThreadInv, AnswerStands, AnswersAreDurable

\* The ledger and the threads of chats are always well typed.
THEOREM ChatTypesAlwaysOK == ASSUME DistinctStamps PROVE ChatSpec => []ChatTypeOK
BY ChatInvariant, ChatInvTypes, PTL

\* However chats share runs and keys, an event id and an idempotency key name
\* one event, and every event is caused by an earlier one of its run.
THEOREM LedgerStaysIntact == ASSUME DistinctStamps PROVE ChatSpec => []LedgerIntegrity
BY ChatInvariant, ChatInvIntegrity, PTL

\* Whatever chats commit and wherever they die, every run reads back as a
\* trajectory.
THEOREM RunsAlwaysReconstruct == ASSUME DistinctStamps PROVE ChatSpec => []RunsReconstruct
BY ChatInvariant, ChatInvReconstructs, PTL

\* A message leaves for the provider once per run, after its intent is durable.
THEOREM AtMostOneDispatch == ASSUME DistinctStamps PROVE ChatSpec => []DispatchedOnce
<1>1. ChatInv => DispatchedOnce
  BY ChatInvDispatch
<1> QED BY <1>1, ChatInvariant, PTL

\* What a client was told is the final response of the run, and stays so.
THEOREM AnswersStayDurable == ASSUME DistinctStamps PROVE ChatSpec => []AnswersAreDurable
BY ChatInvariant, ChatInvAnswers, PTL

LEMMA ChatNextExtends ==
    ASSUME DistinctStamps, ChatInv, [ChatNext]_chatVars
    PROVE  \A q \in Runs : ledger'[q] # ledger[q] => ~Settled(q) /\ Len(ledger[q]) < 5
<1>1. CASE ChatNext
  <2>1. ASSUME NEW t \in Chats, ChatLookup(t) \/ ChatStep(t) \/ Crash(t)
        PROVE  UNCHANGED ledger \/ Extends(t)
    <3>1. CASE Prepare(t) \/ ChatFinish(t)
      BY <3>1, PrepareKeeps, ChatFinishKeeps
    <3>2. CASE ~(Prepare(t) \/ ChatFinish(t))
      BY <2>1, <3>2 DEF ChatStep, ChatLookup, CompileContext, Dispatch, ProviderReturns, Crash
    <3> QED BY <3>1, <3>2
  <2> QED BY <1>1, <2>1 DEF ChatNext, MemoryChanges, Extends
<1>2. CASE UNCHANGED chatVars
  BY <1>2 DEF chatVars
<1> QED BY <1>1, <1>2

\* No chat adds an event to a run that completed, failed or was interrupted.
THEOREM SettledRunsAlwaysStay == ASSUME DistinctStamps PROVE ChatSpec => SettledRunsStay
<1>1. ChatInv /\ [ChatNext]_chatVars =>
         [\A q \in Runs : Settled(q) => ledger'[q] = ledger[q]]_ledger
  BY ChatNextExtends
<1> QED BY <1>1, ChatInvariant, PTL DEF ChatSpec, SettledRunsStay

=============================================================================
