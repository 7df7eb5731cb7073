------------------------------ MODULE RunContract ------------------------------
(***************************************************************************)
(* What the agent runtime promises about one run, whatever requests,       *)
(* retries and crashes it is made of: a message is sent once and only      *)
(* after the intent is on record; a tool request waits for one human       *)
(* verdict; an approval leads to one claim and at most one read, and what  *)
(* was read to one follow-up call; an outcome is recorded after its effect *)
(* and is the last thing that happens to the run.                          *)
(***************************************************************************)
EXTENDS Naturals

CONSTANT Runs

VARIABLE run    \* run -> its phase on record and the effects it has had

Unasked == [phase |-> "unasked", calls |-> 0, reads |-> 0, follow_ups |-> 0]

\* The run reaches a phase on record: one event or one transaction of them.
Reach(q, phase) == run' = [run EXCEPT ![q].phase = phase]

In(q, phase) == run[q].phase = phase

\* The message and the intent to send it are recorded.
Ask(q) == In(q, "unasked") /\ Reach(q, "calling")

Send(q) ==
    /\ In(q, "calling") /\ run[q].calls = 0
    /\ run' = [run EXCEPT ![q].calls = 1]

\* The model answered, failed, was interrupted or asked for a tool.
RecordOutcome(q) ==
    /\ In(q, "calling") /\ run[q].calls = 1
    /\ \E phase \in {"completed", "failed", "awaiting"} : Reach(q, phase)

Decide(q) ==
    /\ In(q, "awaiting")
    /\ \E phase \in {"granted", "failed"} : Reach(q, phase)

Claim(q) == In(q, "granted") /\ Reach(q, "claimed")

Read(q) ==
    /\ In(q, "claimed") /\ run[q].reads = 0
    /\ run' = [run EXCEPT ![q].reads = 1]

\* A tool fails instead of being used, never after it was.
FailTool(q) ==
    /\ In(q, "granted") \/ In(q, "claimed")
    /\ run[q].reads = 0
    /\ Reach(q, "failed")

Observe(q) == In(q, "claimed") /\ run[q].reads = 1 /\ Reach(q, "observed")

AskAgain(q) == In(q, "observed") /\ Reach(q, "following")

SendAgain(q) ==
    /\ In(q, "following") /\ run[q].follow_ups = 0
    /\ run' = [run EXCEPT ![q].follow_ups = 1]

Conclude(q) ==
    /\ In(q, "following") /\ run[q].follow_ups = 1
    /\ \E phase \in {"completed", "failed"} : Reach(q, phase)

ContractInit == run = [q \in Runs |-> Unasked]

ContractNext ==
    \E q \in Runs :
        \/ Ask(q) \/ Send(q) \/ RecordOutcome(q) \/ Decide(q) \/ Claim(q) \/ Read(q)
        \/ FailTool(q) \/ Observe(q) \/ AskAgain(q) \/ SendAgain(q) \/ Conclude(q)

ContractSpec == ContractInit /\ [][ContractNext]_run

=============================================================================
