------------------------------ MODULE MCAgentRun ------------------------------
(* Three chat requests that may share a run or a key; one key is spelled    *)
(* as the key the runtime derives from another, and one is very long.       *)
EXTENDS AgentRun, TLC

CONSTANTS c1, c2, c3, q1, q2, k, other, m1, m2, P

Spelled == <<k, "model_success">>

MCClientKeys == {k, other, Spelled}
\* "other" is so long that the runtime cannot derive its longest key from it.
MCKeyLength == [key \in MCClientKeys |->
    IF key = Spelled THEN 24 ELSE IF key = other THEN 112 ELSE 10]

MCChatInputs ==
    {[run |-> q1, key |-> k, message |-> m1, provider |-> P],
     [run |-> q1, key |-> k, message |-> m2, provider |-> P],
     [run |-> q1, key |-> other, message |-> m1, provider |-> P],
     [run |-> q2, key |-> k, message |-> m1, provider |-> P],
     [run |-> q2, key |-> Spelled, message |-> m1, provider |-> P]}

\* One message, sent twice.
OneInput == {[run |-> q1, key |-> k, message |-> m1, provider |-> P]}

MCStamp == [t \in Chats |-> t]

\* Both requests read the clock within one of its ticks.
OneTick == [t \in Chats |-> None]

Interchangeable == Permutations(Chats)
=============================================================================
