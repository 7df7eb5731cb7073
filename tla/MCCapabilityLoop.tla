--------------------------- MODULE MCCapabilityLoop ---------------------------
(* One run that may ask for a tool, and the decisions on it: the same one      *)
(* repeated, a reversed one under the same key, another one under another key. *)
EXTENDS CapabilityLoop, TLC

CONSTANTS c1, d1, d2, d3, q1, i1, i2, k, kd, long, m1, P, P2, f, n, u

MCClientKeys == {k, kd, long}
\* The keys of the last two events cannot be derived from "long".
MCKeyLength == [key \in MCClientKeys |-> IF key = long THEN 111 ELSE 10]

MCChatInputs == {[run |-> q1, key |-> k, message |-> m1, provider |-> P]}

Decided(id, key, verdict, provider) ==
    [run |-> q1, id |-> id, key |-> key, verdict |-> verdict, provider |-> provider]

MCDecideInputs ==
    {Decided(i1, kd, "approved", P), Decided(i1, kd, "denied", P),
     Decided(i2, long, "approved", P), Decided(i2, kd, "approved", P2)}

TwoDecisions == {Decided(i1, kd, "approved", P), Decided(i2, long, "denied", P),
                 Decided(i2, long, "approved", P)}

OneDecision == {Decided(i1, kd, "approved", P), Decided(i1, kd, "denied", P)}

MCStamp == [t \in Threads |-> t]

Interchangeable == Permutations(Decides)
=============================================================================
