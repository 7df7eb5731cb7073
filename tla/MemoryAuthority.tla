--------------------------- MODULE MemoryAuthority ---------------------------
(***************************************************************************)
(* What the memory store promises about authority: every exact revision    *)
(* (a record identity with a content digest) starts undecided, a human     *)
(* approves or rejects it once, rejection is final, and an approved        *)
(* revision can leave that state only by supersession in favour of a       *)
(* revision of another record that is approved at that moment.             *)
(***************************************************************************)
CONSTANTS Records, Contents

VARIABLE authority

Revisions == Records \X Contents

States == {"undecided", "approved", "rejected", "superseded"}

AuthorityTypeOK == authority \in [Revisions -> States]

AuthorityInit == authority = [v \in Revisions |-> "undecided"]

Approve(v) ==
    /\ authority[v] = "undecided"
    /\ authority' = [authority EXCEPT ![v] = "approved"]

Reject(v) ==
    /\ authority[v] = "undecided"
    /\ authority' = [authority EXCEPT ![v] = "rejected"]

Supersede(v, w) ==
    /\ v[1] # w[1]
    /\ authority[v] = "approved"
    /\ authority[w] = "approved"
    /\ authority' = [authority EXCEPT ![v] = "superseded"]

AuthorityNext ==
    \/ \E v \in Revisions : Approve(v) \/ Reject(v)
    \/ \E v, w \in Revisions : Supersede(v, w)

AuthoritySpec == AuthorityInit /\ [][AuthorityNext]_authority

=============================================================================
