------------------------------ MODULE WriteOnce ------------------------------
(***************************************************************************)
(* What a document promises that processes write without a lock: it may be  *)
(* written and overwritten while they race, but from some point on it is    *)
(* settled.  It is then something that was proposed, and stays that for     *)
(* ever.  RunSnapshot and PublishRun implement this (SettlesOnce there).    *)
(***************************************************************************)
CONSTANT Nothing    \* the document is not settled

VARIABLES
    proposed,       \* values the document may get
    settled         \* its value, once nothing can change it any more

vars == <<proposed, settled>>

Init == proposed = {} /\ settled = Nothing

Propose == proposed \subseteq proposed' /\ UNCHANGED settled

Settle ==
    /\ settled = Nothing
    /\ proposed \subseteq proposed'
    /\ settled' \in proposed'

Next == Propose \/ Settle

Spec == Init /\ [][Next]_vars
=============================================================================
