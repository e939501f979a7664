----------------------------- MODULE MCPublicView -----------------------------
(* Public views, for TLC: one publisher is sometimes an operator, another one  *)
(* dies or meets an error.  An operator that dies leaves the same views as a   *)
(* pass that dies at the same target.                                          *)
EXTENDS PublicView

CONSTANTS Operators

ASSUME OperatorsAssumption == Operators \subseteq Publishers

MCNext ==
    \/ \E p \in Publishers : BeginPass(p) \/ BeginRolling(p) \/ Step(p)
    \/ \E p \in Operators : BeginOperator(p)
    \/ \E p \in Publishers \ Operators : Crash(p) \/ Fail(p)
    \/ \E d \in Datasets : Publish(d)
MCSpec == Init /\ [][MCNext]_vars /\ Fairness
=============================================================================
