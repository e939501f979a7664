----------------------------- MODULE MCFrameWork -----------------------------
(* The frames of one run, for TLC.  The images are interchangeable, so that    *)
(* one first image stands for all; some submitters only poll, and are done     *)
(* before time passes; a deploy comes when a frame is half written, where it   *)
(* matters most; the schedule turns to or from the cycle of the run while      *)
(* nothing is under way, as only Poll looks at it; and what deploys, crashes   *)
(* and failures come to together is bounded as well.  None of this keeps a     *)
(* fair action from happening.                                                 *)
EXTENDS FrameWork

CONSTANTS MaxUpsets, Various

ASSUME VariousAssumption == Various \subseteq Submitters

HalfWritten(f) == ~Complete(f) /\ \E a \in Artifacts : markers[f][a] # NoImage
Quiet ==
    /\ \A s \in Submitters : entry[s] = "none"
    /\ \A j \in Jobs : ~Live(j)
    /\ \E f \in Frames : ~Complete(f)

MCInit == Init /\ image = (CHOOSE i \in Images : TRUE)
MCNext ==
    /\ Next
    /\ deploys' + crashes' + failures' <= MaxUpsets
    /\ deploys' # deploys => \E f \in Frames : HalfWritten(f)
    /\ polled' # polled => Quiet
    /\ \A s \in Submitters \ Various : entry'[s] \in {"none", "poll"} /\ age'[s] = 0
MCSpec == MCInit /\ [][MCNext]_vars /\ Fairness
=============================================================================
