-------------------------- MODULE FrameWork_proofs --------------------------
(***************************************************************************)
(* Proofs about FrameWork for any number of submitters, frames, artifacts   *)
(* and job slots, and however late a submission acts on its "now": type     *)
(* correctness, the exclusion that claims give, the order of payload and    *)
(* marker, and that a finished frame stays as it is.                        *)
(***************************************************************************)
EXTENDS FrameWork, TLAPS

\* What is reported complete is complete.
FinishIsComplete == \A s \in Submitters, f \in Frames : stage[s][f] = "finish" => Complete(f)
RecordIsTrue == \A f \in Frames : claims[f].state = "complete" => Complete(f)

\* A submission that is under way has been started by something, and so grows older.
BusyHasEntry == \A s \in Submitters : Busy(s) => entry[s] # "none"

\* Submission s is between the acquire and the submit_job of frame f, and the lease it
\* has acquired is still running.
Granted(s, f) == stage[s][f] = "submit" /\ ClaimTicks - age[s] >= 0

\* It holds the claim of the frame, ...
GrantHeld ==
    \A s \in Submitters, f \in Frames : Granted(s, f) =>
        \/ Complete(f)
        \/ claims[f].state = "claimed" /\ claims[f].left = ClaimTicks - age[s]

\* ... alone, ...
GrantUnique ==
    \A s, t \in Submitters, f \in Frames :
        s # t /\ Granted(s, f) /\ Granted(t, f) => Complete(f)

\* ... and no job of the frame has a lease that is still running.
GrantAlone ==
    \A s \in Submitters, f \in Frames, j \in Jobs :
        Granted(s, f) /\ Live(j) /\ jobs[j].frame = f => Complete(f) \/ jobs[j].lease < 0

\* A lease that is still running is the claim of the frame.
LeaseHeld ==
    \A j \in Jobs : Live(j) /\ jobs[j].lease >= 0 =>
        LET f == jobs[j].frame
        IN  Complete(f) \/ (claims[f].state = "claimed" /\ claims[f].left = jobs[j].lease)

\* A job that is about to write a marker has written the payload.
PayloadBeforeMarker ==
    \A j \in Jobs : jobs[j].step = "marker" => payloads[jobs[j].frame][jobs[j].at] # NoImage

Exclusion == GrantHeld /\ GrantUnique /\ GrantAlone /\ LeaseHeld /\ LeaseExclusion
Reports == FinishIsComplete /\ RecordIsTrue /\ BusyHasEntry
Artifact == PayloadBeforeMarker /\ MarkersDescribePayloads

IInv == TypeOK /\ Reports /\ Exclusion /\ Artifact

-----------------------------------------------------------------------------
\* Helpers.

LEMMA Sizes ==
  /\ ClaimTicks \in Nat /\ MaxAge \in Nat
  /\ NumArtifacts \in Nat /\ NumArtifacts > 0 /\ BatchAttempts \in Nat /\ BatchAttempts > 0
  /\ NumFrames \in Nat /\ MaxDeploys \in Nat /\ MaxCrashes \in Nat /\ MaxFailures \in Nat
  BY TimeAssumption, SizeAssumption, BoundsAssumption

LEMMA JobTypes ==
  ASSUME JobsOK, NEW j \in Jobs
  PROVE  /\ Live(j) => jobs[j] \in Job
         /\ ~Live(j) => jobs[j] = NoJob
         /\ NoJob.step = "free"
         /\ NoJob \notin Job
  BY DEF JobsOK, Live, Job, Steps, NoJob

LEMMA MoveStage ==
  ASSUME SubmissionOK, NEW s \in Submitters, NEW f \in Frames, NEW g \in Stages, Move(s, f, g)
  PROVE  /\ SubmissionOK'
         /\ stage'[s][f] = g
         /\ \A t \in Submitters, h \in Frames :
               t # s \/ h # f => stage'[t][h] = stage[t][h]
         /\ \A t \in Submitters : t # s \/ g # "out" => age'[t] = age[t]
         /\ \A h \in Frames : stage'[s][h] # "out" => age'[s] = age[s]
<1>1. stage' = [stage EXCEPT ![s][f] = g] /\ stage' \in [Submitters -> [Frames -> Stages]]
  BY DEF Move, SubmissionOK
<1>2. /\ stage'[s][f] = g
      /\ \A t \in Submitters, h \in Frames : t # s \/ h # f => stage'[t][h] = stage[t][h]
  BY <1>1 DEF SubmissionOK
<1>3. CASE g = "out" /\ \A h \in Frames \ {f} : stage[s][h] = "out"
  <2>1. age' = [age EXCEPT ![s] = 0] /\ entry' = [entry EXCEPT ![s] = "none"]
    BY <1>3 DEF Move
  <2>2. age' \in [Submitters -> 0..MaxAge] /\ entry' \in [Submitters -> Entries]
    BY <2>1, Sizes DEF SubmissionOK, Entries
  <2> QED
    BY <1>1, <1>2, <1>3, <2>1, <2>2 DEF SubmissionOK
<1>4. CASE ~(g = "out" /\ \A h \in Frames \ {f} : stage[s][h] = "out")
  BY <1>1, <1>2, <1>4 DEF Move, SubmissionOK
<1> QED
  BY <1>3, <1>4

LEMMA MoveBusy ==
  ASSUME SubmissionOK, BusyHasEntry, NEW s \in Submitters, NEW f \in Frames, NEW g \in Stages,
         stage[s][f] # "out", Move(s, f, g)
  PROVE  BusyHasEntry'
<1>1. Busy(s) /\ entry[s] # "none"
  BY DEF Busy, BusyHasEntry
<1>2. stage' = [stage EXCEPT ![s][f] = g]
  BY DEF Move
<1>3. \A t \in Submitters : t # s => stage'[t] = stage[t]
  BY <1>2 DEF SubmissionOK
<1>4. CASE g = "out" /\ \A h \in Frames \ {f} : stage[s][h] = "out"
  <2>1. entry' = [entry EXCEPT ![s] = "none"]
    BY <1>4 DEF Move
  <2>2. ~Busy(s)'
    BY <1>2, <1>4 DEF Busy, SubmissionOK
  <2> QED
    BY <1>3, <2>1, <2>2 DEF BusyHasEntry, Busy, SubmissionOK
<1>5. CASE ~(g = "out" /\ \A h \in Frames \ {f} : stage[s][h] = "out")
  BY <1>1, <1>3, <1>5 DEF Move, BusyHasEntry, Busy
<1> QED
  BY <1>4, <1>5

-----------------------------------------------------------------------------
\* The initial state.

LEMMA InitIInv == Init => IInv
<1> SUFFICES ASSUME Init PROVE IInv
  OBVIOUS
<1>1. TypeOK
  <2>1. polled \in BOOLEAN
    BY DEF Init
  <2> QED
    BY <2>1, Sizes DEF Init, TypeOK, StoreOK, ClaimsOK, SubmissionOK, JobsOK, BudgetOK, NoClaim,
                        Oldest, Stages, Entries
<1>2. \A j \in Jobs : jobs[j].step = "free"
  BY DEF Init, NoJob
<1>3. Reports /\ Exclusion /\ Artifact
  BY <1>2 DEF BusyHasEntry, Busy, Init, Reports, Exclusion, Artifact, FinishIsComplete, RecordIsTrue, Granted, GrantHeld,
              GrantUnique, GrantAlone, LeaseHeld, LeaseExclusion, PayloadBeforeMarker,
              MarkersDescribePayloads, Live, NoClaim
<1> QED
  BY <1>1, <1>3 DEF IInv

-----------------------------------------------------------------------------
\* Submissions.

\* A frame that goes to another stage than submit, with nothing else changed.
LEMMA QuietMoveIInv ==
  ASSUME IInv, NEW s \in Submitters, NEW f \in Frames, NEW g \in Stages \ {"submit"},
         stage[s][f] # "out", g = "finish" => Complete(f), Move(s, f, g),
         UNCHANGED <<outside, claims, store, jobs, budget>>
  PROVE  IInv'
<1>1. TypeOK'
  BY MoveStage DEF IInv, TypeOK, StoreOK, ClaimsOK, JobsOK, BudgetOK, outside, store, budget
<1>2. \A t \in Submitters, h \in Frames :
        stage'[t][h] = "submit" => stage[t][h] = "submit" /\ age'[t] = age[t]
  BY MoveStage DEF IInv, TypeOK
<1>3. \A h \in Frames : Complete(h)' = Complete(h)
  BY DEF Complete, store
<1>4. Reports'
  BY <1>3, MoveStage, MoveBusy DEF IInv, TypeOK, Reports, FinishIsComplete, RecordIsTrue
<1>5. Exclusion'
  <2>1. UNCHANGED <<jobs, claims>> /\ \A j \in Jobs : Live(j) => jobs[j].frame \in Frames
    BY JobTypes DEF IInv, TypeOK, Job
  <2> QED
    BY <1>2, <1>3, <2>1 DEF IInv, Exclusion, Granted, GrantHeld, GrantUnique, GrantAlone, LeaseHeld,
                            LeaseExclusion, Live
<1>6. Artifact'
  BY DEF IInv, Artifact, PayloadBeforeMarker, MarkersDescribePayloads, store
<1> QED
  BY <1>1, <1>4, <1>5, <1>6 DEF IInv

\* All frames of a submission go out, or start over.
LEMMA RestartIInv ==
  ASSUME IInv, NEW s \in Submitters, NEW row \in [Frames -> {"inspect", "out"}],
         stage' = [stage EXCEPT ![s] = row],
         entry' \in [Submitters -> Entries],
         \A t \in Submitters : t # s => entry'[t] = entry[t],
         Busy(s)' => entry'[s] # "none",
         age' \in [Submitters -> 0..MaxAge],
         \A t \in Submitters : t # s => age'[t] = age[t],
         UNCHANGED <<outside, claims, store, jobs>>,
         BudgetOK'
  PROVE  IInv'
<1>1. SubmissionOK'
  BY DEF IInv, TypeOK, SubmissionOK, Stages
<1>2. TypeOK'
  BY <1>1 DEF IInv, TypeOK, StoreOK, ClaimsOK, JobsOK, outside, store
<1>3. \A t \in Submitters, h \in Frames :
        /\ stage'[t][h] = "submit" => stage[t][h] = "submit" /\ age'[t] = age[t]
        /\ stage'[t][h] = "finish" => stage[t][h] = "finish"
  BY DEF IInv, TypeOK, SubmissionOK
<1>4. \A h \in Frames : Complete(h)' = Complete(h)
  BY DEF Complete, store
<1>5. Reports'
  <2>1. BusyHasEntry'
    BY DEF IInv, TypeOK, SubmissionOK, Reports, BusyHasEntry, Busy
  <2> QED
    BY <1>3, <1>4, <2>1 DEF IInv, Reports, FinishIsComplete, RecordIsTrue
<1>6. Exclusion'
  <2>1. UNCHANGED <<jobs, claims>> /\ \A j \in Jobs : Live(j) => jobs[j].frame \in Frames
    BY JobTypes DEF IInv, TypeOK, Job
  <2> QED
    BY <1>3, <1>4, <2>1 DEF IInv, Exclusion, Granted, GrantHeld, GrantUnique, GrantAlone, LeaseHeld,
                            LeaseExclusion, Live
<1>7. Artifact'
  BY DEF IInv, Artifact, PayloadBeforeMarker, MarkersDescribePayloads, store
<1> QED
  BY <1>2, <1>5, <1>6, <1>7 DEF IInv

LEMMA BeginIInv ==
  ASSUME IInv, NEW s \in Submitters, NEW scope \in SUBSET Frames,
         NEW kind \in Entries \ {"none"}, Begin(s, scope, kind)
  PROVE  IInv'
<1> DEFINE row == [f \in Frames |-> IF f \in scope THEN "inspect" ELSE "out"]
<1>1. row \in [Frames -> {"inspect", "out"}] /\ stage' = [stage EXCEPT ![s] = row]
  BY DEF Begin
<1>2. /\ entry' \in [Submitters -> Entries]
      /\ entry'[s] # "none"
      /\ \A t \in Submitters : t # s => entry'[t] = entry[t]
      /\ age' \in [Submitters -> 0..MaxAge]
  BY DEF IInv, TypeOK, SubmissionOK, Begin
<1>3. UNCHANGED <<outside, claims, store, jobs, age>> /\ BudgetOK'
  BY DEF IInv, TypeOK, BudgetOK, Begin, budget
<1> HIDE DEF row
<1> QED
  BY <1>1, <1>2, <1>3, RestartIInv

LEMMA CrashIInv ==
  ASSUME IInv, NEW s \in Submitters, Crash(s)
  PROVE  IInv'
<1> DEFINE row == [f \in Frames |-> "out"]
<1>1. row \in [Frames -> {"inspect", "out"}] /\ stage' = [stage EXCEPT ![s] = row] /\ ~Busy(s)'
  BY DEF Crash, Busy, IInv, TypeOK, SubmissionOK
<1>2. /\ entry' \in [Submitters -> Entries]
      /\ age' \in [Submitters -> 0..MaxAge]
      /\ \A t \in Submitters : t # s => entry'[t] = entry[t] /\ age'[t] = age[t]
  BY Sizes DEF IInv, TypeOK, SubmissionOK, Entries, Crash
<1>3. UNCHANGED <<outside, claims, store, jobs>> /\ BudgetOK'
  BY Sizes DEF IInv, TypeOK, BudgetOK, Crash
<1> HIDE DEF row
<1> QED
  BY <1>1, <1>2, <1>3, RestartIInv

LEMMA InspectIInv ==
  ASSUME IInv, NEW s \in Submitters, NEW f \in Frames, Inspect(s, f)
  PROVE  IInv'
<1> DEFINE g == IF ~Complete(f) THEN "claim" ELSE IF entry[s] # "operate" THEN "finish" ELSE "out"
<1>1. g \in Stages \ {"submit"} /\ (g = "finish" => Complete(f))
  BY DEF Stages
<1>2. /\ Move(s, f, g) /\ UNCHANGED <<outside, claims, store, jobs, budget>>
      /\ stage[s][f] # "out"
  BY DEF Inspect, Turn
<1> HIDE DEF g
<1> QED
  BY <1>1, <1>2, QuietMoveIInv

LEMMA ReadClaimIInv ==
  ASSUME IInv, NEW s \in Submitters, NEW f \in Frames, ReadClaim(s, f)
  PROVE  IInv'
<1> DEFINE g == IF Blocks(claims[f], s) THEN "out" ELSE "acquire"
<1>1. g \in Stages \ {"submit"} /\ g # "finish"
  BY DEF Stages
<1>2. /\ Move(s, f, g) /\ UNCHANGED <<outside, claims, store, jobs, budget>>
      /\ stage[s][f] # "out"
  BY DEF ReadClaim, Turn
<1> HIDE DEF g
<1> QED
  BY <1>1, <1>2, QuietMoveIInv

LEMMA RecordCompleteIInv ==
  ASSUME IInv, NEW s \in Submitters, NEW f \in Frames, RecordComplete(s, f)
  PROVE  IInv'
<1>1. Move(s, f, "out") /\ "out" \in Stages /\ stage[s][f] = "finish"
  BY DEF RecordComplete, Turn, Stages
<1>2. Complete(f) /\ \A h \in Frames : Complete(h)' = Complete(h)
  BY <1>1 DEF RecordComplete, Complete, store, IInv, Reports, FinishIsComplete
<1>3. /\ ClaimsOK'
      /\ claims'[f].state = "complete"
      /\ \A h \in Frames : h # f => claims'[h] = claims[h]
  BY Sizes DEF IInv, TypeOK, ClaimsOK, RecordComplete, Completed, Oldest
<1>4. TypeOK'
  BY <1>1, <1>3, MoveStage
     DEF IInv, TypeOK, StoreOK, JobsOK, BudgetOK, outside, store, budget, RecordComplete
<1>5. \A t \in Submitters, h \in Frames :
        /\ stage'[t][h] = "submit" => stage[t][h] = "submit" /\ age'[t] = age[t]
        /\ stage'[t][h] = "finish" => stage[t][h] = "finish"
  BY <1>1, MoveStage DEF IInv, TypeOK
<1>6. Reports'
  BY <1>1, <1>2, <1>3, <1>5, MoveBusy
     DEF IInv, TypeOK, Reports, FinishIsComplete, RecordIsTrue
<1>7. Exclusion'
  <2>1. UNCHANGED jobs /\ \A j \in Jobs : Live(j) => jobs[j].frame \in Frames
    BY JobTypes DEF RecordComplete, IInv, TypeOK, Job
  <2> QED
    BY <1>2, <1>3, <1>5, <2>1 DEF IInv, Exclusion, Granted, GrantHeld, GrantUnique, GrantAlone,
       LeaseHeld, LeaseExclusion, Live
<1>8. Artifact'
  BY DEF IInv, Artifact, PayloadBeforeMarker, MarkersDescribePayloads, store, RecordComplete
<1> QED
  BY <1>4, <1>6, <1>7, <1>8 DEF IInv

LEMMA AcquireIInv ==
  ASSUME IInv, NEW s \in Submitters, NEW f \in Frames, Acquire(s, f)
  PROVE  IInv'
<1>1. CASE ~Available(claims[f], s)
  <2>1. /\ Move(s, f, "out") /\ UNCHANGED <<outside, claims, store, jobs, budget>>
        /\ stage[s][f] # "out"
    BY <1>1 DEF Acquire, Turn
  <2> QED
    BY <2>1, QuietMoveIInv DEF Stages
<1>2. CASE Available(claims[f], s)
  <2>1. Move(s, f, "submit") /\ "submit" \in Stages /\ stage[s][f] = "acquire"
    BY <1>2 DEF Acquire, Turn, Stages
  <2>2. \A h \in Frames : Complete(h)' = Complete(h)
    BY DEF Acquire, Complete, store
  <2>3. /\ ClaimsOK'
        /\ claims'[f] = [state |-> "claimed", left |-> ClaimTicks - age[s]]
        /\ \A h \in Frames : h # f => claims'[h] = claims[h]
    <3>1. claims' = [claims EXCEPT ![f] = [state |-> "claimed", left |-> ClaimTicks - age[s]]]
      BY <1>2 DEF Acquire
    <3>2. ClaimTicks - age[s] \in Oldest..ClaimTicks
      BY Sizes DEF IInv, TypeOK, SubmissionOK, Oldest
    <3> QED
      BY <3>1, <3>2 DEF IInv, TypeOK, ClaimsOK
  <2>4. TypeOK'
    BY <2>1, <2>3, MoveStage
       DEF IInv, TypeOK, StoreOK, JobsOK, BudgetOK, outside, store, budget, Acquire
  <2>5. /\ UNCHANGED <<jobs, age>>
        /\ \A t \in Submitters, h \in Frames : t # s \/ h # f => stage'[t][h] = stage[t][h]
        /\ stage'[s][f] = "submit"
    <3>1. UNCHANGED jobs
      BY DEF Acquire
    <3>2. UNCHANGED age
      BY <2>1 DEF Move
    <3> QED
      BY <2>1, <3>1, <3>2, MoveStage DEF IInv, TypeOK
  <2>6. Reports'
    BY <2>1, <2>2, <2>3, <2>5, MoveBusy
       DEF IInv, TypeOK, Reports, FinishIsComplete, RecordIsTrue
  \* The claim that is replaced is not the one of another grant or of a running lease.
  <2>7. Complete(f) \/ claims[f].state = "none" \/ claims[f].left < -age[s]
    BY <1>2 DEF Available, IInv, TypeOK, ClaimsOK, Reports, RecordIsTrue
  <2>8. \A t \in Submitters : Granted(t, f) => Complete(f)
    BY <2>7, Sizes DEF IInv, TypeOK, SubmissionOK, ClaimsOK, Exclusion, GrantHeld, Granted
  <2>9. \A j \in Jobs : Live(j) /\ jobs[j].frame = f => Complete(f) \/ jobs[j].lease < 0
    <3> SUFFICES ASSUME NEW j \in Jobs, Live(j), jobs[j].frame = f, jobs[j].lease >= 0
                 PROVE  Complete(f)
      BY JobTypes, Sizes DEF IInv, TypeOK, Job
    <3>1. Complete(f) \/ (claims[f].state = "claimed" /\ claims[f].left = jobs[j].lease)
      BY DEF IInv, Exclusion, LeaseHeld
    <3> QED
      BY <2>7, <3>1, JobTypes, Sizes DEF IInv, TypeOK, Job, SubmissionOK
  <2>10. \A j \in Jobs : Live(j) => jobs[j].frame \in Frames /\ jobs[j].lease \in Int
    BY JobTypes, Sizes DEF IInv, TypeOK, Job
  <2>11. Exclusion'
    <3>1. GrantHeld'
      BY <2>2, <2>3, <2>5, <2>8 DEF IInv, Exclusion, Granted, GrantHeld
    <3>2. GrantUnique'
      BY <2>2, <2>5, <2>8 DEF IInv, Exclusion, Granted, GrantUnique
    <3>3. GrantAlone' /\ LeaseExclusion'
      BY <2>2, <2>5, <2>9, <2>10 DEF IInv, Exclusion, Granted, GrantAlone, LeaseExclusion, Live
    <3>4. LeaseHeld'
      BY <2>2, <2>3, <2>5, <2>9, <2>10 DEF IInv, Exclusion, LeaseHeld, Live
    <3> QED
      BY <3>1, <3>2, <3>3, <3>4 DEF Exclusion
  <2>12. Artifact'
    BY DEF IInv, Artifact, PayloadBeforeMarker, MarkersDescribePayloads, store, Acquire
  <2> QED
    BY <2>4, <2>6, <2>11, <2>12 DEF IInv
<1> QED
  BY <1>1, <1>2

LEMMA SubmitJobIInv ==
  ASSUME IInv, NEW s \in Submitters, NEW f \in Frames, NEW j \in Jobs, SubmitJob(s, f, j)
  PROVE  IInv'
<1>1. Move(s, f, "out") /\ "out" \in Stages /\ stage[s][f] = "submit"
  BY DEF SubmitJob, Turn, Stages
<1>2. \A h \in Frames : Complete(h)' = Complete(h)
  BY DEF SubmitJob, Complete, store
<1>3. /\ jobs'[j] = [step |-> "payload", frame |-> f, image |-> image, at |-> 1,
                     attempt |-> 1, lease |-> AtLeast(ClaimTicks - age[s], -1)]
      /\ \A k \in Jobs : k # j => jobs'[k] = jobs[k]
      /\ ~Live(j)
  BY DEF SubmitJob, IInv, TypeOK, JobsOK
<1>4. /\ jobs'[j] \in Job
      /\ jobs'[j].lease >= 0 => Granted(s, f) /\ jobs'[j].lease = ClaimTicks - age[s]
  BY <1>1, <1>3, Sizes
     DEF IInv, TypeOK, StoreOK, SubmissionOK, Job, Steps, Artifacts, AtLeast, Granted
<1>5. TypeOK'
  <2>1. JobsOK'
    BY <1>3, <1>4 DEF SubmitJob, IInv, TypeOK, JobsOK
  <2> QED
    BY <1>1, <2>1, MoveStage
       DEF IInv, TypeOK, StoreOK, ClaimsOK, BudgetOK, outside, store, budget, SubmitJob
<1>6. \A t \in Submitters, h \in Frames :
        /\ stage'[t][h] = "submit" =>
              stage[t][h] = "submit" /\ age'[t] = age[t] /\ ~(t = s /\ h = f)
        /\ stage'[t][h] = "finish" => stage[t][h] = "finish"
  BY <1>1, MoveStage DEF IInv, TypeOK
<1>7. Reports'
  BY <1>1, <1>2, <1>6, MoveBusy
     DEF IInv, TypeOK, Reports, FinishIsComplete, RecordIsTrue, SubmitJob
<1>8. \A k \in Jobs : Live(k) => jobs[k].frame \in Frames /\ jobs[k].lease \in Int
  BY JobTypes, Sizes DEF IInv, TypeOK, Job
<1>9. Exclusion'
  <2>1. GrantHeld' /\ GrantUnique'
    BY <1>2, <1>6 DEF IInv, Exclusion, Granted, GrantHeld, GrantUnique, SubmitJob
  <2>2. GrantAlone'
    BY <1>1, <1>2, <1>3, <1>4, <1>6, <1>8 DEF Job, IInv, Exclusion, Granted, GrantUnique, GrantAlone, Live
  <2>3. LeaseHeld'
    BY <1>1, <1>2, <1>3, <1>4, <1>8 DEF IInv, Exclusion, GrantHeld, LeaseHeld, Live, SubmitJob
  <2>4. LeaseExclusion'
    BY <1>1, <1>2, <1>3, <1>4, <1>8
       DEF IInv, Exclusion, GrantAlone, LeaseExclusion, Live, Job
  <2> QED
    BY <2>1, <2>2, <2>3, <2>4 DEF Exclusion
<1>10. Artifact'
  BY <1>3 DEF IInv, Artifact, PayloadBeforeMarker, MarkersDescribePayloads, store, SubmitJob
<1> QED
  BY <1>5, <1>7, <1>9, <1>10 DEF IInv

-----------------------------------------------------------------------------
\* Jobs.

LEMMA WritePayloadIInv ==
  ASSUME IInv, NEW j \in Jobs, WritePayload(j)
  PROVE  IInv'
<1>1. Live(j) /\ jobs[j] \in Job
  BY JobTypes DEF WritePayload, Live, IInv, TypeOK
<1>2. /\ jobs'[j] = [jobs[j] EXCEPT !.step = "marker"]
      /\ \A k \in Jobs : k # j => jobs'[k] = jobs[k]
  BY DEF WritePayload, IInv, TypeOK, JobsOK
<1>3. jobs'[j] \in Job /\ jobs'[j].frame = jobs[j].frame /\ jobs'[j].at = jobs[j].at
      /\ jobs'[j].lease = jobs[j].lease /\ jobs'[j].step # "free"
  BY <1>1, <1>2 DEF Job, Steps
<1>4. /\ StoreOK'
      /\ payloads'[jobs[j].frame][jobs[j].at] # NoImage
      /\ \A f \in Frames, a \in Artifacts :
            payloads[f][a] # NoImage => payloads'[f][a] # NoImage
  BY <1>1, NoImageAssumption DEF WritePayload, outside, IInv, TypeOK, StoreOK, Job
<1>5. TypeOK'
  BY <1>3, <1>4 DEF WritePayload, IInv, TypeOK, ClaimsOK, SubmissionOK, JobsOK, BudgetOK,
                    submission, budget
<1>6. Reports'
  BY DEF IInv, Reports, FinishIsComplete, RecordIsTrue, BusyHasEntry, Busy, WritePayload,
         submission, Complete
<1>7. Exclusion'
  BY <1>1, <1>2, <1>3 DEF IInv, Exclusion, Granted, GrantHeld, GrantUnique, GrantAlone, LeaseHeld,
       LeaseExclusion, WritePayload, submission, Complete, Live
<1>8. Artifact'
  <2>1. \A k \in Jobs : jobs[k].step = "marker" => jobs[k].frame \in Frames /\ jobs[k].at \in Artifacts
    BY JobTypes DEF IInv, TypeOK, Job, Live
  <2> QED
    BY <1>2, <1>3, <1>4, <2>1 DEF IInv, Artifact, PayloadBeforeMarker, MarkersDescribePayloads,
                                  WritePayload
<1> QED
  BY <1>5, <1>6, <1>7, <1>8 DEF IInv

LEMMA WriteMarkerIInv ==
  ASSUME IInv, NEW j \in Jobs, WriteMarker(j)
  PROVE  IInv'
<1>1. Live(j) /\ jobs[j] \in Job /\ NoJob.step = "free"
  BY JobTypes DEF WriteMarker, Live, IInv, TypeOK
<1>2. /\ jobs'[j] = NextArtifact(jobs[j])
      /\ \A k \in Jobs : k # j => jobs'[k] = jobs[k]
  BY DEF WriteMarker, IInv, TypeOK, JobsOK
<1>3. /\ jobs'[j] \in Job \cup {NoJob}
      /\ jobs'[j].step # "marker"
      /\ jobs'[j].step # "free" => jobs'[j].frame = jobs[j].frame /\ jobs'[j].lease = jobs[j].lease
  <2>1. CASE jobs[j].at = NumArtifacts
    BY <1>1, <1>2, <2>1 DEF NextArtifact
  <2>2. CASE ~(jobs[j].at = NumArtifacts)
    <3>1. jobs'[j] = [jobs[j] EXCEPT !.step = "payload", !.at = jobs[j].at + 1]
      BY <1>2, <2>2 DEF NextArtifact
    <3>2. jobs[j].at + 1 \in Artifacts
      BY <1>1, <2>2, Sizes DEF Job, Artifacts
    <3> QED
      BY <1>1, <3>1, <3>2 DEF Job, Steps
  <2> QED
    BY <2>1, <2>2
<1>4. \A f \in Frames, a \in Artifacts : markers[f][a] # NoImage => markers'[f][a] # NoImage
  BY <1>1, NoImageAssumption DEF WriteMarker, IInv, TypeOK, StoreOK, Job
<1>5. TypeOK'
  <2>1. StoreOK'
    BY <1>1 DEF WriteMarker, outside, IInv, TypeOK, StoreOK, Job
  <2> QED
    BY <1>2, <1>3, <2>1 DEF WriteMarker, IInv, TypeOK, ClaimsOK, SubmissionOK, JobsOK, BudgetOK,
                            submission, budget
<1>6. \A f \in Frames : Complete(f) => Complete(f)'
  BY <1>4 DEF Complete
<1>7. Reports'
  BY <1>6 DEF IInv, Reports, FinishIsComplete, RecordIsTrue, BusyHasEntry, Busy, WriteMarker,
              submission
<1>8. Exclusion'
  <2>1. \A k \in Jobs : Live(k) => jobs[k].frame \in Frames
    BY JobTypes DEF IInv, TypeOK, Job
  <2>2. \A k \in Jobs : Live(k)' =>
           Live(k) /\ jobs'[k].frame = jobs[k].frame /\ jobs'[k].lease = jobs[k].lease
    BY <1>1, <1>2, <1>3 DEF Live
  <2> QED
    BY <1>6, <2>1, <2>2 DEF IInv, Exclusion, Granted, GrantHeld, GrantUnique, GrantAlone, LeaseHeld,
         LeaseExclusion, WriteMarker, submission
<1>9. Artifact'
  <2>1. PayloadBeforeMarker'
    BY <1>2, <1>3 DEF IInv, Artifact, PayloadBeforeMarker, WriteMarker
  <2>2. payloads[jobs[j].frame][jobs[j].at] # NoImage
    BY DEF IInv, Artifact, PayloadBeforeMarker, WriteMarker
  <2>3. MarkersDescribePayloads'
    BY <1>1, <2>2 DEF IInv, Artifact, TypeOK, StoreOK, Job, MarkersDescribePayloads, WriteMarker
  <2> QED
    BY <2>1, <2>3 DEF Artifact
<1> QED
  BY <1>5, <1>7, <1>8, <1>9 DEF IInv

LEMMA FailJobIInv ==
  ASSUME IInv, NEW j \in Jobs, FailJob(j)
  PROVE  IInv'
<1>1. jobs[j] \in Job /\ NoJob.step = "free"
  BY JobTypes DEF FailJob, IInv, TypeOK
<1>2. /\ jobs'[j] = NextAttempt(jobs[j])
      /\ \A k \in Jobs : k # j => jobs'[k] = jobs[k]
  BY DEF FailJob, IInv, TypeOK, JobsOK
<1>3. /\ jobs'[j] \in Job \cup {NoJob}
      /\ jobs'[j].step # "marker"
      /\ jobs'[j].step # "free" => jobs'[j].frame = jobs[j].frame /\ jobs'[j].lease = jobs[j].lease
  <2>1. CASE jobs[j].attempt = BatchAttempts
    BY <1>1, <1>2, <2>1 DEF NextAttempt
  <2>2. CASE ~(jobs[j].attempt = BatchAttempts)
    <3>1. jobs'[j] = [jobs[j] EXCEPT !.step = "payload", !.at = 1, !.attempt = jobs[j].attempt + 1]
      BY <1>2, <2>2 DEF NextAttempt
    <3>2. 1 \in Artifacts /\ jobs[j].attempt + 1 \in 1..BatchAttempts
      BY <1>1, <2>2, Sizes DEF Job, Artifacts
    <3> QED
      BY <1>1, <3>1, <3>2 DEF Job, Steps
  <2> QED
    BY <2>1, <2>2
<1>4. UNCHANGED <<image, polled, claims, payloads, markers, stage, entry, age>>
  BY DEF FailJob, outside, store, submission
<1>5. TypeOK'
  BY <1>2, <1>3, <1>4, Sizes
     DEF FailJob, IInv, TypeOK, StoreOK, ClaimsOK, SubmissionOK, JobsOK, BudgetOK
<1>6. Reports'
  BY <1>4 DEF IInv, Reports, FinishIsComplete, RecordIsTrue, BusyHasEntry, Busy, Complete
<1>7. Exclusion'
  <2>1. \A k \in Jobs : Live(k)' =>
           Live(k) /\ jobs'[k].frame = jobs[k].frame /\ jobs'[k].lease = jobs[k].lease
    BY <1>2, <1>3 DEF Live, FailJob
  <2> QED
    BY <1>4, <2>1 DEF IInv, Exclusion, Granted, GrantHeld, GrantUnique, GrantAlone, LeaseHeld,
         LeaseExclusion, Complete
<1>8. Artifact'
  BY <1>2, <1>3, <1>4 DEF IInv, Artifact, PayloadBeforeMarker, MarkersDescribePayloads
<1> QED
  BY <1>5, <1>6, <1>7, <1>8 DEF IInv

-----------------------------------------------------------------------------
\* The environment.

\* A deploy, or another cycle for the schedule: neither touches a submission or a job.
LEMMA OutsideIInv ==
  ASSUME IInv, image' \in Images, polled' \in BOOLEAN, BudgetOK',
         UNCHANGED <<claims, store, submission, jobs>>
  PROVE  IInv'
<1>1. TypeOK'
  BY DEF IInv, TypeOK, StoreOK, ClaimsOK, SubmissionOK, JobsOK, store, submission
<1>2. Reports' /\ Artifact'
  BY DEF IInv, Reports, FinishIsComplete, RecordIsTrue, BusyHasEntry, Busy, Complete, Artifact,
         PayloadBeforeMarker, MarkersDescribePayloads, store, submission
<1>3. Exclusion'
  BY DEF IInv, Exclusion, GrantHeld, GrantUnique, GrantAlone, Granted, LeaseHeld,
         LeaseExclusion, Complete, Live, store, submission
<1> QED
  BY <1>1, <1>2, <1>3 DEF IInv

LEMMA TickIInv ==
  ASSUME IInv, Tick
  PROVE  IInv'
<1>1. \A f \in Frames :
        /\ claims[f] \in [state : {"none", "claimed", "complete"}, left : Oldest..ClaimTicks]
        /\ claims'[f] = OlderClaim(claims[f])
  BY DEF Tick, IInv, TypeOK, ClaimsOK
<1>2. \A f \in Frames :
        /\ claims'[f] \in [state : {"none", "claimed", "complete"}, left : Oldest..ClaimTicks]
        /\ claims'[f].state = claims[f].state
        /\ claims[f].state = "claimed" /\ claims[f].left > Oldest
              => claims'[f].left = claims[f].left - 1
  <2> SUFFICES ASSUME NEW f \in Frames
               PROVE  /\ claims'[f] \in [state : {"none", "claimed", "complete"},
                                         left : Oldest..ClaimTicks]
                      /\ claims'[f].state = claims[f].state
                      /\ claims[f].state = "claimed" /\ claims[f].left > Oldest
                            => claims'[f].left = claims[f].left - 1
    OBVIOUS
  <2>1. /\ AtLeast(claims[f].left - 1, Oldest) \in Oldest..ClaimTicks
        /\ claims[f].left > Oldest => AtLeast(claims[f].left - 1, Oldest) = claims[f].left - 1
    BY <1>1, Sizes DEF AtLeast, Oldest
  <2> HIDE DEF AtLeast
  <2>2. CASE claims[f].state = "claimed"
    BY <1>1, <2>1, <2>2 DEF OlderClaim
  <2>3. CASE claims[f].state # "claimed"
    BY <1>1, <2>3 DEF OlderClaim
  <2> QED
    BY <2>2, <2>3
<1>3. \A j \in Jobs :
        /\ ~Live(j) => jobs'[j] = NoJob
        /\ Live(j) => /\ jobs'[j] \in Job
                      /\ jobs'[j].step = jobs[j].step
                      /\ jobs'[j].frame = jobs[j].frame
                      /\ jobs'[j].at = jobs[j].at
                      /\ jobs'[j].lease >= 0 => jobs'[j].lease = jobs[j].lease - 1
                      /\ jobs[j].lease < 0 => jobs'[j].lease < 0
  <2> SUFFICES ASSUME NEW j \in Jobs
               PROVE  /\ ~Live(j) => jobs'[j] = NoJob
                      /\ Live(j) => /\ jobs'[j] \in Job
                                    /\ jobs'[j].step = jobs[j].step
                                    /\ jobs'[j].frame = jobs[j].frame
                                    /\ jobs'[j].at = jobs[j].at
                                    /\ jobs'[j].lease >= 0 => jobs'[j].lease = jobs[j].lease - 1
                                    /\ jobs[j].lease < 0 => jobs'[j].lease < 0
    OBVIOUS
  <2>1. jobs'[j] = OlderJob(jobs[j])
    BY DEF Tick
  <2>2. CASE ~Live(j)
    BY <2>1, <2>2, JobTypes DEF OlderJob, IInv, TypeOK
  <2>3. CASE Live(j)
    <3>1. jobs[j] \in Job /\ jobs[j] # NoJob
      BY <2>3, JobTypes DEF IInv, TypeOK
    <3>2. jobs'[j] = [jobs[j] EXCEPT !.lease = AtLeast(@ - 1, -1)]
      BY <2>1, <3>1 DEF OlderJob
    <3>3. /\ AtLeast(jobs[j].lease - 1, -1) \in -1..ClaimTicks
          /\ AtLeast(jobs[j].lease - 1, -1) >= 0 => AtLeast(jobs[j].lease - 1, -1) = jobs[j].lease - 1
          /\ jobs[j].lease < 0 => AtLeast(jobs[j].lease - 1, -1) < 0
      BY <3>1, Sizes DEF Job, AtLeast
    <3> HIDE DEF AtLeast
    <3> QED
      BY <2>3, <3>1, <3>2, <3>3 DEF Job
  <2> QED
    BY <2>2, <2>3
<1>4. TypeOK'
  <2>1. ClaimsOK'
    BY <1>2 DEF Tick, ClaimsOK
  <2>2. JobsOK'
    BY <1>3 DEF Tick, JobsOK
  <2>3. SubmissionOK'
    BY Sizes DEF Tick, IInv, TypeOK, SubmissionOK
  <2> QED
    BY <2>1, <2>2, <2>3 DEF Tick, IInv, TypeOK, StoreOK, BudgetOK, outside, store, budget
<1>5. UNCHANGED <<stage, payloads, markers>> /\ \A f : Complete(f)' = Complete(f)
  BY DEF Tick, Complete, store
<1>6. \A s \in Submitters, f \in Frames : stage[s][f] # "out" => age'[s] = age[s] + 1
  BY DEF Tick, Busy, IInv, Reports, BusyHasEntry
<1>7. Reports'
  <2>1. BusyHasEntry'
    BY <1>5 DEF Tick, IInv, Reports, BusyHasEntry, Busy
  <2> QED
    BY <1>2, <1>5, <2>1 DEF IInv, Reports, FinishIsComplete, RecordIsTrue
<1>8. \A k \in Jobs : /\ Live(k)' = Live(k)
                      /\ Live(k) => jobs[k].frame \in Frames /\ jobs[k].lease \in Int
  BY <1>3, JobTypes, Sizes DEF IInv, TypeOK, Job, Live
\* A grant whose lease is still running after the tick was running before it.
<1>9. \A s \in Submitters, f \in Frames : Granted(s, f)' => Granted(s, f)
  BY <1>5, <1>6, Sizes DEF Granted, IInv, TypeOK, SubmissionOK
<1>10. Exclusion'
  <2>1. GrantHeld'
    <3> SUFFICES ASSUME NEW s \in Submitters, NEW f \in Frames, Granted(s, f)', ~Complete(f)
                 PROVE  claims'[f].state = "claimed" /\ claims'[f].left = ClaimTicks - age'[s]
      BY <1>5 DEF GrantHeld
    <3>1. claims[f].state = "claimed" /\ claims[f].left = ClaimTicks - age[s]
      BY <1>9 DEF IInv, Exclusion, GrantHeld
    <3>2. age[s] \in 0..MaxAge /\ age'[s] = age[s] + 1
      BY <1>5, <1>6 DEF IInv, TypeOK, SubmissionOK, Granted
    <3> QED
      BY <1>2, <3>1, <3>2, Sizes DEF Oldest
  <2>2. GrantUnique'
    BY <1>5, <1>9 DEF IInv, Exclusion, GrantUnique
  <2>3. GrantAlone' /\ LeaseExclusion'
    BY <1>3, <1>5, <1>8, <1>9 DEF IInv, Exclusion, GrantAlone, LeaseExclusion
  <2>4. LeaseHeld'
    <3> SUFFICES ASSUME NEW j \in Jobs, Live(j), jobs'[j].lease >= 0, ~Complete(jobs[j].frame)
                 PROVE  /\ claims'[jobs[j].frame].state = "claimed"
                        /\ claims'[jobs[j].frame].left = jobs'[j].lease
      BY <1>3, <1>5, <1>8 DEF LeaseHeld
    <3>1. jobs'[j].lease = jobs[j].lease - 1 /\ jobs[j].lease >= 0 /\ jobs[j].frame \in Frames
      BY <1>3, <1>8
    <3>2. claims[jobs[j].frame].state = "claimed" /\ claims[jobs[j].frame].left = jobs[j].lease
      BY <3>1 DEF IInv, Exclusion, LeaseHeld
    <3> QED
      BY <1>2, <1>8, <3>1, <3>2, Sizes DEF Oldest
  <2> QED
    BY <2>1, <2>2, <2>3, <2>4 DEF Exclusion
<1>11. Artifact'
  BY <1>3, <1>5, JobTypes DEF IInv, TypeOK, Live, Artifact, PayloadBeforeMarker,
                              MarkersDescribePayloads
<1> QED
  BY <1>4, <1>7, <1>10, <1>11 DEF IInv

-----------------------------------------------------------------------------
\* Theorems.

LEMMA NextIInv == IInv /\ [Next]_vars => IInv'
<1> SUFFICES ASSUME IInv, [Next]_vars PROVE IInv'
  OBVIOUS
<1>1. ASSUME NEW s \in Submitters,
             Poll(s) \/ (\E f \in Frames : Notify(s, f))
             \/ (\E scope \in (SUBSET Frames) \ {{}} : Operate(s, scope))
      PROVE  IInv'
  <2>1. PICK scope \in SUBSET Frames, kind \in Entries \ {"none"} : Begin(s, scope, kind)
    BY <1>1 DEF Poll, Notify, Operate, Entries
  <2> QED
    BY <2>1, BeginIInv
<1>2. ASSUME NEW s \in Submitters, Submit(s)
      PROVE  IInv'
  BY <1>2, InspectIInv, ReadClaimIInv, RecordCompleteIInv, AcquireIInv, SubmitJobIInv DEF Submit
<1>3. ASSUME NEW s \in Submitters, Crash(s)
      PROVE  IInv'
  BY <1>3, CrashIInv
<1>4. ASSUME NEW j \in Jobs, Work(j) \/ FailJob(j)
      PROVE  IInv'
  BY <1>4, WritePayloadIInv, WriteMarkerIInv, FailJobIInv DEF Work
<1>5. CASE Deploy \/ TurnOfCycle
  <2>1. polled \in BOOLEAN /\ image \in Images /\ BudgetOK
    BY DEF IInv, TypeOK, StoreOK
  <2>2. polled' \in BOOLEAN
    BY <1>5, <2>1, Zenon DEF Deploy, TurnOfCycle
  <2>3. image' \in Images /\ BudgetOK'
    BY <1>5, <2>1, Sizes DEF Deploy, TurnOfCycle, BudgetOK, budget
  <2> QED
    BY <1>5, <2>2, <2>3, OutsideIInv DEF Deploy, TurnOfCycle
<1>6. CASE Tick
  BY <1>6, TickIInv
<1>7. CASE UNCHANGED vars
  BY <1>7, OutsideIInv DEF vars, outside, budget, IInv, TypeOK, StoreOK, BudgetOK
<1> QED
  BY <1>1, <1>2, <1>3, <1>4, <1>5, <1>6, <1>7 DEF Next

LEMMA SpecIInv == Spec => []IInv
  BY InitIInv, NextIInv, PTL DEF Spec

\* Every variable keeps its type.
THEOREM FrameWorkTypes == Spec => []TypeOK
<1>1. IInv => TypeOK
  BY DEF IInv
<1> QED
  BY <1>1, SpecIInv, PTL

\* Whatever the number of submitters, however late they act and however long they take, two
\* jobs of an incomplete frame never run under running leases.
THEOREM ClaimsExclude == Spec => []LeaseExclusion
<1>1. IInv => LeaseExclusion
  BY DEF IInv, Exclusion
<1> QED
  BY <1>1, SpecIInv, PTL

\* A success marker never describes a payload that does not exist.
THEOREM PayloadsBeforeMarkers == Spec => []MarkersDescribePayloads
<1>1. IInv => MarkersDescribePayloads
  BY DEF IInv, Artifact
<1> QED
  BY <1>1, SpecIInv, PTL

-----------------------------------------------------------------------------
\* What a step may do about a done frame: nothing.
Kept(f) == Done(f)' /\ payloads'[f] = payloads[f] /\ markers'[f] = markers[f]

LEMMA KeptByStages ==
  ASSUME IInv, NEW f \in Frames, Done(f), UNCHANGED store,
         \A s \in Submitters : stage'[s][f] \in {"out", "inspect", "finish"},
         \A j \in Jobs : jobs'[j].step = "free" \/ jobs'[j].frame # f
  PROVE  Kept(f)
  BY DEF Kept, Done, Complete, Live, store

LEMMA SubmitKeeps ==
  ASSUME IInv, NEW f \in Frames, Done(f), NEW s \in Submitters, NEW h \in Frames,
         \/ Inspect(s, h) \/ ReadClaim(s, h) \/ RecordComplete(s, h) \/ Acquire(s, h)
         \/ \E j \in Jobs : SubmitJob(s, h, j)
  PROVE  Kept(f)
<1>1. UNCHANGED store
  BY DEF Inspect, ReadClaim, RecordComplete, Acquire, SubmitJob
<1>2. \A t \in Submitters : stage'[t][f] \in {"out", "inspect", "finish"}
  <2>1. PICK g \in Stages : Move(s, h, g) /\ (h = f => g \in {"out", "finish"})
    <3>1. CASE Inspect(s, h)
      <4>1. CASE h = f
        BY <3>1, <4>1 DEF Inspect, Done, Stages
      <4>2. CASE h # f
        BY <3>1, <4>2 DEF Inspect, Stages
      <4> QED
        BY <4>1, <4>2
    <3>2. CASE ReadClaim(s, h)
      BY <3>2 DEF ReadClaim, Turn, Done, Stages
    <3>3. CASE RecordComplete(s, h)
      BY <3>3 DEF RecordComplete, Stages
    <3>4. CASE Acquire(s, h)
      BY <3>4 DEF Acquire, Turn, Done, Stages
    <3>5. CASE \E j \in Jobs : SubmitJob(s, h, j)
      BY <3>5 DEF SubmitJob, Stages
    <3> QED
      BY <3>1, <3>2, <3>3, <3>4, <3>5
  <2> QED
    BY <2>1, MoveStage DEF IInv, TypeOK, Done
<1>3. \A j \in Jobs : jobs'[j].step = "free" \/ jobs'[j].frame # f
  <2>1. CASE \E j \in Jobs : SubmitJob(s, h, j)
    <3>1. PICK k \in Jobs : SubmitJob(s, h, k)
      BY <2>1
    <3>2. h # f
      BY <3>1 DEF SubmitJob, Turn, Done
    <3>3. jobs'[k].frame = h /\ \A j \in Jobs : j # k => jobs'[j] = jobs[j]
      BY <3>1 DEF SubmitJob, IInv, TypeOK, JobsOK
    <3> QED
      BY <3>2, <3>3 DEF Done, Live
  <2>2. CASE UNCHANGED jobs
    BY <2>2 DEF Done, Live
  <2> QED
    BY <2>1, <2>2 DEF Inspect, ReadClaim, RecordComplete, Acquire
<1> QED
  BY <1>1, <1>2, <1>3, KeptByStages

LEMMA JobKeeps ==
  ASSUME IInv, NEW f \in Frames, Done(f), NEW j \in Jobs, Work(j) \/ FailJob(j)
  PROVE  Kept(f)
<1>1. Live(j) /\ jobs[j] \in Job /\ jobs[j].frame # f
  BY JobTypes DEF Work, WritePayload, WriteMarker, FailJob, Live, IInv, TypeOK, Done
<1>2. payloads'[f] = payloads[f] /\ markers'[f] = markers[f] /\ UNCHANGED stage
  BY <1>1 DEF Work, WritePayload, WriteMarker, FailJob, store, submission, IInv, TypeOK, StoreOK,
              Job
<1>3. /\ \A k \in Jobs : k # j => jobs'[k] = jobs[k]
      /\ jobs'[j].step = "free" \/ jobs'[j].frame = jobs[j].frame
  <2>1. CASE WritePayload(j)
    BY <1>1, <2>1 DEF WritePayload, IInv, TypeOK, JobsOK, Job
  <2>2. CASE WriteMarker(j)
    BY <1>1, <2>2 DEF WriteMarker, NextArtifact, NoJob, IInv, TypeOK, JobsOK, Job
  <2>3. CASE FailJob(j)
    BY <1>1, <2>3 DEF FailJob, NextAttempt, NoJob, IInv, TypeOK, JobsOK, Job
  <2> QED
    BY <2>1, <2>2, <2>3 DEF Work
<1> QED
  BY <1>1, <1>2, <1>3 DEF Kept, Done, Complete, Live

LEMMA TickKeeps ==
  ASSUME IInv, NEW f \in Frames, Done(f), Tick
  PROVE  Kept(f)
<1>1. UNCHANGED <<store, stage>>
  BY DEF Tick
<1>2. \A j \in Jobs : jobs'[j].step = "free" \/ jobs'[j].frame # f
  <2> SUFFICES ASSUME NEW j \in Jobs PROVE jobs'[j].step = "free" \/ jobs'[j].frame # f
    OBVIOUS
  <2>1. jobs'[j] = OlderJob(jobs[j])
    BY DEF Tick
  <2>2. CASE Live(j)
    BY <2>1, <2>2, JobTypes DEF OlderJob, IInv, TypeOK, Job, Done
  <2>3. CASE ~Live(j)
    BY <2>1, <2>3, JobTypes DEF OlderJob, IInv, TypeOK
  <2> QED
    BY <2>2, <2>3
<1> QED
  BY <1>1, <1>2, KeptByStages DEF Done

\* A frame that is complete, with no job and no submission from before at work on it, is
\* final: no notification, poll, operator, claim or failure touches its artifacts again.
THEOREM DoneFramesAreFinal == Spec => DoneIsFinal
<1>1. ASSUME IInv, Next, NEW f \in Frames, Done(f)
      PROVE  Kept(f)
  <2>1. ASSUME NEW s \in Submitters, NEW scope, NEW kind, Begin(s, scope, kind)
        PROVE  Kept(f)
    <3>1. \A t \in Submitters : stage'[t][f] \in {"out", "inspect", "finish"}
      BY <1>1, <2>1 DEF Begin, IInv, TypeOK, SubmissionOK, Done
    <3> QED
      BY <1>1, <2>1, <3>1, KeptByStages DEF Begin, Done, Live
  <2>2. ASSUME NEW s \in Submitters, Submit(s)
        PROVE  Kept(f)
    BY <1>1, <2>2, SubmitKeeps DEF Submit
  <2>3. ASSUME NEW s \in Submitters, Crash(s)
        PROVE  Kept(f)
    <3>1. \A t \in Submitters : stage'[t][f] \in {"out", "inspect", "finish"}
      BY <1>1, <2>3 DEF Crash, IInv, TypeOK, SubmissionOK, Done
    <3> QED
      BY <1>1, <2>3, <3>1, KeptByStages DEF Crash, Done, Live
  <2>4. ASSUME NEW j \in Jobs, Work(j) \/ FailJob(j)
        PROVE  Kept(f)
    BY <1>1, <2>4, JobKeeps
  <2>5. CASE Deploy \/ TurnOfCycle
    BY <1>1, <2>5, KeptByStages DEF Deploy, TurnOfCycle, submission, Done, Live
  <2>6. CASE Tick
    BY <1>1, <2>6, TickKeeps
  <2> QED
    BY <1>1, <2>1, <2>2, <2>3, <2>4, <2>5, <2>6 DEF Next, Poll, Notify, Operate
<1>2. IInv /\ [Next]_vars => [\A f \in Frames : Done(f) => /\ Done(f)'
                                                           /\ payloads'[f] = payloads[f]
                                                           /\ markers'[f] = markers[f]]_vars
  BY <1>1 DEF Kept
<1> QED
  BY <1>2, SpecIInv, PTL DEF Spec, DoneIsFinal
=============================================================================
