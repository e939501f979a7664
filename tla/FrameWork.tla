------------------------------ MODULE FrameWork ------------------------------
(***************************************************************************)
(* How the frames of one run become artifacts.  Submitters (the ingest      *)
(* Lambdas and the operator command) plan the frames of the run from its    *)
(* success markers and its claims, claim what is missing and start one      *)
(* Batch job per claimed frame.  Jobs write payloads and success markers.   *)
(*                                                                         *)
(* Every request to the object store, the claim table or Batch is one step. *)
(* Time is relative: a claim carries the ticks it has left, a submission    *)
(* the ticks since its "now", so that "expires_at < now" reads              *)
(* "left < -age".  A poll takes the time of its event for "now", also when  *)
(* Lambda delivers the event again after a failure, and an operator has no  *)
(* timeout: a claim may have run out before it is written.                  *)
(* The job id and the attempt number of a claim are only reported, and left *)
(* out; a marker or a payload is the image that made it.                    *)
(***************************************************************************)
EXTENDS Integers, FiniteSets

CONSTANTS
    Submitters,     \* processes that may submit frames of this run
    NumFrames,      \* frames of the run's workload, in workload order 1..NumFrames
    NumArtifacts,   \* artifacts of the workload, in the order a job makes them
    Jobs,           \* bound: slots for jobs that are queued or running
    Images,         \* versions of the worker image
    NoImage,        \* an object that does not exist
    ClaimTicks,     \* FRAME_CLAIM_SECONDS
    MaxAge,         \* bound: ticks from the "now" of a submission to its end
    BatchAttempts,  \* attempts of a job (retry_strategy)
    MaxDeploys,     \* bound: deploys of another image
    MaxCrashes,     \* bound: submissions that die half way
    MaxFailures     \* bound: attempts of jobs that fail

ASSUME TimeAssumption == ClaimTicks \in Nat /\ MaxAge \in Nat
ASSUME SizeAssumption == NumFrames \in Nat /\ NumArtifacts \in Nat \ {0} /\ BatchAttempts \in Nat \ {0}
ASSUME BoundsAssumption == MaxDeploys \in Nat /\ MaxCrashes \in Nat /\ MaxFailures \in Nat
ASSUME NoImageAssumption == NoImage \notin Images

Frames == 1..NumFrames
Artifacts == 1..NumArtifacts

VARIABLES
    image,     \* the deployed worker image
    polled,    \* the schedule looks at the run's cycle, and finds its sentinel files
    claims,    \* the claim table: state, and ticks left until expires_at_epoch
    payloads,  \* payloads[f][a] in the object store
    markers,   \* markers[f][a]: the image whose payload the success marker describes
    stage,     \* stage[s][f]: what submission s does next for frame f
    entry,     \* entry[s]: what started submission s; a poll waits to be retried if not busy
    age,       \* age[s]: ticks since the "now" of submission s
    jobs,      \* the Batch jobs
    deploys, crashes, failures

store == <<payloads, markers>>
outside == <<image, polled>>
submission == <<stage, entry, age>>
budget == <<deploys, crashes, failures>>
vars == <<outside, claims, store, submission, jobs, budget>>

Stages == {"out", "inspect", "claim", "finish", "acquire", "submit"}
Entries == {"none", "poll", "notify", "operate"}
Steps == {"payload", "marker"}
NoClaim == [state |-> "none", left |-> 0]
Completed == [state |-> "complete", left |-> 0]   \* expires_at_epoch no longer matters
NoJob == [step |-> "free"]
Oldest == -MaxAge - 1   \* a claim this old is expired for every submission

Init ==
    /\ image \in Images /\ polled = FALSE
    /\ claims = [f \in Frames |-> NoClaim]
    /\ payloads = [f \in Frames |-> [a \in Artifacts |-> NoImage]]
    /\ markers = [f \in Frames |-> [a \in Artifacts |-> NoImage]]
    /\ stage = [s \in Submitters |-> [f \in Frames |-> "out"]]
    /\ entry = [s \in Submitters |-> "none"]
    /\ age = [s \in Submitters |-> 0]
    /\ jobs = [j \in Jobs |-> NoJob]
    /\ deploys = 0 /\ crashes = 0 /\ failures = 0

-----------------------------------------------------------------------------
\* Helpers.

Complete(f) == \A a \in Artifacts : markers[f][a] # NoImage
Busy(s) == \E f \in Frames : stage[s][f] # "out"
Live(j) == jobs[j].step # "free"
AtLeast(n, least) == IF n < least THEN least ELSE n

\* plan_run goes through all frames, then the submitter reports the complete ones, then
\* launch_planned_workers acquires all claims before the first job is submitted.
Rank(g) == CASE g \in {"inspect", "claim"} -> 1
             [] g = "finish" -> 2
             [] g = "acquire" -> 3
             [] g = "submit" -> 4
             [] g = "out" -> 5

\* It is the turn of frame f in submission s, at stage g.
Turn(s, f, g) ==
    /\ stage[s][f] = g
    /\ \A h \in Frames \ {f} : \/ Rank(stage[s][h]) > Rank(g)
                               \/ Rank(stage[s][h]) = Rank(g) /\ f < h

\* Frame f of submission s goes to stage g; the last one to go out ends the submission.
Move(s, f, g) ==
    /\ stage' = [stage EXCEPT ![s][f] = g]
    /\ IF g = "out" /\ \A h \in Frames \ {f} : stage[s][h] = "out"
       THEN age' = [age EXCEPT ![s] = 0] /\ entry' = [entry EXCEPT ![s] = "none"]
       ELSE UNCHANGED <<age, entry>>

-----------------------------------------------------------------------------
\* Submitting.

Begin(s, scope, kind) ==
    /\ ~Busy(s)
    /\ stage' = [stage EXCEPT ![s] = [f \in Frames |-> IF f \in scope THEN "inspect" ELSE "out"]]
    /\ entry' = [entry EXCEPT ![s] = kind]
    /\ UNCHANGED <<outside, claims, store, age, jobs, budget>>

\* The schedule (ICON): all frames of the newest cycle, once its sentinel files are there.
\* The event of a poll that failed comes again, with the time and so the cycle it had.
Poll(s) ==
    /\ (entry[s] = "none" /\ polled) \/ entry[s] = "poll"
    /\ Begin(s, Frames, "poll")

\* A notification (GFS, MRMS): its frame; "now" is read from the clock each time.
Notify(s, f) == entry[s] = "none" /\ Begin(s, {f}, "notify")

\* An operator: the frames of the command, with no timeout and no report.
Operate(s, scope) == entry[s] = "none" /\ Begin(s, scope, "operate")

\* inspect_frame_completion: markers are never removed, so that looking at them one
\* after the other is looking at all of them at the time of the deciding look.
Inspect(s, f) ==
    /\ Turn(s, f, "inspect")
    /\ Move(s, f, IF ~Complete(f) THEN "claim" ELSE IF entry[s] # "operate" THEN "finish" ELSE "out")
    /\ UNCHANGED <<outside, claims, store, jobs, budget>>

\* _claim_blocks_submission: a claim that expires after "now" keeps the frame out.
Blocks(c, s) == c.state = "claimed" /\ c.left > -age[s]

ReadClaim(s, f) ==
    /\ Turn(s, f, "claim")
    /\ Move(s, f, IF Blocks(claims[f], s) THEN "out" ELSE "acquire")
    /\ UNCHANGED <<outside, claims, store, jobs, budget>>

RecordComplete(s, f) ==
    /\ Turn(s, f, "finish")
    /\ Move(s, f, "out")
    /\ claims' = [claims EXCEPT ![f] = Completed]
    /\ UNCHANGED <<outside, store, jobs, budget>>

\* Faulty variant of Available: the claim that was read is not checked again.
AvailableUnchecked(c, s) == TRUE

\* Faulty variant of Available: a claim does not expire.
AvailableOnce(c, s) == c.state # "claimed"

\* The condition of the update: no item, or an item that expired, or is not claimed.
Available(c, s) == c.state # "claimed" \/ c.left < -age[s]

Acquire(s, f) ==
    /\ Turn(s, f, "acquire")
    /\ IF Available(claims[f], s)
       THEN /\ Move(s, f, "submit")
            /\ claims' = [claims EXCEPT ![f] = [state |-> "claimed", left |-> ClaimTicks - age[s]]]
       ELSE Move(s, f, "out") /\ UNCHANGED claims
    /\ UNCHANGED <<outside, store, jobs, budget>>

\* submit_job, in the first free slot.  "lease" is what was left of the claim under which
\* the job was submitted, negative if it had run out.
SubmitJob(s, f, j) ==
    /\ Turn(s, f, "submit")
    /\ ~Live(j) /\ j = (CHOOSE k \in Jobs : ~Live(k))
    /\ Move(s, f, "out")
    /\ jobs' = [jobs EXCEPT ![j] = [step |-> "payload", frame |-> f, image |-> image, at |-> 1,
                                    attempt |-> 1, lease |-> AtLeast(ClaimTicks - age[s], -1)]]
    /\ UNCHANGED <<outside, claims, store, budget>>

\* An exception, or the timeout of the Lambda: claims stay, what was not done is lost.
\* Lambda may deliver the event of a poll again, some time later.
Crash(s) ==
    /\ Busy(s)
    /\ crashes < MaxCrashes
    /\ crashes' = crashes + 1
    /\ stage' = [stage EXCEPT ![s] = [f \in Frames |-> "out"]]
    /\ \/ age' = [age EXCEPT ![s] = 0] /\ entry' = [entry EXCEPT ![s] = "none"]
       \/ entry[s] = "poll" /\ UNCHANGED <<age, entry>>
    /\ UNCHANGED <<outside, claims, store, jobs, deploys, failures>>

-----------------------------------------------------------------------------
\* run_frame_job: for each artifact the payload, then its marker, both overwriting.

\* Faulty variant of WritePayload: the marker is written although the payload is not.
WritePayloadSkips(j) ==
    /\ jobs[j].step = "payload"
    /\ jobs' = [jobs EXCEPT ![j].step = "marker"]
    /\ UNCHANGED <<outside, claims, store, submission, budget>>

WritePayload(j) ==
    /\ jobs[j].step = "payload"
    /\ payloads' = [payloads EXCEPT ![jobs[j].frame][jobs[j].at] = jobs[j].image]
    /\ jobs' = [jobs EXCEPT ![j].step = "marker"]
    /\ UNCHANGED <<outside, claims, markers, submission, budget>>

\* Faulty variant of NextArtifact: the job goes on past the last artifact.
NextArtifactPast(b) ==
    IF b.at > NumArtifacts THEN NoJob ELSE [b EXCEPT !.step = "payload", !.at = b.at + 1]

NextArtifact(b) ==
    IF b.at = NumArtifacts THEN NoJob ELSE [b EXCEPT !.step = "payload", !.at = b.at + 1]

WriteMarker(j) ==
    /\ jobs[j].step = "marker"
    /\ markers' = [markers EXCEPT ![jobs[j].frame][jobs[j].at] = jobs[j].image]
    /\ jobs' = [jobs EXCEPT ![j] = NextArtifact(@)]
    /\ UNCHANGED <<outside, claims, payloads, submission, budget>>

\* An attempt fails or times out: Batch starts over, or gives the job up.
NextAttempt(b) ==
    IF b.attempt = BatchAttempts THEN NoJob
    ELSE [b EXCEPT !.step = "payload", !.at = 1, !.attempt = b.attempt + 1]

FailJob(j) ==
    /\ Live(j)
    /\ failures < MaxFailures
    /\ failures' = failures + 1
    /\ jobs' = [jobs EXCEPT ![j] = NextAttempt(@)]
    /\ UNCHANGED <<outside, claims, store, submission, deploys, crashes>>

-----------------------------------------------------------------------------
\* The environment.

Deploy ==
    /\ deploys < MaxDeploys
    /\ deploys' = deploys + 1
    /\ image' \in Images \ {image}
    /\ UNCHANGED <<polled, claims, store, submission, jobs, crashes, failures>>

\* The newest cycle becomes the one of the run, or a later one; its sentinel files turn up,
\* or cannot be reached.
TurnOfCycle ==
    /\ polled' = ~polled
    /\ UNCHANGED <<image, claims, store, submission, jobs, budget>>

OlderClaim(c) == IF c.state = "claimed" THEN [c EXCEPT !.left = AtLeast(@ - 1, Oldest)] ELSE c
OlderJob(b) == IF b = NoJob THEN b ELSE [b EXCEPT !.lease = AtLeast(@ - 1, -1)]

\* Time passes, also for a poll that waits to be retried.
Tick ==
    /\ \A s \in Submitters : age[s] < MaxAge
    /\ age' = [s \in Submitters |-> IF entry[s] # "none" THEN age[s] + 1 ELSE 0]
    /\ claims' = [f \in Frames |-> OlderClaim(claims[f])]
    /\ jobs' = [j \in Jobs |-> OlderJob(jobs[j])]
    /\ UNCHANGED <<outside, store, stage, entry, budget>>

Submit(s) ==
    \E f \in Frames :
        \/ Inspect(s, f) \/ ReadClaim(s, f) \/ RecordComplete(s, f) \/ Acquire(s, f)
        \/ \E j \in Jobs : SubmitJob(s, f, j)

Work(j) == WritePayload(j) \/ WriteMarker(j)

Next ==
    \/ \E s \in Submitters :
          \/ Poll(s)
          \/ \E f \in Frames : Notify(s, f)
          \/ \E scope \in (SUBSET Frames) \ {{}} : Operate(s, scope)
          \/ Submit(s)
          \/ Crash(s)
    \/ \E j \in Jobs : Work(j) \/ FailJob(j)
    \/ Deploy \/ TurnOfCycle \/ Tick

Spec == Init /\ [][Next]_vars

\* The schedule comes again and again, whatever else is submitted in between; processes
\* that run make progress, and time passes.  Nothing is assumed of notifications, operators
\* and the cycle that the schedule looks at.
Fairness ==
    /\ \A s \in Submitters : SF_vars(Poll(s)) /\ WF_vars(Submit(s))
    /\ \A j \in Jobs : WF_vars(Work(j))
    /\ WF_vars(Tick)

-----------------------------------------------------------------------------
\* Properties.

StoreOK ==
    /\ image \in Images /\ polled \in BOOLEAN
    /\ payloads \in [Frames -> [Artifacts -> Images \cup {NoImage}]]
    /\ markers \in [Frames -> [Artifacts -> Images \cup {NoImage}]]

ClaimsOK ==
    claims \in [Frames -> [state : {"none", "claimed", "complete"}, left : Oldest..ClaimTicks]]

SubmissionOK ==
    /\ stage \in [Submitters -> [Frames -> Stages]]
    /\ entry \in [Submitters -> Entries]
    /\ age \in [Submitters -> 0..MaxAge]

Job == [step : Steps, frame : Frames, image : Images, at : Artifacts,
        attempt : 1..BatchAttempts, lease : -1..ClaimTicks]
JobsOK == jobs \in [Jobs -> Job \cup {NoJob}]

BudgetOK == deploys \in 0..MaxDeploys /\ crashes \in 0..MaxCrashes /\ failures \in 0..MaxFailures

TypeOK == StoreOK /\ ClaimsOK /\ SubmissionOK /\ JobsOK /\ BudgetOK

\* "duplicate-submission throttle" (infra/weather-etl/README.md:71): two jobs of one frame
\* are alive at the same time only if the lease of one of them has run out, or the frame is
\* complete.  A lease may have run out before its job is submitted: those of a poll whose
\* event came late, or of a slow operator, exclude nobody.
LeaseExclusion ==
    \A j, k \in Jobs :
        (j # k /\ Live(j) /\ Live(k) /\ jobs[j].frame = jobs[k].frame)
            => Complete(jobs[j].frame) \/ jobs[j].lease < 0 \/ jobs[k].lease < 0

\* A success marker never describes a payload that does not exist, through every crash,
\* retry and duplicate job: what has all its markers can be published.
MarkersDescribePayloads ==
    \A f \in Frames, a \in Artifacts : markers[f][a] # NoImage => payloads[f][a] # NoImage

\* A frame is done when it is complete and neither a job nor a submission that looked at
\* its markers before is still at work on it.  No later submission, operator or tick of
\* the clock changes its artifacts or starts another job for it.
Done(f) ==
    /\ Complete(f)
    /\ \A s \in Submitters : stage[s][f] \in {"out", "inspect", "finish"}
    /\ \A j \in Jobs : Live(j) => jobs[j].frame # f
DoneIsFinal ==
    [][\A f \in Frames : Done(f) => /\ Done(f)'
                                    /\ payloads'[f] = payloads[f]
                                    /\ markers'[f] = markers[f]]_vars

\* As long as the schedule looks at the cycle of the run, no frame is left behind: a claim
\* whose submission died before its job was submitted, or whose job failed for good, runs
\* out and a later poll takes the frame.  A frame that is left when the next cycle starts is
\* not polled again.
FramesComplete == <>[]polled => \A f \in Frames : <>Complete(f)

\* "Copy one immutable run payload" (repository.py:82): the payloads and markers of a
\* complete frame do not change.
CompleteFrameImmutable ==
    [][\A f \in Frames : Complete(f) => /\ payloads'[f] = payloads[f]
                                        /\ markers'[f] = markers[f]]_vars
=============================================================================
