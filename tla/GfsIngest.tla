------------------------------- MODULE GfsIngest -------------------------------
(***************************************************************************)
(* Submission of GFS frames.  Every new object in the GFS bucket is         *)
(* announced once or more often; an invocation of the ingest Lambda fixes   *)
(* the run of its cycle with the run coordinator, pins or loads the         *)
(* snapshot of that run, and submits a Batch job for the frame.  Nobody     *)
(* polls: what an invocation reports as handled is not looked at again.     *)
(*                                                                         *)
(* The snapshot of a run is created or loaded in one step (RunSnapshot      *)
(* shows the protocol), and claims expire at any time (FrameWork has the    *)
(* clock).  A notification names one object.                                *)
(***************************************************************************)
EXTENDS Naturals, FiniteSets

CONSTANTS
    Invocations,      \* executions of the Lambda that may overlap
    Cycles,           \* cycles that are announced
    AllowedCycles,    \* those at the hours the filter lets through
    Frames,           \* forecast hours that are announced
    Configs,          \* configurations that may be deployed
    FirstConfig,      \* the one deployed first
    WorkloadFrames,   \* workload.frames of a configuration; none means all
    HasWork,          \* whether workload.artifacts is not empty
    Nothing,          \* no configuration pinned, no object
    MaxAttempts,      \* an asynchronous invocation and its retries
    MaxNotifications, \* bound: notifications
    MaxFaults,        \* bound: exceptions and timeouts of the Lambda
    MaxJobFailures,   \* bound: jobs that fail for good
    MaxExpiries,      \* bound: items of the run coordinator that expire
    MaxRuns,          \* bound: run ids for one cycle
    MaxDeploys        \* bound: deploys

ASSUME ConfigAssumption ==
    /\ FirstConfig \in Configs
    /\ WorkloadFrames \in [Configs -> SUBSET Frames]
    /\ HasWork \in [Configs -> BOOLEAN]
    /\ AllowedCycles \subseteq Cycles
    /\ Nothing \notin Configs
ASSUME BoundsAssumption ==
    /\ MaxAttempts \in Nat \ {0} /\ MaxNotifications \in Nat /\ MaxFaults \in Nat
    /\ MaxJobFailures \in Nat /\ MaxExpiries \in Nat /\ MaxDeploys \in Nat
    /\ MaxRuns \in Nat /\ MaxRuns > MaxExpiries

RunIds == 1..MaxRuns
NoRun == 0
Object == [cycle : Cycles, frame : Frames]
ASSUME NothingAssumption == Nothing \notin Object
Work == [cycle : Cycles, run : RunIds, frame : Frames]

VARIABLES
    deployed,   \* the deployed configuration
    item,       \* run coordinator: the run id of each cycle
    issued,     \* run ids that were ever fixed, per cycle (history)
    expired,    \* coordinator items that expired, per cycle (history)
    snapshot,   \* the configuration pinned for each run
    claim,      \* frame claims
    running,    \* Batch jobs of a frame that have not ended
    done,       \* frames whose markers are complete
    failed,     \* frames one of whose jobs failed for good (history)
    step,       \* what each invocation does next
    object,     \* the object it was notified of
    attempt,    \* how often it was started
    run,        \* the run id it was given
    handled,    \* frames an invocation has reported as in hand (history)
    orphaned,   \* frames claimed by an invocation that died before it submitted (history)
    notifications, faults, deploys

invocation == <<step, object, attempt, run>>
coordinator == <<item, issued, expired>>
jobs == <<running, done, failed>>
history == <<handled, orphaned>>
bounds == <<notifications, faults, deploys>>
vars == <<deployed, coordinator, snapshot, claim, jobs, invocation, history, bounds>>

Init ==
    /\ deployed = FirstConfig
    /\ item = [c \in Cycles |-> NoRun]
    /\ issued = [c \in Cycles |-> 0]
    /\ expired = [c \in Cycles |-> 0]
    /\ snapshot = [c \in Cycles |-> [r \in RunIds |-> Nothing]]
    /\ claim = [w \in Work |-> "none"]
    /\ running = [w \in Work |-> 0]
    /\ done = {} /\ failed = {}
    /\ step = [i \in Invocations |-> "idle"]
    /\ object = [i \in Invocations |-> Nothing]
    /\ attempt = [i \in Invocations |-> 0]
    /\ run = [i \in Invocations |-> NoRun]
    /\ handled = {} /\ orphaned = {}
    /\ notifications = 0 /\ faults = 0 /\ deploys = 0

-----------------------------------------------------------------------------
\* Invocations.

\* The frame invocation i works on.
Of(i) == [cycle |-> object[i].cycle, run |-> run[i], frame |-> object[i].frame]

\* Faulty variant of End: the run of an earlier object is kept.
EndKeeps(i) ==
    /\ step' = [step EXCEPT ![i] = "idle"]
    /\ object' = [object EXCEPT ![i] = Nothing]
    /\ attempt' = [attempt EXCEPT ![i] = 0]
    /\ UNCHANGED run

End(i) ==
    /\ step' = [step EXCEPT ![i] = "idle"]
    /\ object' = [object EXCEPT ![i] = Nothing]
    /\ attempt' = [attempt EXCEPT ![i] = 0]
    /\ run' = [run EXCEPT ![i] = NoRun]

Go(i, next) == step' = [step EXCEPT ![i] = next] /\ UNCHANGED <<object, attempt, run>>

\* The invocation ends well, and says that the frame is submitted, claimed or completed.
Report(i) == End(i) /\ handled' = handled \cup {Of(i)} /\ UNCHANGED orphaned

\* An object of a cycle outside the filter is skipped with no effect at all.
Notify(i, o) ==
    /\ step[i] = "idle"
    /\ notifications < MaxNotifications
    /\ notifications' = notifications + 1
    /\ o.cycle \in AllowedCycles
    /\ step' = [step EXCEPT ![i] = "coordinate"]
    /\ object' = [object EXCEPT ![i] = o]
    /\ attempt' = [attempt EXCEPT ![i] = 1]
    /\ UNCHANGED <<deployed, coordinator, snapshot, claim, jobs, run, history, faults, deploys>>

\* Faulty variant of CoordinatedRun: the run id that is there is replaced.
CoordinatedRunFresh(c) == IF issued[c] < MaxRuns THEN issued[c] + 1 ELSE item[c]

\* The run id of the item, or a new one: SET run_id = if_not_exists(run_id, :run_id).
CoordinatedRun(c) == IF item[c] # NoRun THEN item[c] ELSE issued[c] + 1

Coordinate(i) ==
    /\ step[i] = "coordinate"
    /\ LET c == object[i].cycle
           r == CoordinatedRun(c)
       IN /\ item' = [item EXCEPT ![c] = r]
          /\ issued' = [issued EXCEPT ![c] = IF r > @ THEN r ELSE @]
          /\ run' = [run EXCEPT ![i] = r]
    /\ step' = [step EXCEPT ![i] = "snapshot"]
    /\ UNCHANGED <<deployed, expired, snapshot, claim, jobs, object, attempt, history, bounds>>

\* Faulty variant of Pinned: what is deployed says which frames are wanted.
PinnedDeployed(c, r) == deployed

\* The configuration of the run: the pinned one, or the deployed one, pinned now.
Pinned(c, r) == IF snapshot[c][r] = Nothing THEN deployed ELSE snapshot[c][r]

Accepts(cfg, f) == WorkloadFrames[cfg] = {} \/ f \in WorkloadFrames[cfg]
Wanted(cfg, f) == Accepts(cfg, f) /\ HasWork[cfg]

\* ensure_or_load_run_snapshot, then the filters of the configuration it returns.
EnsureSnapshot(i) ==
    /\ step[i] = "snapshot"
    /\ LET c == object[i].cycle
           cfg == Pinned(c, run[i])
       IN /\ snapshot' = IF snapshot[c][run[i]] = Nothing
                         THEN [snapshot EXCEPT ![c][run[i]] = deployed] ELSE snapshot
          /\ IF Wanted(cfg, object[i].frame) THEN Go(i, "plan") ELSE End(i)
    /\ UNCHANGED <<deployed, coordinator, claim, jobs, history, bounds>>

\* plan_run: the markers first, then the claim.
Plan(i) ==
    /\ step[i] = "plan"
    /\ CASE Of(i) \in done -> Go(i, "finish") /\ UNCHANGED history
         [] Of(i) \notin done /\ claim[Of(i)] = "claimed" -> Report(i)
         [] OTHER -> Go(i, "acquire") /\ UNCHANGED history
    /\ UNCHANGED <<deployed, coordinator, snapshot, claim, jobs, bounds>>

RecordComplete(i) ==
    /\ step[i] = "finish"
    /\ claim' = [claim EXCEPT ![Of(i)] = "complete"]
    /\ Report(i)
    /\ UNCHANGED <<deployed, coordinator, snapshot, jobs, bounds>>

Acquire(i) ==
    /\ step[i] = "acquire"
    /\ IF claim[Of(i)] # "claimed"
       THEN /\ claim' = [claim EXCEPT ![Of(i)] = "claimed"]
            /\ Go(i, "submit")
            /\ UNCHANGED history
       ELSE Report(i) /\ UNCHANGED claim
    /\ UNCHANGED <<deployed, coordinator, snapshot, jobs, bounds>>

\* Faulty variant of SubmitJob: a claim is enough.
SubmitJobNever(i) ==
    /\ step[i] = "submit"
    /\ Go(i, "record")
    /\ UNCHANGED <<deployed, coordinator, snapshot, claim, jobs, history, bounds>>

\* batch.submit_job.
SubmitJob(i) ==
    /\ step[i] = "submit"
    /\ running' = [running EXCEPT ![Of(i)] = @ + 1]
    /\ Go(i, "record")
    /\ UNCHANGED <<deployed, coordinator, snapshot, claim, done, failed, history, bounds>>

\* record_submission notes the job in the claim, which nobody reads back.
RecordSubmission(i) ==
    /\ step[i] = "record"
    /\ Report(i)
    /\ UNCHANGED <<deployed, coordinator, snapshot, claim, jobs, bounds>>

\* An exception or a timeout.  Lambda starts the invocation again, or drops it.
Fail(i) ==
    /\ step[i] # "idle"
    /\ faults < MaxFaults
    /\ faults' = faults + 1
    /\ IF attempt[i] < MaxAttempts
       THEN /\ step' = [step EXCEPT ![i] = "coordinate"]
            /\ attempt' = [attempt EXCEPT ![i] = @ + 1]
            /\ run' = [run EXCEPT ![i] = NoRun]
            /\ UNCHANGED object
       ELSE End(i)
    /\ orphaned' = IF step[i] = "submit" THEN orphaned \cup {Of(i)} ELSE orphaned
    /\ UNCHANGED <<deployed, coordinator, snapshot, claim, jobs, handled, notifications, deploys>>

-----------------------------------------------------------------------------
\* The environment: Batch, the tables' clocks, deploys.

\* Faulty variant of JobSucceeds: the job ends without the last marker of the frame.
JobSucceedsUnmarked(w) ==
    /\ running[w] > 0
    /\ running' = [running EXCEPT ![w] = @ - 1]
    /\ UNCHANGED <<deployed, coordinator, snapshot, claim, done, failed, invocation, history, bounds>>

JobSucceeds(w) ==
    /\ running[w] > 0
    /\ running' = [running EXCEPT ![w] = @ - 1]
    /\ done' = done \cup {w}
    /\ UNCHANGED <<deployed, coordinator, snapshot, claim, failed, invocation, history, bounds>>

JobFails(w) ==
    /\ running[w] > 0
    /\ Cardinality(failed) < MaxJobFailures
    /\ running' = [running EXCEPT ![w] = @ - 1]
    /\ failed' = failed \cup {w}
    /\ UNCHANGED <<deployed, coordinator, snapshot, claim, done, invocation, history, bounds>>

ClaimExpires(w) ==
    /\ claim[w] = "claimed"
    /\ claim' = [claim EXCEPT ![w] = "expired"]
    /\ UNCHANGED <<deployed, coordinator, snapshot, jobs, invocation, history, bounds>>

\* The item of a cycle is 14 days old.
ItemExpires(c) ==
    /\ item[c] # NoRun
    /\ expired[c] < MaxExpiries
    /\ expired' = [expired EXCEPT ![c] = @ + 1]
    /\ item' = [item EXCEPT ![c] = NoRun]
    /\ UNCHANGED <<deployed, issued, snapshot, claim, jobs, invocation, history, bounds>>

Deploy ==
    /\ deploys < MaxDeploys
    /\ deploys' = deploys + 1
    /\ deployed' \in Configs \ {deployed}
    /\ UNCHANGED <<coordinator, snapshot, claim, jobs, invocation, history, notifications, faults>>

-----------------------------------------------------------------------------
Handle(i) ==
    \/ Coordinate(i)
    \/ EnsureSnapshot(i)
    \/ Plan(i)
    \/ RecordComplete(i)
    \/ Acquire(i)
    \/ SubmitJob(i)
    \/ RecordSubmission(i)

Job == \E w \in Work : JobSucceeds(w) \/ JobFails(w)

Next ==
    \/ \E i \in Invocations : Handle(i) \/ Fail(i) \/ \E o \in Object : Notify(i, o)
    \/ Job
    \/ \E w \in Work : ClaimExpires(w)
    \/ \E c \in Cycles : ItemExpires(c)
    \/ Deploy

Spec == Init /\ [][Next]_vars

\* Lambda runs an invocation until it ends, and Batch jobs as long as there are some.
Fairness ==
    /\ \A i \in Invocations : WF_vars(Handle(i))
    /\ WF_vars(Job)

FairSpec == Spec /\ Fairness

-----------------------------------------------------------------------------
\* Properties.

Steps == {"idle", "coordinate", "snapshot", "plan", "finish", "acquire", "submit", "record"}

\* Every variable has values of its type; an invocation knows its object while it works, and
\* its run from the coordinator on.
TypeOK ==
    /\ deployed \in Configs
    /\ item \in [Cycles -> RunIds \cup {NoRun}]
    /\ issued \in [Cycles -> RunIds \cup {NoRun}]
    /\ expired \in [Cycles -> 0..MaxExpiries]
    /\ snapshot \in [Cycles -> [RunIds -> Configs \cup {Nothing}]]
    /\ claim \in [Work -> {"none", "claimed", "expired", "complete"}]
    /\ running \in [Work -> Nat]
    /\ done \subseteq Work /\ failed \subseteq Work
    /\ handled \subseteq Work /\ orphaned \subseteq Work
    /\ step \in [Invocations -> Steps]
    /\ object \in [Invocations -> Object \cup {Nothing}]
    /\ attempt \in [Invocations -> 0..MaxAttempts]
    /\ run \in [Invocations -> RunIds \cup {NoRun}]
    /\ \A i \in Invocations :
        /\ step[i] = "idle" <=> object[i] = Nothing
        /\ step[i] \in {"idle", "coordinate"} <=> run[i] = NoRun
    /\ notifications \in 0..MaxNotifications /\ faults \in 0..MaxFaults /\ deploys \in 0..MaxDeploys

\* Whatever notifications of a cycle overlap or are repeated, one run is created for it, and
\* one more each time its item in the run coordinator expires (dynamo_coordinator.py:24-51).
OneRunPerCycle ==
    \A c \in Cycles : \A r \in RunIds : snapshot[c][r] # Nothing => r <= 1 + expired[c]

\* A job is for a frame that the configuration pinned for its run asks for, whatever was
\* deployed since the run was created (submit_gfs_source.py:72-108).
PinnedSelection ==
    \A w \in Work : running[w] > 0 \/ w \in done \cup failed =>
        /\ snapshot[w.cycle][w.run] # Nothing
        /\ Wanted(snapshot[w.cycle][w.run], w.frame)

\* A frame that was reported as in hand has a job, or has had one, or somebody is about to
\* submit it; the exceptions are the claims of invocations that died before they did.
NoSilentLoss ==
    \A w \in handled :
        \/ running[w] > 0
        \/ w \in done \cup failed \cup orphaned
        \/ \E i \in Invocations : step[i] = "submit" /\ Of(i) = w

\* In the end every frame in hand is complete, unless a job for it failed for good or its
\* claim was left behind by an invocation that died: nobody looks at these frames again
\* until another notification comes (submit_gfs_source.py:40).
FramesSettle == \A w \in Work : w \in handled ~> w \in done \cup failed \cup orphaned
=============================================================================
