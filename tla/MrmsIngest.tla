------------------------------ MODULE MrmsIngest ------------------------------
(***************************************************************************)
(* Submission of MRMS frames.  Messages about new objects wait in a queue;  *)
(* the ingest Lambda takes some of them at a time and works on them one     *)
(* after the other.  One that raises fails them all: the queue gives each   *)
(* of them out again, a limited number of times, and then sets it aside.    *)
(*                                                                         *)
(* A frame has one run, whose id is a function of the frame.  Its snapshot  *)
(* is only ever created: an invocation that meets a snapshot of another     *)
(* configuration raises (RunSnapshot has the protocol).  A message names    *)
(* the one product a frame needs (MRMS_PRODUCTS), which therefore exists.   *)
(***************************************************************************)
EXTENDS Naturals, FiniteSets

CONSTANTS
    Invocations,    \* executions of the Lambda that may overlap
    Frames,         \* announced timestamps
    Message,        \* messages; several may be about one frame
    Configs,        \* configurations that may be deployed
    FirstConfig,    \* the one deployed first
    HasWork,        \* whether workload.artifacts is not empty
    Nothing,        \* no configuration, no message
    BatchSize,      \* messages given out at a time
    MaxReceives,    \* maxReceiveCount
    MaxFaults,      \* bound: exceptions and timeouts of the Lambda
    MaxJobFailures, \* bound: jobs that fail for good
    MaxDeploys      \* bound: deploys

VARIABLES
    deployed,   \* the deployed configuration
    place,      \* where each message is
    receives,   \* how often it was given out
    batch,      \* the messages each invocation still has to work on, or has worked on
    todo,       \* those it still has to work on
    at,         \* the one it works on
    cfg,        \* the configuration it has loaded for it
    step,       \* what it does next
    snapshot,   \* the configuration pinned for the run of each frame
    claim, running, done, failed,   \* claims and jobs, as in GfsIngest
    orphaned,   \* frames claimed by an invocation that died before it submitted (history)
    faults, deploys

queue == <<place, receives>>
invocation == <<batch, todo, at, cfg, step>>
jobs == <<running, done, failed>>
bounds == <<faults, deploys>>
vars == <<deployed, queue, invocation, snapshot, claim, jobs, orphaned, bounds>>

Init ==
    /\ deployed = FirstConfig
    /\ place = [m \in Message |-> "source"]
    /\ receives = [m \in Message |-> 0]
    /\ batch = [i \in Invocations |-> {}]
    /\ todo = [i \in Invocations |-> {}]
    /\ at = [i \in Invocations |-> Nothing]
    /\ cfg = [i \in Invocations |-> Nothing]
    /\ step = [i \in Invocations |-> "idle"]
    /\ snapshot = [f \in Frames |-> Nothing]
    /\ claim = [f \in Frames |-> "none"]
    /\ running = [f \in Frames |-> 0]
    /\ done = {} /\ failed = {} /\ orphaned = {}
    /\ faults = 0 /\ deploys = 0

-----------------------------------------------------------------------------
\* The queue.

\* The notification of an object reaches the queue (the SNS subscription of trigger-mrms.tf).
Announce(m) ==
    /\ place[m] = "source"
    /\ place' = [place EXCEPT ![m] = "visible"]
    /\ UNCHANGED <<deployed, receives, invocation, snapshot, claim, jobs, orphaned, bounds>>

\* Some visible messages are given to an invocation, and to no other while it may run.
Receive(i, B) ==
    /\ step[i] = "idle"
    /\ Cardinality(B) \in 1..BatchSize
    /\ \A m \in B : place[m] = "visible" /\ receives[m] < MaxReceives
    /\ place' = [m \in Message |-> IF m \in B THEN "taken" ELSE place[m]]
    /\ receives' = [m \in Message |-> IF m \in B THEN receives[m] + 1 ELSE receives[m]]
    /\ batch' = [batch EXCEPT ![i] = B]
    /\ todo' = [todo EXCEPT ![i] = B]
    /\ step' = [step EXCEPT ![i] = "next"]
    /\ UNCHANGED <<deployed, at, cfg, snapshot, claim, jobs, orphaned, bounds>>

\* A message that was given out too often.
SetAside(m) ==
    /\ place[m] = "visible"
    /\ receives[m] = MaxReceives
    /\ place' = [place EXCEPT ![m] = "dead"]
    /\ UNCHANGED <<deployed, receives, invocation, snapshot, claim, jobs, orphaned, bounds>>

\* The visibility timeout of a message that no invocation works on any more.
Reappear(m) ==
    /\ place[m] = "taken"
    /\ \A i \in Invocations : m \notin batch[i]
    /\ place' = [place EXCEPT ![m] = "visible"]
    /\ UNCHANGED <<deployed, receives, invocation, snapshot, claim, jobs, orphaned, bounds>>

-----------------------------------------------------------------------------
\* The Lambda.

Go(i, next) == step' = [step EXCEPT ![i] = next] /\ UNCHANGED <<batch, todo, at, cfg>>

\* The message is done with, whatever its outcome was.
Finish(i) ==
    /\ step' = [step EXCEPT ![i] = "next"]
    /\ todo' = [todo EXCEPT ![i] = @ \ {at[i]}]
    /\ at' = [at EXCEPT ![i] = Nothing]
    /\ cfg' = [cfg EXCEPT ![i] = Nothing]
    /\ UNCHANGED batch

\* The invocation is over, and with it what it holds.
Leave(i) ==
    /\ step' = [step EXCEPT ![i] = "idle"]
    /\ batch' = [batch EXCEPT ![i] = {}]
    /\ todo' = [todo EXCEPT ![i] = {}]
    /\ at' = [at EXCEPT ![i] = Nothing]
    /\ cfg' = [cfg EXCEPT ![i] = Nothing]

\* load_product_config, for every message anew.
LoadConfig(i) ==
    /\ step[i] = "next"
    /\ \E m \in todo[i] : at' = [at EXCEPT ![i] = m]
    /\ cfg' = [cfg EXCEPT ![i] = deployed]
    /\ step' = [step EXCEPT ![i] = "snapshot"]
    /\ UNCHANGED <<deployed, queue, batch, todo, snapshot, claim, jobs, orphaned, bounds>>

\* ensure_run_snapshot: created, or the same, or an exception.
EnsureSnapshot(i) ==
    /\ step[i] = "snapshot"
    /\ LET f == at[i].frame IN
        /\ snapshot' = IF snapshot[f] = Nothing THEN [snapshot EXCEPT ![f] = cfg[i]] ELSE snapshot
        /\ CASE snapshot[f] \notin {Nothing, cfg[i]} -> Leave(i)
             [] snapshot[f] \in {Nothing, cfg[i]} /\ ~HasWork[cfg[i]] -> Finish(i)
             [] OTHER -> Go(i, "plan")
    /\ UNCHANGED <<deployed, queue, claim, jobs, orphaned, bounds>>

\* plan_run: the markers first, then the claim.
Plan(i) ==
    /\ step[i] = "plan"
    /\ LET f == at[i].frame IN
        CASE f \in done -> Go(i, "finish")
          [] f \notin done /\ claim[f] = "claimed" -> Finish(i)
          [] OTHER -> Go(i, "acquire")
    /\ UNCHANGED <<deployed, queue, snapshot, claim, jobs, orphaned, bounds>>

RecordComplete(i) ==
    /\ step[i] = "finish"
    /\ claim' = [claim EXCEPT ![at[i].frame] = "complete"]
    /\ Finish(i)
    /\ UNCHANGED <<deployed, queue, snapshot, jobs, orphaned, bounds>>

Acquire(i) ==
    /\ step[i] = "acquire"
    /\ LET f == at[i].frame IN
        IF claim[f] # "claimed"
        THEN claim' = [claim EXCEPT ![f] = "claimed"] /\ Go(i, "submit")
        ELSE Finish(i) /\ UNCHANGED claim
    /\ UNCHANGED <<deployed, queue, snapshot, jobs, orphaned, bounds>>

SubmitJob(i) ==
    /\ step[i] = "submit"
    /\ running' = [running EXCEPT ![at[i].frame] = @ + 1]
    /\ Go(i, "record")
    /\ UNCHANGED <<deployed, queue, snapshot, claim, done, failed, orphaned, bounds>>

RecordSubmission(i) ==
    /\ step[i] = "record"
    /\ Finish(i)
    /\ UNCHANGED <<deployed, queue, snapshot, claim, jobs, orphaned, bounds>>

\* Faulty variant of DeleteBatch: the messages go as soon as one has been worked on.
DeleteBatchEarly(i) ==
    /\ step[i] = "next"
    /\ todo[i] # batch[i] \/ todo[i] = {}
    /\ place' = [m \in Message |-> IF m \in batch[i] THEN "deleted" ELSE place[m]]
    /\ Leave(i)
    /\ UNCHANGED <<deployed, receives, snapshot, claim, jobs, orphaned, bounds>>

\* The handler returns: the queue deletes all its messages.
DeleteBatch(i) ==
    /\ step[i] = "next"
    /\ todo[i] = {}
    /\ place' = [m \in Message |-> IF m \in batch[i] THEN "deleted" ELSE place[m]]
    /\ Leave(i)
    /\ UNCHANGED <<deployed, receives, snapshot, claim, jobs, orphaned, bounds>>

\* An exception or a timeout: the messages stay in the queue, hidden for a while.
Fail(i) ==
    /\ step[i] # "idle"
    /\ faults < MaxFaults
    /\ faults' = faults + 1
    /\ orphaned' = IF step[i] = "submit" THEN orphaned \cup {at[i].frame} ELSE orphaned
    /\ Leave(i)
    /\ UNCHANGED <<deployed, queue, snapshot, claim, jobs, deploys>>

-----------------------------------------------------------------------------
JobSucceeds(f) ==
    /\ running[f] > 0
    /\ running' = [running EXCEPT ![f] = @ - 1]
    /\ done' = done \cup {f}
    /\ UNCHANGED <<deployed, queue, invocation, snapshot, claim, failed, orphaned, bounds>>

JobFails(f) ==
    /\ running[f] > 0
    /\ Cardinality(failed) < MaxJobFailures
    /\ running' = [running EXCEPT ![f] = @ - 1]
    /\ failed' = failed \cup {f}
    /\ UNCHANGED <<deployed, queue, invocation, snapshot, claim, done, orphaned, bounds>>

ClaimExpires(f) ==
    /\ claim[f] = "claimed"
    /\ claim' = [claim EXCEPT ![f] = "expired"]
    /\ UNCHANGED <<deployed, queue, invocation, snapshot, jobs, orphaned, bounds>>

Deploy ==
    /\ deploys < MaxDeploys
    /\ deploys' = deploys + 1
    /\ deployed' \in Configs \ {deployed}
    /\ UNCHANGED <<queue, invocation, snapshot, claim, jobs, orphaned, faults>>

-----------------------------------------------------------------------------
Handle(i) ==
    \/ LoadConfig(i)
    \/ EnsureSnapshot(i)
    \/ Plan(i)
    \/ RecordComplete(i)
    \/ Acquire(i)
    \/ SubmitJob(i)
    \/ RecordSubmission(i)
    \/ DeleteBatch(i)

Next ==
    \/ \E i \in Invocations : Handle(i) \/ Fail(i) \/ \E B \in SUBSET Message : Receive(i, B)
    \/ \E m \in Message : Announce(m) \/ SetAside(m) \/ Reappear(m)
    \/ \E f \in Frames : JobSucceeds(f) \/ JobFails(f) \/ ClaimExpires(f)
    \/ Deploy

Spec == Init /\ [][Next]_vars

-----------------------------------------------------------------------------
\* Properties.

\* The frame of a deleted message is not wanted, or it has a job, or has had one, or another
\* invocation is about to submit it, or left its claim behind when it died: no message
\* disappears with the batch it was given out with (mrms_ingest_lambda.py:122-142).
DeletedMessagesAreInHand ==
    \A m \in Message : place[m] = "deleted" =>
        \/ snapshot[m.frame] # Nothing /\ ~HasWork[snapshot[m.frame]]
        \/ running[m.frame] > 0
        \/ m.frame \in done \cup failed \cup orphaned
        \/ \E i \in Invocations : step[i] = "submit" /\ at[i].frame = m.frame
=============================================================================
