------------------------------ MODULE PublicView ------------------------------
(***************************************************************************)
(* What clients see of the published forecast runs: the current manifest of *)
(* each cycle, the latest manifest of each dataset, and the index that the  *)
(* frontend reads first.  Scheduled passes, whose invocations may overlap,  *)
(* and operators refresh these views; none of the objects is written with   *)
(* a condition.                                                             *)
(*                                                                         *)
(* Every request to the object store is one step.  A manifest is the cycle  *)
(* and the run it belongs to: the revision and the manifest of a published  *)
(* run are final (see PublishRun).  The index is what it holds as latest    *)
(* manifest of each dataset; its layers follow from them.                   *)
(***************************************************************************)
EXTENDS Naturals, FiniteSets

CONSTANTS
    Publishers,    \* processes that refresh public views
    NumDatasets,   \* datasets with forecast cycles, in the order of a pass
    NumCycles,     \* cycles within the scan of a pass; a later one is newer
    NumRuns,       \* runs submitted for a cycle, in the order of their ids
    Nothing,       \* an object, or an entry of the index, that does not exist
    Unread,        \* an entry of the index not read yet
    MaxFaults      \* bound: publishers that die half way

ASSUME SizeAssumption ==
    NumDatasets \in Nat \ {0} /\ NumCycles \in Nat \ {0} /\ NumRuns \in Nat \ {0}
ASSUME BoundsAssumption == MaxFaults \in Nat

Datasets == 1..NumDatasets
Cycles == 1..NumCycles
Runs == 1..NumRuns
Manifest == [cycle : Cycles, run : Runs]
Target == [dataset : Datasets, cycle : Cycles, run : Runs]

ASSUME NothingAssumption ==
    Nothing \notin Manifest /\ Unread \notin Manifest /\ Unread # Nothing

VARIABLES
    published,   \* the published runs of each dataset
    current,     \* manifests/<dataset>/cycles/<cycle>/current.json
    latest,      \* manifests/<dataset>/latest.json
    index,       \* manifests/index.json: the latest manifest of each dataset
    pc,          \* what each publisher does next
    alone,       \* it is an operator, and stops after its target
    at,          \* the target it is working on
    found,       \* the latest manifest it has read
    entries,     \* what it has read for the index
    faults

view == <<current, latest, index>>
locals == <<alone, at, found, entries>>
vars == <<published, view, pc, locals, faults>>

Phases == {"idle", "target", "current", "read_latest", "write_latest", "read_index",
           "build", "write_index"}
First == [dataset |-> 1, cycle |-> NumCycles, run |-> 1]
NoEntries == [d \in Datasets |-> Unread]

Init ==
    /\ published = [d \in Datasets |-> {}]
    /\ current = [d \in Datasets |-> [c \in Cycles |-> Nothing]]
    /\ latest = [d \in Datasets |-> Nothing]
    /\ index = [d \in Datasets |-> Nothing]
    /\ pc = [p \in Publishers |-> "idle"]
    /\ alone = [p \in Publishers |-> FALSE]
    /\ at = [p \in Publishers |-> First]
    /\ found = [p \in Publishers |-> Nothing]
    /\ entries = [p \in Publishers |-> NoEntries]
    /\ faults = 0

-----------------------------------------------------------------------------
\* Helpers.

Goto(p, phase) == pc' = [pc EXCEPT ![p] = phase]

\* Publisher p ends and drops its local state.
End(p) ==
    /\ Goto(p, "idle")
    /\ alone' = [alone EXCEPT ![p] = FALSE]
    /\ at' = [at EXCEPT ![p] = First]
    /\ found' = [found EXCEPT ![p] = Nothing]
    /\ entries' = [entries EXCEPT ![p] = NoEntries]

Content(t) == [cycle |-> t.cycle, run |-> t.run]

\* The targets of a pass: the datasets in turn, cycles newest first, runs by their ids.
Last == [dataset |-> NumDatasets, cycle |-> 1, run |-> NumRuns]
IsLast(t) == t.dataset = NumDatasets /\ t.cycle = 1 /\ t.run = NumRuns

\* Faulty variant of After: a run without a successor ends the cycle, not the dataset.
AfterCycle(t) ==
    IF t.run < NumRuns THEN [t EXCEPT !.run = t.run + 1]
    ELSE [t EXCEPT !.cycle = t.cycle - 1, !.run = 1]

After(t) ==
    IF t.run < NumRuns THEN [t EXCEPT !.run = t.run + 1]
    ELSE IF t.cycle > 1 THEN [t EXCEPT !.cycle = t.cycle - 1, !.run = 1]
    ELSE [First EXCEPT !.dataset = t.dataset + 1]

\* The target is done with: a pass goes on to the next one.
NextTarget(p) ==
    IF alone[p] \/ IsLast(at[p])
    THEN End(p)
    ELSE /\ Goto(p, "target")
         /\ at' = [at EXCEPT ![p] = After(at[p])]
         /\ found' = [found EXCEPT ![p] = Nothing]
         /\ entries' = [entries EXCEPT ![p] = NoEntries]
         /\ UNCHANGED alone

-----------------------------------------------------------------------------
\* Entry points: a pass of the schedule, publish-run of an operator.

Begin(p, t, operator) ==
    /\ pc[p] = "idle"
    /\ Goto(p, "target")
    /\ at' = [at EXCEPT ![p] = t]
    /\ alone' = [alone EXCEPT ![p] = operator]
    /\ UNCHANGED <<published, view, found, entries, faults>>

BeginPass(p) == Begin(p, First, FALSE)
BeginOperator(p) == \E t \in Target : Begin(p, t, TRUE)

\* A rolling dataset, whose latest manifest is published (see RollingObserved), has the index
\* rebuilt, whatever the index shows of the forecasts.  No target follows.
BeginRolling(p) ==
    /\ pc[p] = "idle"
    /\ Goto(p, "build")
    /\ at' = [at EXCEPT ![p] = Last]
    /\ UNCHANGED <<published, view, alone, found, entries, faults>>

\* Faulty variant of Ready: whether the run was published is not looked at.
ReadyAlways(t) == TRUE

\* The run of the target is published, by this publisher now or by another one before.
Ready(t) == Content(t) \in published[t.dataset]

\* Faulty variant of VisitTarget: a run that is not ready ends the pass.
VisitTargetEnds(p) ==
    /\ pc[p] = "target"
    /\ IF Ready(at[p]) THEN Goto(p, "current") /\ UNCHANGED locals ELSE End(p)
    /\ UNCHANGED <<published, view, faults>>

\* A run that is not ready is passed over; otherwise the views are refreshed.
VisitTarget(p) ==
    /\ pc[p] = "target"
    /\ IF Ready(at[p]) THEN Goto(p, "current") /\ UNCHANGED locals ELSE NextTarget(p)
    /\ UNCHANGED <<published, view, faults>>

WriteCurrent(p) ==
    /\ pc[p] = "current"
    /\ Goto(p, "read_latest")
    /\ current' = [current EXCEPT ![at[p].dataset][at[p].cycle] = Content(at[p])]
    /\ UNCHANGED <<published, latest, index, locals, faults>>

-----------------------------------------------------------------------------
\* _promote_latest_if_current.

Older(m, n) == m # Nothing /\ n # Nothing /\ m.cycle < n.cycle

\* Faulty variant of ReadLatest: an older cycle is promoted as well.
ReadLatestAny(p) ==
    LET m == Content(at[p])
        l == latest[at[p].dataset]
    IN  /\ pc[p] = "read_latest"
        /\ \/ l = m /\ Goto(p, "read_index") /\ UNCHANGED locals
           \/ l # m /\ Goto(p, "write_latest")
                    /\ found' = [found EXCEPT ![p] = l] /\ UNCHANGED <<alone, at, entries>>
        /\ UNCHANGED <<published, view, faults>>

ReadLatest(p) ==
    LET m == Content(at[p])
        l == latest[at[p].dataset]
    IN  /\ pc[p] = "read_latest"
        /\ \/ Older(m, l) /\ NextTarget(p)
           \/ l = m /\ Goto(p, "read_index") /\ UNCHANGED locals
           \/ /\ ~Older(m, l) /\ l # m
              /\ Goto(p, "write_latest")
              /\ found' = [found EXCEPT ![p] = l]
              /\ UNCHANGED <<alone, at, entries>>
        /\ UNCHANGED <<published, view, faults>>

WriteLatest(p) ==
    /\ pc[p] = "write_latest"
    /\ Goto(p, "build")
    /\ latest' = [latest EXCEPT ![at[p].dataset] = Content(at[p])]
    /\ found' = [found EXCEPT ![p] = Nothing]
    /\ UNCHANGED <<published, current, index, alone, at, entries, faults>>

-----------------------------------------------------------------------------
\* _publish_index_if_needed and publish_index.

\* The latest manifest is in place; the index is left alone if it shows it.
ReadIndex(p) ==
    /\ pc[p] = "read_index"
    /\ IF index[at[p].dataset] = Content(at[p])
       THEN NextTarget(p)
       ELSE Goto(p, "build") /\ UNCHANGED locals
    /\ UNCHANGED <<published, view, faults>>

\* build_index reads the latest manifests one after the other ...
ReadEntry(p, d) ==
    /\ pc[p] = "build"
    /\ \A e \in Datasets : entries[p][e] = Unread <=> e >= d
    /\ entries' = [entries EXCEPT ![p][d] = latest[d]]
    /\ Goto(p, IF d = NumDatasets THEN "write_index" ELSE "build")
    /\ UNCHANGED <<published, view, alone, at, found, faults>>

\* ... and the index is overwritten.
WriteIndex(p) ==
    /\ pc[p] = "write_index"
    /\ NextTarget(p)
    /\ index' = entries[p]
    /\ UNCHANGED <<published, current, latest, faults>>

-----------------------------------------------------------------------------
\* The environment.

\* A run is published (see PublishRun).
Publish(d) ==
    /\ \E m \in Manifest \ published[d] : published' = [published EXCEPT ![d] = @ \cup {m}]
    /\ UNCHANGED <<view, pc, locals, faults>>

Crash(p) ==
    /\ pc[p] # "idle"
    /\ faults < MaxFaults
    /\ faults' = faults + 1
    /\ End(p)
    /\ UNCHANGED <<published, view>>

\* A request fails: the handler reports it and goes on with the next target.
Fail(p) ==
    /\ pc[p] # "idle"
    /\ faults < MaxFaults
    /\ faults' = faults + 1
    /\ NextTarget(p)
    /\ UNCHANGED <<published, view>>

Step(p) ==
    \/ VisitTarget(p) \/ WriteCurrent(p) \/ ReadLatest(p) \/ WriteLatest(p)
    \/ ReadIndex(p) \/ (\E d \in Datasets : ReadEntry(p, d)) \/ WriteIndex(p)

Next ==
    \/ \E p \in Publishers : \/ BeginPass(p) \/ BeginOperator(p) \/ BeginRolling(p)
                            \/ Step(p) \/ Crash(p) \/ Fail(p)
    \/ \E d \in Datasets : Publish(d)

Spec == Init /\ [][Next]_vars

\* The schedule starts a pass every ten minutes, whatever operators do in between, and a
\* publisher that runs makes progress.
Fairness == \A p \in Publishers : SF_vars(BeginPass(p)) /\ WF_vars(Step(p))

FairSpec == Spec /\ Fairness

-----------------------------------------------------------------------------
\* Properties.

StoreOK ==
    /\ published \in [Datasets -> SUBSET Manifest]
    /\ current \in [Datasets -> [Cycles -> Manifest \cup {Nothing}]]
    /\ latest \in [Datasets -> Manifest \cup {Nothing}]
    /\ index \in [Datasets -> Manifest \cup {Nothing}]

LocalsOK ==
    /\ pc \in [Publishers -> Phases]
    /\ alone \in [Publishers -> BOOLEAN]
    /\ at \in [Publishers -> Target]
    /\ found \in [Publishers -> Manifest \cup {Nothing}]
    /\ entries \in [Publishers -> [Datasets -> Manifest \cup {Nothing, Unread}]]

TypeOK == StoreOK /\ LocalsOK /\ faults \in 0..MaxFaults

\* Whatever overlaps and faults, clients are led to published runs only, and find the
\* current manifest of the cycle they are led to.
Exposed(d) == {latest[d], index[d]} \ {Nothing}
ViewsArePublished ==
    \A d \in Datasets, m \in Manifest :
        m \in Exposed(d) => m \in published[d] /\ current[d][m.cycle] \in published[d]

\* The latest manifest goes back to an older cycle only by a lost update: the publisher
\* that writes it has read latest before another one wrote it.
LatestRegressesByLostUpdate ==
    [][\A d \in Datasets : Older(latest'[d], latest[d]) =>
          \E p \in Publishers : pc[p] = "write_latest" /\ at[p].dataset = d
                                /\ found[p] # latest[d]]_vars

\* Views have settled when they show the newest published cycle everywhere and no
\* publisher is at work on something older.  Then further passes and operators change
\* neither the latest manifests nor the index, until another run is published.
OneRunPerCycle ==
    \A d \in Datasets : \A m, n \in published[d] : m.cycle = n.cycle => m = n

IsNewest(d, m) ==
    IF published[d] = {} THEN m = Nothing
    ELSE m \in published[d] /\ \A n \in published[d] : n.cycle <= m.cycle

UpToDate == \A d \in Datasets : IsNewest(d, latest[d]) /\ index[d] = latest[d]

Harmless(p) ==
    /\ pc[p] = "write_latest" => latest[at[p].dataset] = Content(at[p])
    /\ \A d \in Datasets : entries[p][d] \in {latest[d], Unread}

Settled == OneRunPerCycle /\ UpToDate /\ \A p \in Publishers : Harmless(p)
SettledViewsStay ==
    [][Settled /\ UNCHANGED published => Settled' /\ UNCHANGED <<latest, index>>]_vars

\* With one run per cycle the views catch up with what is published in the end, and stay:
\* no lost update, stale index, crash, failure or overlap lasts.
ViewsCatchUp == []OneRunPerCycle => <>[]UpToDate

\* "latest manifest / current manifest: mutable public aliases that point consumers at
\* the selected run" (config/README.md:37): if only the schedule refreshes the views, one
\* run of a cycle is selected in the end.
ScheduleSelectsOneRun ==
    [](\A p \in Publishers : ~alone[p]) =>
        \A d \in Datasets : \E m \in Manifest \cup {Nothing} : <>[](latest[d] = m)
=============================================================================
