----------------------------- MODULE Inspection -----------------------------
(* The status document and the health the backend derives from it.           *)
(* refresh_status takes the time, inspects one dataset (freshness.py) with    *)
(* reads spread over many requests while runs are written, and overwrites     *)
(* status.json; health.py formats that document.  One dataset, one run per    *)
(* cycle; cycle c starts at hour c * Period.  Lags are in tenths of an hour,   *)
(* which makes the 90th percentile of the code exact.                         *)
EXTENDS Integers, FiniteSets, FiniteSetsExt, Sequences, SequencesExt

CONSTANTS
    Cycles,         \* cycles that may have a run
    Frames,         \* frames (naturals, sorted as their ids)
    Workloads,      \* deployed configurations
    FramesOf,       \* Workloads -> sets of frames
    FirstWorkload,
    Period,         \* hours between cycles
    StatusCount, HistoryCount,
    Fallback, Cushion, MinLag, MaxLag, MaxReasonable,  \* hours
    Recent,         \* recent_progress_hours
    SampleLimit,    \* markers parsed per run
    FirstHours,     \* hours at which the run of the first cycle may have been published
    MaxHour, MaxUpsets,     \* bounds: hours; deploys, faults and bad markers together
    None

\* The bound on hours leaves no cycle out that an inspection could expect.
ASSUME PolicyAssumption ==
    /\ Cycles \subseteq Nat /\ Cycles # {} /\ IsFiniteSet(Cycles) /\ Frames \subseteq Nat
    /\ FirstWorkload \in Workloads /\ FramesOf \in [Workloads -> SUBSET Frames]
    /\ Workloads \cap {"none", "documents"} = {} /\ None \notin Cycles \cup 0..MaxHour
    /\ {Period, StatusCount, HistoryCount} \subseteq Nat \ {0}
    /\ {Fallback, Cushion, MinLag, MaxLag, MaxReasonable, Recent, SampleLimit} \subseteq Nat
    /\ MinLag <= Fallback /\ Fallback <= MaxLag
    /\ (StatusCount - 1) * Period >= MaxLag
    /\ {MaxHour, MaxUpsets} \subseteq Nat
    /\ FirstHours \subseteq Min(Cycles) * Period..MaxHour
    /\ \A c \in Min(Cycles)..MaxHour : c * Period + MinLag <= MaxHour => c \in Cycles

VARIABLES
    clock,
    deployed,       \* the deployed workload
    run,            \* cycle -> "none", "documents" (no run.json yet) or the pinned workload
    marks,          \* cycle -> frame -> "absent", "good" or "bad" (does not parse)
    markedAt,       \* cycle -> hour of the newest marker
    report,         \* cycle -> validation report: "missing", "failed" or "passed"
    publishedAt,    \* cycle -> hour in the publication marker and the manifest, or None
    current,        \* cycles with a current manifest
    latest,         \* cycle of the latest manifest, or None
    pass,           \* the inspection under way
    document,       \* status.json, or None
    upsets          \* deploys, faults and bad markers so far

world == <<deployed, run, marks, markedAt, report, publishedAt, current, latest>>
vars == <<clock, world, pass, document, upsets>>

FirstCycle == Min(Cycles)
Snapshots == {"none", "documents"}

\* Faulty variant of Pinned: a run that pinned another configuration counts as not pinned.
PinnedDeployed(c) == run[c] = deployed

\* run.json exists, and says what the run pinned.
Pinned(c) == run[c] \notin Snapshots

\* Something is known of x.
Noted(known, x, value) == [y \in DOMAIN known \cup {x} |-> IF y = x THEN value ELSE known[y]]

Idle == [step |-> "idle", now |-> 0, workload |-> FirstWorkload, history |-> {},
         latest |-> None, todo |-> {}, progress |-> <<>>, verdict |-> None,
         facts |-> <<>>, faulted |-> FALSE]
At(step) == pass.step = step

\* Deploys, failed reads and markers that do not parse are rationed together.
Upset(kind) ==
    /\ upsets.deploys + upsets.faults + upsets.bad < MaxUpsets
    /\ upsets' = [upsets EXCEPT ![kind] = @ + 1]

-----------------------------------------------------------------------------
\* Cycles and lags.

\* latest_synoptic_cycles: the newest StatusCount cycles that have started.
LatestCycles(now) == {(now \div Period) - k : k \in 0..(StatusCount - 1)}

\* expected_synoptic_cycle: the newest whose grace has passed, else the oldest of them.
ExpectedCycle(now, grace) ==
    LET due == {c \in LatestCycles(now) : 10 * c * Period + grace <= 10 * now}
    IN  IF due = {} THEN Min(LatestCycles(now)) ELSE Max(due)

LagOf(c) == publishedAt[c] - c * Period
Lagged(cycles) == {c \in cycles : LagOf(c) \in 0..MaxReasonable}

\* sorted(lags)[i]: the least lag that more than i of the cycles do not exceed.
SortedLag(lagged, i) ==
    Min({lag \in {LagOf(c) : c \in lagged} : Cardinality({c \in lagged : LagOf(c) <= lag}) > i})

\* _percentile(lags, 0.9): linear between two neighbours; in tenths.
Percentile90(lagged) ==
    LET position == (Cardinality(lagged) - 1) * 9
        lower == position \div 10
        weight == position % 10
        upper == IF weight = 0 THEN lower ELSE lower + 1
    IN  SortedLag(lagged, lower) * (10 - weight) + SortedLag(lagged, upper) * weight

\* estimate_publish_lag, of the manifests of some cycles.
GraceUncapped(cycles) ==
    IF Lagged(cycles) = {} THEN 10 * Fallback
    ELSE Max({10 * MinLag, Percentile90(Lagged(cycles)) + 10 * Cushion})
GraceUnfloored(cycles) ==
    IF Lagged(cycles) = {} THEN 10 * Fallback
    ELSE Min({10 * MaxLag, Percentile90(Lagged(cycles)) + 10 * Cushion})
Grace(cycles) ==
    IF Lagged(cycles) = {} THEN 10 * Fallback
    ELSE Max({10 * MinLag, Min({10 * MaxLag, Percentile90(Lagged(cycles)) + 10 * Cushion})})

-----------------------------------------------------------------------------
\* Progress of the run of a cycle (artifacts/status.py), judged by a workload.

Found(c, workload) == {f \in FramesOf[workload] : marks[c][f] # "absent"}
Sample(found) == {f \in found : Cardinality({g \in found : g < f}) < SampleLimit}

LastProgress(c) == IF publishedAt[c] # None THEN publishedAt[c] ELSE markedAt[c]

Progress(c, workload, manifest) ==
    LET found == Found(c, workload)
        invalid == \E f \in Sample(found) : marks[c][f] = "bad"
    IN  [ run |-> run[c] # "none",
          found |-> found # {},
          invalid |-> invalid,
          complete |-> found = FramesOf[workload] /\ ~invalid,
          published |-> publishedAt[c] # None,
          manifest |-> manifest,
          at |-> LastProgress(c) ]

NoProgress == [run |-> FALSE, found |-> FALSE, invalid |-> FALSE, complete |-> FALSE,
               published |-> FALSE, manifest |-> FALSE, at |-> None]
Evidence(p) == p.found \/ p.published \/ p.manifest

\* The workload by which completeness is judged: freshness asks the deployed
\* configuration, lifecycle the one that the run pinned.
LifecycleWorkload(c) == run[c]

-----------------------------------------------------------------------------
\* Lifecycle of the run of one cycle: what each read finds, in the order of the
\* reads, and the stage all of them make.

Reads == <<"snapshot", "markers", "report", "publication", "current", "latest">>

Fact(read, c) ==
    CASE read = "snapshot" -> IF Pinned(c) THEN "valid" ELSE "missing"
      [] read = "markers" ->
            IF ~Pinned(c) THEN "pending"
            ELSE LET p == Progress(c, LifecycleWorkload(c), FALSE)
                 IN  IF p.invalid THEN "invalid" ELSE IF p.complete THEN "complete" ELSE "pending"
      [] read = "report" -> report[c]
      [] read = "publication" -> IF publishedAt[c] = None THEN "missing" ELSE "present"
      [] read = "current" -> IF c \in current THEN "matches" ELSE "missing"
      [] read = "latest" -> IF latest = None THEN "missing"
                            ELSE IF latest = c THEN "matches" ELSE "different"

\* The first that applies.
Stage(facts) ==
    IF facts.snapshot = "missing" THEN "missing_snapshot"
    ELSE IF facts.snapshot = "invalid" THEN "invalid_snapshot"
    ELSE IF facts.markers = "invalid" THEN "invalid_markers"
    ELSE IF facts.markers = "pending" THEN "pending_frames"
    ELSE IF facts.report = "missing" THEN "ready_for_validation"
    ELSE IF facts.report # "passed" THEN "validation_failed"
    ELSE IF facts.publication # "present" THEN "ready_for_publish"
    ELSE IF facts.current # "matches" \/ facts.latest # "matches"
    THEN "published_with_manifest_drift"
    ELSE "published"

-----------------------------------------------------------------------------
\* The inspection, one request at a time.

PassStep(p) == pass' = p /\ UNCHANGED <<clock, world, document>>

\* Freshness is settled: lifecycle follows for the run of the target, if there is one.
Verdict(p, status, target, hasRun) ==
    [p EXCEPT !.verdict = [status |-> status, cycle |-> target],
              !.step = IF hasRun THEN "snapshot" ELSE "write"]

\* refresh_status: the time and the deployed configuration are those of the beginning.
Begin ==
    /\ At("idle")
    /\ PassStep([Idle EXCEPT !.step = "fast", !.now = clock, !.workload = deployed])
    /\ UNCHANGED upsets

\* The newest HistoryCount current manifests.
History == {c \in current : Cardinality({d \in current : d > c}) < HistoryCount}

\* What a read of the latest manifest returns: an error counts as no manifest.
LatestRead(value, faulted) ==
    \/ value = latest /\ ~faulted /\ UNCHANGED upsets
    \/ /\ value = None /\ faulted
       /\ Upset("faults")

FastFresh(p, value) == value # None /\ value >= ExpectedCycle(p.now, Grace({value}))

\* _read_latest_manifest_freshness: fresh by the lag of the latest manifest alone.
ReadFast ==
    /\ At("fast")
    /\ \E value \in {latest, None}, faulted \in BOOLEAN :
          /\ LatestRead(value, faulted)
          /\ LET p == [pass EXCEPT !.faulted = @ \/ faulted]
             IN  PassStep(IF FastFresh(pass, value) THEN Verdict(p, "fresh", value, TRUE)
                          ELSE [p EXCEPT !.step = "history"])

\* A manifest that cannot be read is left out of the history.
ReadHistory ==
    /\ At("history")
    /\ \/ PassStep([pass EXCEPT !.step = "published", !.history = History]) /\ UNCHANGED upsets
       \/ /\ Upset("faults")
          /\ \E c \in History :
                PassStep([pass EXCEPT !.step = "published", !.history = History \ {c},
                                      !.faulted = TRUE])

Expected(p) == ExpectedCycle(p.now, Grace(p.history))

\* _status_candidate_cycles
Candidates(p, value) ==
    {Expected(p)} \cup {c \in LatestCycles(p.now) : c >= Expected(p)}
        \cup {c \in {value} \ {None} : c >= Expected(p)}

ReadLatest ==
    /\ At("published")
    /\ \E value \in {latest, None}, faulted \in BOOLEAN :
          /\ LatestRead(value, faulted)
          /\ PassStep([pass EXCEPT !.step = "progress", !.latest = value,
                                   !.todo = Candidates(pass, value), !.faulted = @ \/ faulted])

\* read_cycle_progress of the oldest candidate left.  That a cycle has a manifest is
\* known from the history and the latest manifest read before.
ReadProgress ==
    /\ At("progress") /\ pass.todo # {}
    /\ LET c == Min(pass.todo)
           manifest == c \in pass.history \/ c = pass.latest
           read == IF c \in Cycles THEN Progress(c, pass.workload, manifest) ELSE NoProgress
       IN  PassStep([pass EXCEPT !.todo = @ \ {c},
                                 !.progress = Noted(@, c, read)])
    /\ UNCHANGED upsets

Observed(p) == {c \in DOMAIN p.progress : Evidence(p.progress[c])}

\* _select_target_cycle
Target(p) == Max({Expected(p)} \cup {c \in Observed(p) \cup ({p.latest} \ {None}) : c >= Expected(p)})

\* _classify_snapshot
StatusOf(p) ==
    LET q == p.progress[Target(p)]
        satisfied == p.latest # None /\ p.latest >= Expected(p)
    IN  CASE q.invalid -> "incomplete"
          [] ~q.invalid /\ satisfied ->
                IF p.progress[p.latest].complete THEN "fresh" ELSE "incomplete"
          [] ~q.invalid /\ ~satisfied /\ q.complete /\ ~(q.published /\ q.manifest) -> "incomplete"
          [] ~q.invalid /\ ~satisfied /\ ~(q.complete /\ ~(q.published /\ q.manifest)) /\ q.found ->
                IF p.now - q.at <= Recent THEN "building" ELSE "stalled"
          [] OTHER -> IF p.latest = None THEN "unavailable" ELSE "stale"

Classify ==
    /\ At("progress") /\ pass.todo = {}
    /\ PassStep(Verdict(pass, StatusOf(pass), Target(pass), pass.progress[Target(pass)].run))
    /\ UNCHANGED upsets

NextRead(read) ==
    LET i == CHOOSE j \in 1..Len(Reads) : Reads[j] = read
    IN  IF i = Len(Reads) THEN "write" ELSE Reads[i + 1]

\* inspect_run_lifecycle: the next object of the run.  Without run.json nothing else
\* counts.  An object that cannot be read is invalid; when existence or the markers cannot
\* be asked, the document has no lifecycle.
ReadLifecycle ==
    /\ pass.step \in Range(Reads)
    /\ LET fact == Fact(pass.step, pass.verdict.cycle)
           absent == At("snapshot") /\ fact = "missing"
       IN  \/ /\ PassStep([pass EXCEPT !.step = IF absent THEN "write" ELSE NextRead(@),
                                        !.facts = Noted(@, pass.step, fact)])
              /\ UNCHANGED upsets
           \/
              /\ Upset("faults")
              /\ \/ PassStep([pass EXCEPT !.step = "write", !.facts = <<>>, !.faulted = TRUE])
                 \/ /\ ~At("markers") /\ ~absent
                    /\ PassStep([pass EXCEPT !.step = NextRead(@), !.faulted = TRUE,
                                             !.facts = Noted(@, pass.step, "invalid")])

\* An error of any other request: the entry of the dataset says unavailable.
FailInspection ==
    /\ pass.step \in {"history", "progress", "snapshot"}
    /\ PassStep([pass EXCEPT !.step = "write", !.faulted = TRUE,
                             !.verdict = [status |-> "unavailable", cycle |-> None]])
    /\ Upset("faults")

WriteDocument ==
    /\ At("write")
    /\ document' = [ status |-> pass.verdict.status, now |-> pass.now, cycle |-> pass.verdict.cycle,
                     stage |-> IF pass.facts = <<>> THEN None ELSE Stage(pass.facts),
                     workload |-> pass.workload, faulted |-> pass.faulted ]
    /\ pass' = Idle
    /\ UNCHANGED <<clock, world, upsets>>

\* The publisher ends before it has written the document.
CrashKeeps ==
    /\ ~At("idle")
    /\ PassStep([pass EXCEPT !.step = "idle"])
    /\ UNCHANGED upsets
Crash ==
    /\ ~At("idle")
    /\ PassStep(Idle)
    /\ UNCHANGED upsets

Inspect == Begin \/ ReadFast \/ ReadHistory \/ ReadLatest \/ ReadProgress \/ Classify
           \/ ReadLifecycle \/ FailInspection \/ WriteDocument \/ Crash

-----------------------------------------------------------------------------
\* The runs, as the other modules have them: documents, markers, validation,
\* publication, views.

Write == UNCHANGED <<clock, pass, document>>

CreateDocuments(c) ==
    /\ run[c] = "none" /\ clock >= c * Period
    /\ run' = [run EXCEPT ![c] = "documents"]
    /\ Write /\ UNCHANGED <<deployed, marks, markedAt, report, publishedAt, current, latest, upsets>>

PinRun(c) ==
    /\ run[c] = "documents"
    /\ run' = [run EXCEPT ![c] = deployed]
    /\ Write /\ UNCHANGED <<deployed, marks, markedAt, report, publishedAt, current, latest, upsets>>

\* A frame worker writes a marker, or writes again one that does not parse.
Mark(c, f) ==
    /\ Pinned(c) /\ f \in FramesOf[run[c]]
    /\ \/ /\ marks[c][f] # "good"
          /\ marks' = [marks EXCEPT ![c][f] = "good"]
          /\ UNCHANGED upsets
       \/ /\ marks[c][f] = "absent"
          /\ marks' = [marks EXCEPT ![c][f] = "bad"]
          /\ Upset("bad")
    /\ markedAt' = [markedAt EXCEPT ![c] = clock]
    /\ Write /\ UNCHANGED <<deployed, run, report, publishedAt, current, latest>>

Validate(c) ==
    /\ Pinned(c) /\ report[c] # "passed"
    /\ \A f \in FramesOf[run[c]] : marks[c][f] # "absent"
    /\ report' = [report EXCEPT ![c] =
                    IF \A f \in FramesOf[run[c]] : marks[c][f] = "good" THEN "passed" ELSE "failed"]
    /\ Write /\ UNCHANGED <<deployed, run, marks, markedAt, publishedAt, current, latest, upsets>>

Publish(c) ==
    /\ report[c] = "passed" /\ publishedAt[c] = None
    /\ publishedAt' = [publishedAt EXCEPT ![c] = clock]
    /\ Write /\ UNCHANGED <<deployed, run, marks, markedAt, report, current, latest, upsets>>

WriteCurrent(c) ==
    /\ publishedAt[c] # None /\ c \notin current
    /\ current' = current \cup {c}
    /\ Write /\ UNCHANGED <<deployed, run, marks, markedAt, report, publishedAt, latest, upsets>>

WriteLatest(c) ==
    /\ c \in current /\ (latest = None \/ latest < c)
    /\ latest' = c
    /\ Write /\ UNCHANGED <<deployed, run, marks, markedAt, report, publishedAt, current, upsets>>

Deploy(workload) ==
    /\ workload # deployed
    /\ deployed' = workload
    /\ Upset("deploys")
    /\ Write /\ UNCHANGED <<run, marks, markedAt, report, publishedAt, current, latest>>

Tick ==
    /\ clock < MaxHour
    /\ clock' = clock + 1
    /\ UNCHANGED <<world, pass, document, upsets>>

Runs ==
    \/ \E c \in Cycles :
          \/ CreateDocuments(c) \/ PinRun(c) \/ Validate(c) \/ Publish(c)
          \/ WriteCurrent(c) \/ WriteLatest(c)
          \/ \E f \in Frames : Mark(c, f)
    \/ \E workload \in Workloads : Deploy(workload)
    \/ Tick

\* The first cycle is published; the others have not begun.
Init ==
    /\ clock = Max(FirstHours)
    /\ deployed = FirstWorkload
    /\ \E hour \in FirstHours :
          publishedAt = [c \in Cycles |-> IF c = FirstCycle THEN hour ELSE None]
    /\ run = [c \in Cycles |-> IF c = FirstCycle THEN FirstWorkload ELSE "none"]
    /\ marks = [c \in Cycles |-> [f \in Frames |->
                   IF c = FirstCycle /\ f \in FramesOf[FirstWorkload] THEN "good" ELSE "absent"]]
    /\ markedAt = [c \in Cycles |-> IF c = FirstCycle THEN c * Period ELSE None]
    /\ report = [c \in Cycles |-> IF c = FirstCycle THEN "passed" ELSE "missing"]
    /\ current = {FirstCycle} /\ latest = FirstCycle
    /\ pass = Idle /\ document = None
    /\ upsets = [deploys |-> 0, faults |-> 0, bad |-> 0]

Next == Inspect \/ Runs
Spec == Init /\ [][Next]_vars

-----------------------------------------------------------------------------
Statuses == {"fresh", "building", "stalled", "incomplete", "unavailable", "stale"}
Alerting(status) == status \notin {"fresh", "building"}

\* The document as health.py reports it, for the one dataset.
Health ==
    CASE document = None -> "unavailable"
      [] document # None /\ document.status = "fresh" -> "healthy"
      [] document # None /\ document.status = "unavailable" -> "unavailable"
      [] OTHER -> "degraded"

Age(c) == document.now - c * Period

\* The documents and the inspection are what the readers expect (status_document.py:55-139).
TypeOK ==
    /\ clock \in 0..MaxHour /\ deployed \in Workloads
    /\ run \in [Cycles -> Snapshots \cup Workloads]
    /\ marks \in [Cycles -> [Frames -> {"absent", "good", "bad"}]]
    /\ current \subseteq Cycles /\ latest \in Cycles \cup {None}
    /\ At("idle") => pass = Idle
    /\ document # None => document.status \in Statuses /\ document.now <= clock

\* Nobody is told that the data is fine for longer than the policy allows
\* (freshness.py:166-183, 460-487; health.py:80-85): a healthy backend, or a status that
\* raises no alert, means a latest manifest younger than max_hours and a period, or a run
\* of that moment whose frames were still being written.
NoSilentOutage ==
    document # None /\ ~Alerting(document.status) =>
        LET young == latest # None /\ Age(latest) < MaxLag + Period
        IN  /\ Health = "healthy" => young
            /\ young \/ document.now - LastProgress(document.cycle) <= Recent

\* An alert has a cause (freshness.py:166-183, 376-387, 460-487): a cycle older than
\* min_hours that is still not published, a marker that does not parse, a run that pinned
\* another configuration, or a failed read.
AlarmHasACause ==
    pass.step = "write" /\ Alerting(pass.verdict.status) =>
        \/ pass.faulted \/ upsets.bad > 0
        \/ \E c \in Cycles \cap {pass.verdict.cycle, pass.latest} : Pinned(c) /\ run[c] # pass.workload
        \/ \E c \in Cycles : pass.now >= c * Period + MinLag /\ pass.latest < c

\* Of two documents about one run whose reads succeeded, the later never shows it at an
\* earlier stage (lifecycle.py:221-261, 390-414), whatever is deployed in between.
Rank(stage) ==
    CASE stage = "missing_snapshot" -> 1
      [] stage \in {"pending_frames", "invalid_markers"} -> 2
      [] stage = "ready_for_validation" -> 3
      [] stage = "validation_failed" -> 4
      [] stage = "ready_for_publish" -> 5
      [] OTHER -> 6

StageNeverFallsBack ==
    [][document # None /\ document'.cycle = document.cycle
          /\ None \notin {document.stage, document'.stage} /\ ~document'.faulted
          /\ ~document.faulted
        => Rank(document'.stage) >= Rank(document.stage)]_document
=============================================================================
