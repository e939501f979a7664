----------------------------- MODULE PublishRun -----------------------------
(***************************************************************************)
(* The validation and publication of one run: validation.json, the          *)
(* internal run manifest, the public run manifest and the publication       *)
(* marker.  Publishers (the scheduled Lambda, whose invocations may         *)
(* overlap, and the operator commands validate-run and publish-run) work    *)
(* while frame workers write, and may write again, success markers.         *)
(*                                                                         *)
(* Every request to the object store is one step.  A success marker is the  *)
(* payload it describes and that payload's grid.  A manifest is the markers *)
(* it was built from and the second it was built in; its revision leaves    *)
(* the second out (the hash is taken collision free), and a publication     *)
(* marker is the revision it records.                                       *)
(***************************************************************************)
EXTENDS Naturals

CONSTANTS
    Publishers,    \* processes that validate or publish this run
    NumMarkers,    \* success markers of the run's workload, in reading order
    Payloads,      \* payloads that a worker may produce for a frame
    Grids,         \* grids that a payload may have
    NoMarker, NoManifest, NoRevision,   \* objects that do not exist
    MaxWrites,     \* bound: success markers written
    MaxSeconds,    \* bound: seconds that pass
    MaxCrashes     \* bound: publishers that die half way

ASSUME SizeAssumption == NumMarkers \in Nat \ {0}
ASSUME BoundsAssumption == MaxWrites \in Nat /\ MaxSeconds \in Nat /\ MaxCrashes \in Nat

Markers == 1..NumMarkers
Marker == [payload : Payloads, grid : Grids]
MarkerSet == [Markers -> Marker]                    \* a complete run
Manifest == [content : MarkerSet, generated_at : 0..MaxSeconds]

ASSUME NothingAssumption ==
    NoMarker \notin Marker /\ NoManifest \notin Manifest /\ NoRevision \notin MarkerSet

VARIABLES
    markers,           \* the success markers in the store
    report,            \* validation.json: "none", "failed" or "passed"
    run_manifest,      \* runs/<dataset>/<cycle>/<run_id>/manifest.json
    public_manifest,   \* manifests/<dataset>/<cycle>/<run_id>.json
    publication,       \* the publication marker
    pc,                \* what each publisher does next
    mode,              \* which entry point it runs
    goal,              \* what it reads the markers, or writes the manifest, for
    taken,             \* the markers it has read
    seen,              \* the revision of the publication marker it has read
    now,               \* generated_at
    manifest,          \* the manifest it has built, or found published
    built,             \* history: manifests built so far
    clock, writes, crashes

store == <<report, run_manifest, public_manifest, publication>>
locals == <<mode, goal, taken, seen, now, manifest>>
world == <<clock, writes, crashes>>
vars == <<markers, store, pc, locals, built, world>>

Modes == {"publish_run_candidate", "publish_run", "validate_run"}
Goals == {"validate", "publish", "verify"}
AtRest == {"idle", "conflict"}
Phases == AtRest \cup {"report", "list", "read", "write_report", "gate", "publication",
                       "run_manifest", "write_run", "check_public", "write_public",
                       "write_publication"}
NothingTaken == [m \in Markers |-> NoMarker]

Init ==
    /\ markers = NothingTaken
    /\ report = "none"
    /\ run_manifest = NoManifest /\ public_manifest = NoManifest /\ publication = NoRevision
    /\ pc = [p \in Publishers |-> "idle"]
    /\ mode = [p \in Publishers |-> "validate_run"]
    /\ goal = [p \in Publishers |-> "validate"]
    /\ taken = [p \in Publishers |-> NothingTaken]
    /\ seen = [p \in Publishers |-> NoRevision]
    /\ now = [p \in Publishers |-> 0]
    /\ manifest = [p \in Publishers |-> NoManifest]
    /\ built = {}
    /\ clock = 0 /\ writes = 0 /\ crashes = 0

-----------------------------------------------------------------------------
\* Helpers.

Goto(p, phase) == pc' = [pc EXCEPT ![p] = phase]

\* Publisher p ends and drops its local state.
End(p, phase) ==
    /\ Goto(p, phase)
    /\ mode' = [mode EXCEPT ![p] = "validate_run"]
    /\ goal' = [goal EXCEPT ![p] = "validate"]
    /\ taken' = [taken EXCEPT ![p] = NothingTaken]
    /\ seen' = [seen EXCEPT ![p] = NoRevision]
    /\ now' = [now EXCEPT ![p] = 0]
    /\ manifest' = [manifest EXCEPT ![p] = NoManifest]

Present(ms) == \A m \in Markers : ms[m] # NoMarker

\* One grid for all frames of an artifact.
Consistent(ms) == \A m, n \in Markers : ms[m].grid = ms[n].grid

Revision(m) == m.content

\* Collect the markers, for a validation report or for a manifest.
Collect(p, g) ==
    /\ Goto(p, "list")
    /\ goal' = [goal EXCEPT ![p] = g]
    /\ UNCHANGED <<mode, taken, seen, now, manifest>>

-----------------------------------------------------------------------------
\* Entry points.

Begin(p, m, phase) ==
    /\ pc[p] \in AtRest
    /\ Goto(p, phase)
    /\ mode' = [mode EXCEPT ![p] = m]
    /\ UNCHANGED <<markers, store, goal, taken, seen, now, manifest, built, world>>

\* A target of the scheduled publisher, a command of the operator.
BeginCandidate(p) == Begin(p, "publish_run_candidate", "report")
BeginPublish(p) == Begin(p, "publish_run", "gate")
BeginValidate(p) == Begin(p, "validate_run", "list")

-----------------------------------------------------------------------------
\* Validation.

\* Faulty variant of ReadReport: a report that has failed is not made again either.
ReadReportOnce(p) ==
    /\ pc[p] = "report"
    /\ IF report # "none" THEN Goto(p, "gate") /\ UNCHANGED locals ELSE Collect(p, "validate")
    /\ UNCHANGED <<markers, store, built, world>>

\* A report that has passed once is not made again.
ReadReport(p) ==
    /\ pc[p] = "report"
    /\ IF report = "passed" THEN Goto(p, "gate") /\ UNCHANGED locals ELSE Collect(p, "validate")
    /\ UNCHANGED <<markers, store, built, world>>

\* A validation with missing markers writes a failed report; a publication stops.
ListMarkers(p) ==
    /\ pc[p] = "list"
    /\ \/ Present(markers) /\ Goto(p, "read") /\ UNCHANGED locals
       \/ /\ ~Present(markers) /\ goal[p] = "validate"
          /\ Goto(p, "write_report") /\ UNCHANGED locals
       \/ ~Present(markers) /\ goal[p] = "publish" /\ End(p, "idle")
    /\ UNCHANGED <<markers, store, built, world>>

\* Faulty variant of Build: the grids are not compared again.
BuildUnchecked(p, ms) ==
    LET m == [content |-> ms, generated_at |-> now[p]]
    IN  /\ Goto(p, "publication")
        /\ manifest' = [manifest EXCEPT ![p] = m]
        /\ taken' = [taken EXCEPT ![p] = NothingTaken]
        /\ seen' = [seen EXCEPT ![p] = NoRevision]
        /\ built' = built \cup {m}
        /\ UNCHANGED <<mode, goal, now>>

\* The manifest is built from the markers read, or the build raises on their grids.
Build(p, ms) ==
    IF Consistent(ms)
    THEN LET m == [content |-> ms, generated_at |-> now[p]]
         IN  /\ Goto(p, "publication")
             /\ manifest' = [manifest EXCEPT ![p] = m]
             /\ taken' = [taken EXCEPT ![p] = NothingTaken]
             /\ seen' = [seen EXCEPT ![p] = NoRevision]
             /\ built' = built \cup {m}
             /\ UNCHANGED <<mode, goal, now>>
    ELSE End(p, "idle") /\ UNCHANGED built

\* Faulty variant of ReadMarker: a manifest is built without waiting for the last marker.
ReadMarkerFirst(p, m) ==
    LET ms == [taken[p] EXCEPT ![m] = markers[m]]
    IN  /\ pc[p] = "read"
        /\ \A n \in Markers : taken[p][n] = NoMarker <=> n >= m
        /\ IF goal[p] = "publish"
           THEN BuildUnchecked(p, ms)
           ELSE /\ Goto(p, IF m = NumMarkers THEN "write_report" ELSE "read")
                /\ taken' = [taken EXCEPT ![p] = ms]
                /\ UNCHANGED <<mode, goal, seen, now, manifest, built>>
        /\ UNCHANGED <<markers, store, world>>

\* The markers are read one after the other.
ReadMarker(p, m) ==
    LET ms == [taken[p] EXCEPT ![m] = markers[m]]
    IN  /\ pc[p] = "read"
        /\ \A n \in Markers : taken[p][n] = NoMarker <=> n >= m
        /\ IF m = NumMarkers /\ goal[p] = "publish"
           THEN Build(p, ms)
           ELSE /\ Goto(p, IF m = NumMarkers THEN "write_report" ELSE "read")
                /\ taken' = [taken EXCEPT ![p] = ms]
                /\ UNCHANGED <<mode, goal, seen, now, manifest, built>>
        /\ UNCHANGED <<markers, store, world>>

\* Only a scheduled pass whose validation passed goes on to publish.
WriteReport(p) ==
    LET passed == Present(taken[p]) /\ Consistent(taken[p])
    IN  /\ pc[p] = "write_report"
        /\ report' = IF passed THEN "passed" ELSE "failed"
        /\ IF passed /\ mode[p] = "publish_run_candidate"
           THEN /\ Goto(p, "gate")
                /\ taken' = [taken EXCEPT ![p] = NothingTaken]
                /\ UNCHANGED <<mode, goal, seen, now, manifest>>
           ELSE End(p, "idle")
        /\ UNCHANGED <<markers, run_manifest, public_manifest, publication, built, world>>

-----------------------------------------------------------------------------
\* publish_run_manifest.

\* check_publish_gate, then generated_at is taken.
Gate(p) ==
    /\ pc[p] = "gate"
    /\ IF report = "passed"
       THEN /\ Goto(p, "publication")
            /\ now' = [now EXCEPT ![p] = clock]
            /\ UNCHANGED <<mode, goal, taken, seen, manifest>>
       ELSE End(p, "idle")
    /\ UNCHANGED <<markers, store, built, world>>

\* The run is not published, or not at this revision: build the manifest, or write it.
NotPublished(p) ==
    IF manifest[p] = NoManifest
    THEN Collect(p, "publish")
    ELSE Goto(p, "write_run") /\ UNCHANGED locals

\* _read_published_run_manifest, before a manifest is built and again after it is.
ReadPublication(p) ==
    /\ pc[p] = "publication"
    /\ IF publication = NoRevision
       THEN NotPublished(p)
       ELSE /\ Goto(p, "run_manifest")
            /\ seen' = [seen EXCEPT ![p] = publication]
            /\ UNCHANGED <<mode, goal, taken, now, manifest>>
    /\ UNCHANGED <<markers, store, built, world>>

\* Faulty variant of Usable: a run is published again on every pass.
UsableNever(p) == FALSE

\* The publication marker and the run manifest name one revision, which is the one of
\* the manifest just built, if there is one.
Usable(p) ==
    /\ run_manifest # NoManifest
    /\ Revision(run_manifest) = seen[p]
    /\ manifest[p] # NoManifest => Revision(manifest[p]) = seen[p]

ReadRunManifest(p) ==
    /\ pc[p] = "run_manifest"
    /\ IF Usable(p)
       THEN /\ Goto(p, "check_public")
            /\ goal' = [goal EXCEPT ![p] = "verify"]
            /\ manifest' = [manifest EXCEPT ![p] = run_manifest]
            /\ UNCHANGED <<mode, taken, seen, now>>
       ELSE NotPublished(p)
    /\ UNCHANGED <<markers, store, built, world>>

\* Faulty variant of WriteRunManifest: the publication marker comes before the public manifest.
WriteRunManifestCommits(p) ==
    /\ pc[p] = "write_run"
    /\ run_manifest' = manifest[p]
    /\ Goto(p, "write_publication")
    /\ UNCHANGED <<markers, report, public_manifest, publication, locals, built, world>>

\* _publish_new_manifest overwrites the run manifest ...
WriteRunManifest(p) ==
    /\ pc[p] = "write_run"
    /\ run_manifest' = manifest[p]
    /\ Goto(p, "check_public")
    /\ UNCHANGED <<markers, report, public_manifest, publication, locals, built, world>>

\* What follows the public manifest: the publication marker, unless it exists.
AfterPublic(p) ==
    IF goal[p] = "verify"
    THEN End(p, "idle")
    ELSE Goto(p, "write_publication") /\ UNCHANGED locals

\* Faulty variant of CheckPublicManifest: a public manifest that exists is a conflict.
CheckPublicOnce(p) ==
    /\ pc[p] = "check_public"
    /\ IF public_manifest = NoManifest
       THEN Goto(p, "write_public") /\ UNCHANGED locals ELSE End(p, "conflict")
    /\ UNCHANGED <<markers, store, built, world>>

\* ... writes the public one or verifies that it is the same (two requests) ...
CheckPublicManifest(p) ==
    /\ pc[p] = "check_public"
    /\ \/ public_manifest = NoManifest /\ Goto(p, "write_public") /\ UNCHANGED locals
       \/ public_manifest = manifest[p] /\ AfterPublic(p)
       \/ public_manifest \notin {NoManifest, manifest[p]} /\ End(p, "conflict")
    /\ UNCHANGED <<markers, store, built, world>>

WritePublicManifest(p) ==
    /\ pc[p] = "write_public"
    /\ public_manifest' = manifest[p]
    /\ AfterPublic(p)
    /\ UNCHANGED <<markers, report, run_manifest, publication, built, world>>

\* ... and writes the publication marker.
WritePublication(p) ==
    /\ pc[p] = "write_publication"
    /\ publication' = Revision(manifest[p])
    /\ End(p, "idle")
    /\ UNCHANGED <<markers, report, run_manifest, public_manifest, built, world>>

-----------------------------------------------------------------------------
\* The environment.

\* A frame worker writes a marker, for the first time or again (see FrameWork).
WriteMarker(m) ==
    /\ writes < MaxWrites
    /\ writes' = writes + 1
    /\ \E v \in Marker : markers' = [markers EXCEPT ![m] = v]
    /\ UNCHANGED <<store, pc, locals, built, clock, crashes>>

\* utc_now_iso has a precision of one second.
Second ==
    /\ clock < MaxSeconds
    /\ clock' = clock + 1
    /\ UNCHANGED <<markers, store, pc, locals, built, writes, crashes>>

Crash(p) ==
    /\ pc[p] \notin AtRest
    /\ crashes < MaxCrashes
    /\ crashes' = crashes + 1
    /\ End(p, "idle")
    /\ UNCHANGED <<markers, store, built, clock, writes>>

Step(p) ==
    \/ ReadReport(p) \/ ListMarkers(p) \/ (\E m \in Markers : ReadMarker(p, m))
    \/ WriteReport(p) \/ Gate(p) \/ ReadPublication(p) \/ ReadRunManifest(p)
    \/ WriteRunManifest(p) \/ CheckPublicManifest(p) \/ WritePublicManifest(p)
    \/ WritePublication(p)

Next ==
    \/ \E p \in Publishers :
          BeginCandidate(p) \/ BeginPublish(p) \/ BeginValidate(p) \/ Step(p) \/ Crash(p)
    \/ \E m \in Markers : WriteMarker(m)
    \/ Second

Spec == Init /\ [][Next]_vars

\* The schedule starts a pass every ten minutes, whatever the operator starts in between,
\* and a publisher that runs makes progress.  Nothing is assumed of workers and operators.
FairSpec == Spec /\ \A p \in Publishers : SF_vars(BeginCandidate(p)) /\ WF_vars(Step(p))

-----------------------------------------------------------------------------
\* Properties.

StoreOK ==
    /\ markers \in [Markers -> Marker \cup {NoMarker}]
    /\ report \in {"none", "failed", "passed"}
    /\ run_manifest \in Manifest \cup {NoManifest}
    /\ public_manifest \in Manifest \cup {NoManifest}
    /\ publication \in MarkerSet \cup {NoRevision}

LocalsOK ==
    /\ pc \in [Publishers -> Phases]
    /\ mode \in [Publishers -> Modes]
    /\ goal \in [Publishers -> Goals]
    /\ taken \in [Publishers -> [Markers -> Marker \cup {NoMarker}]]
    /\ seen \in [Publishers -> MarkerSet \cup {NoRevision}]
    /\ now \in [Publishers -> 0..MaxSeconds]
    /\ manifest \in [Publishers -> Manifest \cup {NoManifest}]

WorldOK ==
    /\ built \subseteq Manifest
    /\ clock \in 0..MaxSeconds
    /\ writes \in 0..MaxWrites
    /\ crashes \in 0..MaxCrashes

TypeOK == StoreOK /\ LocalsOK /\ WorldOK

\* The publication marker commits the publication: whatever crashes or overlaps, a run
\* that carries it has its internal and its public manifest.
PublicationIsLast ==
    publication # NoRevision => run_manifest # NoManifest /\ public_manifest # NoManifest

\* A client never gets a manifest whose frames lie on different grids, although a report
\* that passed is not made again and markers may be rewritten between validation,
\* collection and commit.
ManifestsServable ==
    \A m \in {run_manifest, public_manifest} \ {NoManifest} : Consistent(m.content)

\* "Idempotent cycle manifest publisher" (publish.py:1), as far as it goes: while every
\* pass has built the same manifest in the same second, no publisher meets a conflict,
\* whatever overlaps and crashes.
OneManifest == \A a, b \in built : a = b
OneManifestNeverConflicts == OneManifest => \A p \in Publishers : pc[p] # "conflict"

\* A published run is final once no publisher is at work that found it unpublished: later
\* passes, operators, rewritten markers and failed validations change none of its documents.
Published ==
    /\ publication # NoRevision
    /\ run_manifest # NoManifest
    /\ Revision(run_manifest) = publication
    /\ public_manifest = run_manifest

Harmless(p) ==
    \/ pc[p] \in AtRest \cup {"report", "write_report", "gate"}
    \/ pc[p] \in {"list", "read"} /\ goal[p] = "validate"
    \/ pc[p] = "publication" /\ manifest[p] = NoManifest
    \/ pc[p] = "run_manifest" /\ manifest[p] = NoManifest /\ seen[p] = publication
    \/ pc[p] = "check_public" /\ goal[p] = "verify" /\ manifest[p] = run_manifest

Final == Published /\ \A p \in Publishers : Harmless(p)
PublishedIsFinal ==
    [][Final => /\ Final'
                /\ UNCHANGED <<run_manifest, public_manifest, publication>>]_vars

\* The publication is written once (publish.py:264-297): it settles on a manifest that a
\* publisher built, the same in all documents, and stays that.
Register == INSTANCE WriteOnce WITH
    Nothing <- NoManifest,
    proposed <- built,
    settled <- IF Final THEN public_manifest ELSE NoManifest
SettlesOnce == Register!Spec

\* A run whose markers stay complete and consistent is published in the end, if its
\* passes build one manifest.
Ready == Present(markers) /\ Consistent(markers)
OneManifestPublishes == ([]OneManifest /\ <>[]Ready) => <>Published

\* "The scheduled weather-etl-publisher Lambda will validate the run and publish
\* manifests after all expected success markers exist" (submit_aws_run.py:149).
CompleteRunIsPublished == <>[]Ready => <>Published
=============================================================================
