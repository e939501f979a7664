--------------------------- MODULE RollingObserved ---------------------------
(***************************************************************************)
(* The rolling view of an observed dataset (MRMS).  Every observed frame is *)
(* a run of its own; the publisher merges the published runs of the last    *)
(* hours into one latest manifest whose payloads are copied to paths that   *)
(* do not name a run.  Passes may overlap, and an older pass may finish     *)
(* last.                                                                    *)
(*                                                                         *)
(* The run id of a frame is a function of the frame, and the manifest of a  *)
(* published run is final (see PublishRun): a frame has one manifest, that  *)
(* of the configuration it was made with, and "described" are the bytes     *)
(* this manifest describes.  Times are frame numbers.                       *)
(***************************************************************************)
EXTENDS Naturals, FiniteSets, FiniteSetsExt

CONSTANTS
    Publishers,     \* processes that publish the rolling view
    NumFrames,      \* observed frames, in the order of their valid times
    NumArtifacts,   \* artifacts of the dataset
    Configs,        \* configurations that may be deployed
    FirstConfig,    \* the one deployed first
    ArtifactsOf,    \* the artifacts a configuration asks for
    MetadataOf,     \* what else it says of them (encoding, grid, units)
    DisplayWindow,  \* display_window_minutes
    ScanWindow,     \* publish_scan_minutes, rounded up to cycles
    Nothing,        \* a manifest that does not exist
    MaxDeploys,     \* bound: configurations deployed after the first
    MaxRewrites,    \* bound: payloads of a published run written again
    MaxCrashes      \* bound: publishers that die half way

Frames == 1..NumFrames
Artifacts == 1..NumArtifacts

ASSUME SizeAssumption == NumFrames \in Nat \ {0} /\ NumArtifacts \in Nat \ {0}
ASSUME ConfigAssumption ==
    FirstConfig \in Configs /\ ArtifactsOf \in [Configs -> (SUBSET Artifacts) \ {{}}] /\ DOMAIN MetadataOf = Configs
ASSUME WindowAssumption ==
    DisplayWindow \in Nat /\ ScanWindow \in Nat /\ ScanWindow >= DisplayWindow
ASSUME BoundsAssumption == MaxDeploys \in Nat /\ MaxRewrites \in Nat /\ MaxCrashes \in Nat

\* A manifest names payloads under the root of a frame's run, or under the rolling root.
Rolling == 0
Root == {Rolling} \cup Frames
Path == {path \in [root : Root, frame : Frames, artifact : Artifacts] :
            path.root \in {Rolling, path.frame}}
Manifest == [root : Root, frames : (SUBSET Frames) \ {{}}, artifacts : SUBSET Artifacts]
ASSUME NothingAssumption == Nothing \notin Manifest /\ Nothing \notin Configs

VARIABLES
    now,        \* the clock
    config,     \* the deployed configuration
    sources,    \* the configuration in the published manifest of each frame's run
    store,      \* the bytes at each payload path
    latest,     \* manifests/<dataset>/latest.json
    promised,   \* the payloads that latest has ever named (history)
    pc,         \* what each publisher does next
    seen,       \* the published runs it has seen
    building,   \* the manifest it is about to publish
    todo,       \* payloads it still has to copy
    found,      \* the latest manifest it has read (history from then on)
    deploys, rewrites, crashes

locals == <<pc, seen, building, todo, found>>
environment == <<now, config, sources>>
counters == <<deploys, rewrites, crashes>>
vars == <<environment, store, latest, promised, locals, counters>>

Init ==
    /\ now = 1
    /\ config = FirstConfig
    /\ sources = [f \in Frames |-> Nothing]
    /\ store = [p \in Path |-> "missing"]
    /\ latest = Nothing
    /\ promised = {}
    /\ pc = [p \in Publishers |-> "idle"]
    /\ seen = [p \in Publishers |-> {}]
    /\ building = [p \in Publishers |-> Nothing]
    /\ todo = [p \in Publishers |-> {}]
    /\ found = [p \in Publishers |-> Nothing]
    /\ deploys = 0 /\ rewrites = 0 /\ crashes = 0

-----------------------------------------------------------------------------
\* The merge of the published runs (_build_rolling_manifest).

Published == {f \in Frames : sources[f] # Nothing}

\* _scan_cycles: runs of older cycles are not looked at.
InScan(F) == {f \in F : f + ScanWindow >= now}

\* _select_window_frames: the frames up to display_window before the newest one.
Window(F) == {f \in F : f + DisplayWindow >= Max(F)}

\* _merge_artifacts: the oldest frame of the window says what the others must have.
Baseline(F) == sources[Min(Window(F))]
Mergeable(F) ==
    \A f \in Window(F) :
        /\ ArtifactsOf[Baseline(F)] \subseteq ArtifactsOf[sources[f]]
        /\ MetadataOf[sources[f]] = MetadataOf[Baseline(F)]

RollingManifest(F) ==
    [root |-> Rolling, frames |-> Window(F), artifacts |-> ArtifactsOf[Baseline(F)]]

Paths(m) == [root : {m.root}, frame : m.frames, artifact : m.artifacts]
SourcePath(path) == [path EXCEPT !.root = path.frame]

Newest(m) == Max(m.frames)

-----------------------------------------------------------------------------
\* The publisher.

\* Faulty variant of End: what was read stays with the publisher.
EndKeeps(p) ==
    /\ pc' = [pc EXCEPT ![p] = "idle"]
    /\ todo' = [todo EXCEPT ![p] = {}]
    /\ UNCHANGED <<seen, building, found>>

\* The pass is over, and with it what the publisher holds.
End(p) ==
    /\ pc' = [pc EXCEPT ![p] = "idle"]
    /\ seen' = [seen EXCEPT ![p] = {}]
    /\ building' = [building EXCEPT ![p] = Nothing]
    /\ todo' = [todo EXCEPT ![p] = {}]
    /\ found' = [found EXCEPT ![p] = Nothing]

\* A pass starts to read the published manifests; those published by now it will see.
Begin(p) ==
    /\ pc[p] = "idle"
    /\ InScan(Published) # {}
    /\ pc' = [pc EXCEPT ![p] = "reading"]
    /\ seen' = [seen EXCEPT ![p] = InScan(Published)]
    /\ UNCHANGED <<environment, store, latest, promised, building, todo, found, counters>>

\* It has read the last one; of the runs published meanwhile it may have seen some.
ReadSources(p) ==
    /\ pc[p] = "reading"
    /\ \E F \in SUBSET InScan(Published) :
        LET read == seen[p] \cup F IN
        IF Mergeable(read)
        THEN /\ pc' = [pc EXCEPT ![p] = "comparing"]
             /\ building' = [building EXCEPT ![p] = RollingManifest(read)]
             /\ seen' = [seen EXCEPT ![p] = {}]
             /\ UNCHANGED <<todo, found>>
        ELSE End(p)
    /\ UNCHANGED <<environment, store, latest, promised, counters>>

\* Faulty variant of Copies: payloads of the newest frame only.
CopiesNewest(m) == {path \in Paths(m) : path.frame = Newest(m)}

Copies(m) == Paths(m)

\* Faulty variant of Superseded: no look at the frames of latest.
SupersededEqual(m) == latest = m

\* Faulty variant of Superseded: without a latest manifest there is nothing to replace.
SupersededFirst(m) == latest = Nothing \/ latest = m \/ Newest(latest) > Newest(m)

\* The same revision is current, or latest has a newer frame.
Superseded(m) == latest # Nothing /\ (latest = m \/ Newest(latest) > Newest(m))

ReadLatest(p) ==
    /\ pc[p] = "comparing"
    /\ IF Superseded(building[p])
       THEN End(p)
       ELSE /\ pc' = [pc EXCEPT ![p] = "copying"]
            /\ todo' = [todo EXCEPT ![p] = Copies(building[p])]
            /\ found' = [found EXCEPT ![p] = latest]
            /\ UNCHANGED <<seen, building>>
    /\ UNCHANGED <<environment, store, latest, promised, counters>>

\* The bytes of a payload are what the manifest describes (_validate_payload_bytes).
Valid(bytes) == bytes = "described"

\* materialize_rolling_payload: the payload is there already, or its source is copied; a
\* source that is not as described ends the pass.  The order is the one of the manifest.
CopyPayload(p) ==
    /\ pc[p] = "copying"
    /\ todo[p] # {}
    /\ LET path == CHOOSE path \in todo[p] : TRUE IN
        IF Valid(store[path]) \/ Valid(store[SourcePath(path)])
        THEN /\ store' = IF Valid(store[path]) THEN store
                         ELSE [store EXCEPT ![path] = store[SourcePath(path)]]
             /\ todo' = [todo EXCEPT ![p] = @ \ {path}]
             /\ UNCHANGED <<pc, seen, building, found>>
        ELSE End(p) /\ UNCHANGED store
    /\ UNCHANGED <<environment, latest, promised, counters>>

WriteLatest(p) ==
    /\ pc[p] = "copying"
    /\ todo[p] = {}
    /\ latest' = building[p]
    /\ promised' = promised \cup Paths(building[p])
    /\ End(p)
    /\ UNCHANGED <<environment, store, counters>>

Crash(p) ==
    /\ pc[p] # "idle"
    /\ crashes < MaxCrashes
    /\ crashes' = crashes + 1
    /\ End(p)
    /\ UNCHANGED <<environment, store, latest, promised, deploys, rewrites>>

-----------------------------------------------------------------------------
\* The environment: time, deploys, runs that are published, and frame jobs that
\* write the payloads of a published run a second time (see FrameWork).

Tick ==
    /\ now < NumFrames
    /\ now' = now + 1
    /\ UNCHANGED <<config, sources, store, latest, promised, locals, counters>>

Deploy ==
    /\ deploys < MaxDeploys
    /\ deploys' = deploys + 1
    /\ config' \in Configs \ {config}
    /\ UNCHANGED <<now, sources, store, latest, promised, locals, rewrites, crashes>>

PublishRun(f) ==
    /\ f <= now
    /\ sources[f] = Nothing
    /\ sources' = [sources EXCEPT ![f] = config]
    /\ store' = [path \in Path |->
                    IF path.root = f /\ path.artifact \in ArtifactsOf[config]
                    THEN "described" ELSE store[path]]
    /\ UNCHANGED <<now, config, latest, promised, locals, counters>>

RewritePayload(f) ==
    /\ sources[f] # Nothing
    /\ rewrites < MaxRewrites
    /\ rewrites' = rewrites + 1
    /\ \E a \in ArtifactsOf[sources[f]] :
        store' = [store EXCEPT ![[root |-> f, frame |-> f, artifact |-> a]] = "other"]
    /\ UNCHANGED <<environment, latest, promised, locals, deploys, crashes>>

-----------------------------------------------------------------------------
Publish(p) ==
    \/ Begin(p)
    \/ ReadSources(p)
    \/ ReadLatest(p)
    \/ CopyPayload(p)
    \/ WriteLatest(p)

Environment ==
    \/ Tick
    \/ Deploy
    \/ \E f \in Frames : PublishRun(f) \/ RewritePayload(f)

Next ==
    \/ \E p \in Publishers : Publish(p) \/ Crash(p)
    \/ Environment

Spec == Init /\ [][Next]_vars

\* The schedule starts a pass every ten minutes, and a pass goes on until it ends.
FairSpec == Spec /\ \A p \in Publishers : WF_vars(Publish(p))

-----------------------------------------------------------------------------
\* Properties.

Phases == {"idle", "reading", "comparing", "copying"}
Bytes == {"missing", "described", "other"}

\* Every variable has values of its type, and a publisher holds what its next step needs.
TypeOK ==
    /\ now \in Frames
    /\ config \in Configs
    /\ sources \in [Frames -> Configs \cup {Nothing}]
    /\ store \in [Path -> Bytes]
    /\ latest \in Manifest \cup {Nothing}
    /\ promised \subseteq Path
    /\ pc \in [Publishers -> Phases]
    /\ seen \in [Publishers -> SUBSET Frames]
    /\ building \in [Publishers -> Manifest \cup {Nothing}]
    /\ todo \in [Publishers -> SUBSET Path]
    /\ found \in [Publishers -> Manifest \cup {Nothing}]
    /\ \A p \in Publishers :
        /\ pc[p] = "reading" <=> seen[p] # {}
        /\ pc[p] \in {"comparing", "copying"} <=> building[p] # Nothing
    /\ deploys \in 0..MaxDeploys /\ rewrites \in 0..MaxRewrites /\ crashes \in 0..MaxCrashes

\* A client that holds a rolling manifest, the current one or any former one, finds every
\* payload it names, with the bytes it describes: overlapping passes, publishers that die
\* between payloads and manifest, and source payloads that are written again
\* (publish_rolling_observed_latest, rolling_observed.py:127-137) do not take them away.
PromisesAreKept == \A path \in promised : store[path] = "described"

\* Latest goes back to an older newest frame only if another pass has replaced latest
\* since the writer compared it with its own manifest (rolling_observed.py:97-125).
RegressesByLostUpdate ==
    [][latest # Nothing /\ latest' # latest /\ Newest(latest') < Newest(latest)
        => \E p \in Publishers : building[p] = latest' /\ found[p] # latest]_vars

\* The passes publish what they can publish: the window of published frames has one
\* configuration's metadata and the artifacts of its oldest frame, and every payload of it
\* has been copied already or is still what its manifest describes.
Publishable ==
    /\ InScan(Published) # {}
    /\ Mergeable(InScan(Published))
    /\ \A path \in Paths(RollingManifest(InScan(Published))) :
        Valid(store[path]) \/ Valid(store[SourcePath(path)])

\* When time, deploys and runs come to rest, latest becomes the rolling manifest of the
\* window, whatever older pass wrote last and whatever pass died, unless the window
\* cannot be published at all (rolling_observed.py:73-137).
LatestCatchesUp ==
    <>[](Publishable => latest = RollingManifest(InScan(Published)))
=============================================================================
