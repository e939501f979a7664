---------------------------- MODULE ArtifactSync ----------------------------
(* scripts/etl-sync-artifacts.py: copies published runs from the artifact     *)
(* bucket into the local artifacts tree, one aws command at a time, while the  *)
(* publisher goes on publishing and old payloads expire.  A run stands for its *)
(* manifest and its payloads; runs of a dataset are numbered as they are       *)
(* published.                                                                  *)
EXTENDS Naturals, FiniteSets

CONSTANTS
    Datasets,
    MaxRun,         \* bound: runs per dataset
    MaxExpiries,    \* bound: payloads that expire
    None

VARIABLES
    remoteLatest,   \* dataset -> run of the remote latest manifest (0: none)
    remoteIndex,    \* dataset -> latest of the remote index
    expired,        \* <<dataset, run>> whose payloads the bucket has removed
    index,          \* dataset -> latest of the local index
    latest,         \* dataset -> run of the local latest manifest
    payloads,       \* <<dataset, run>> whose payloads are local
    sync            \* the invocation under way

remote == <<remoteLatest, remoteIndex, expired>>
local == <<index, latest, payloads>>
vars == <<remote, local, sync>>

Runs == 1..MaxRun
Finished(outcome) == [step |-> outcome, run |-> 0, all |-> FALSE, todo |-> {}, specs |-> {},
                      dataset |-> None, selected |-> 0]
At(step) == sync.step = step
Step(s) == sync' = s /\ UNCHANGED remote

\* An aws command fails, or the script is interrupted: what was copied stays.
Abort ==
    /\ sync.step \notin {"done", "failed"}
    /\ Step(Finished("failed"))
    /\ UNCHANGED local

\* Datasets and, with --run-id, the run (0: the latest); --all takes the index's datasets.
Begin(requested, run, all) ==
    /\ sync.step \in {"done", "failed"}
    /\ all => run = 0 /\ requested = Datasets
    /\ Step([Finished("index") EXCEPT !.run = run, !.all = all, !.todo = requested])
    /\ UNCHANGED local

\* The local index is overwritten by the whole remote index first.
CopyIndex ==
    /\ At("index")
    /\ index' = remoteIndex
    /\ LET known == {d \in Datasets : remoteIndex[d] # 0}
           todo == IF sync.all THEN known ELSE sync.todo
       IN  Step(IF sync.all /\ known = {} THEN Finished("failed")
                ELSE [sync EXCEPT !.step = "dataset", !.todo = todo])
    /\ UNCHANGED <<latest, payloads>>

\* selected_latest_run: the run of the copied index, whose latest.json may be newer by now.
SelectedLatest(d) == index[d]

\* The copy of latest.json; a dataset without a latest ends the script.
CopyLatest(d) ==
    /\ At("dataset") /\ sync.run = 0 /\ d \in sync.todo
    /\ IF SelectedLatest(d) = 0 \/ remoteLatest[d] = 0
       THEN Step(Finished("failed")) /\ UNCHANGED local
       ELSE /\ latest' = [latest EXCEPT ![d] = remoteLatest[d]]
            /\ Step([sync EXCEPT !.step = "payloads", !.dataset = d, !.selected = SelectedLatest(d)])
            /\ UNCHANGED <<index, payloads>>

\* With --run-id the run manifest also becomes the local latest and current manifest.
CopyRunManifest(d) ==
    /\ At("dataset") /\ sync.run # 0 /\ d \in sync.todo
    /\ IF sync.run > remoteLatest[d]
       THEN Step(Finished("failed")) /\ UNCHANGED local
       ELSE /\ latest' = [latest EXCEPT ![d] = sync.run]
            /\ Step([sync EXCEPT !.step = "payloads", !.dataset = d, !.selected = sync.run])
            /\ UNCHANGED <<index, payloads>>

\* select_payload_sync: the payloads of the local manifest lie under the selected run's
\* root, unless another run was published after the index was read.
Filtered == latest[sync.dataset] = sync.selected

\* manifest_payload_paths: the payloads of the local latest manifest.
Wanted == <<sync.dataset, latest[sync.dataset]>>

\* A filtered aws s3 sync passes over objects that are not there; single copies fail.
CopyPayloads ==
    /\ At("payloads")
    /\ LET next == [sync EXCEPT !.step = IF sync.todo = {sync.dataset} THEN "write" ELSE "dataset",
                                !.todo = @ \ {sync.dataset}, !.specs = @ \cup {sync.dataset}]
       IN  IF Wanted \notin expired
           THEN payloads' = payloads \cup {Wanted} /\ Step(next)
           ELSE payloads' = payloads /\ Step(IF Filtered THEN next ELSE Finished("failed"))
    /\ UNCHANGED <<index, latest>>

\* build_local_manifest_index: the downloaded datasets only, each with the run of its
\* local manifest, as the source index has it or compacted from the manifest.
LocalIndexOfSource(specs) == [d \in Datasets |-> IF d \in specs THEN index[d] ELSE 0]
LocalIndex(specs) == [d \in Datasets |-> IF d \in specs THEN latest[d] ELSE 0]

WriteIndex ==
    /\ At("write")
    /\ index' = LocalIndex(sync.specs)
    /\ Step(Finished("done"))
    /\ UNCHANGED <<latest, payloads>>

-----------------------------------------------------------------------------
\* The bucket: a run is published, then indexed; payloads of runs expire, manifests do not.

PublishRun(d) ==
    /\ remoteLatest[d] < MaxRun
    /\ remoteLatest' = [remoteLatest EXCEPT ![d] = @ + 1]
    /\ UNCHANGED <<remoteIndex, expired, local, sync>>

RefreshIndex ==
    /\ remoteIndex' = remoteLatest
    /\ UNCHANGED <<remoteLatest, expired, local, sync>>

Expire(d, run) ==
    /\ run <= remoteLatest[d] /\ <<d, run>> \notin expired
    /\ Cardinality(expired) < MaxExpiries
    /\ expired' = expired \cup {<<d, run>>}
    /\ UNCHANGED <<remoteLatest, remoteIndex, local, sync>>

Init ==
    /\ remoteLatest = [d \in Datasets |-> 0] /\ remoteIndex = remoteLatest
    /\ expired = {}
    /\ index = [d \in Datasets |-> 0] /\ latest = index /\ payloads = {}
    /\ sync = Finished("failed")

Next ==
    \/ \E requested \in (SUBSET Datasets) \ {{}}, run \in 0..MaxRun, all \in BOOLEAN :
          Begin(requested, run, all)
    \/ CopyIndex \/ CopyPayloads \/ WriteIndex \/ Abort
    \/ \E d \in Datasets : CopyLatest(d) \/ CopyRunManifest(d) \/ PublishRun(d)
    \/ RefreshIndex
    \/ \E d \in Datasets, run \in Runs : Expire(d, run)

Spec == Init /\ [][Next]_vars

-----------------------------------------------------------------------------
\* After a sync that has ended well, the frontend is not sent to files that are not there
\* (etl-sync-artifacts.py:73-129, 304-351; etl/README.md:47): every dataset of the local
\* index is one whose local latest manifest is that run and whose payloads were copied,
\* however many runs were published in between, except payloads the bucket had removed.
SyncedIndexIsServed ==
    At("done") => \A d \in Datasets : index[d] # 0 =>
        /\ index[d] = latest[d]
        /\ <<d, index[d]>> \in payloads \cup expired
=============================================================================
