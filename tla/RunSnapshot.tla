----------------------------- MODULE RunSnapshot -----------------------------
(***************************************************************************)
(* The pinned configuration of one run: pipeline.json, catalog.json and     *)
(* run.json under runs/<dataset>/<cycle>/<run_id>/.  Any number of          *)
(* submitters and workers of the run try to create or load the three        *)
(* documents, while a deploy may replace the source configuration.          *)
(*                                                                         *)
(* The object store has no conditional put: _write_json_once_or_same looks  *)
(* whether the object exists, then reads and compares or writes.  Each      *)
(* request to the store is one step here, so the steps of two processes     *)
(* interleave between the look and the write.                               *)
(*                                                                         *)
(* A document is its version; run.json is the configuration (pipeline,      *)
(* catalog: the digest of the pair, taken collision free) and the image     *)
(* identity that it records.                                                *)
(***************************************************************************)
EXTENDS Naturals, FiniteSets

CONSTANTS
    Submitters,   \* processes that create or load the snapshot of this run
    Pipelines,    \* versions of config/pipeline.json
    Catalogs,     \* versions of config/catalog.json
    Images,       \* versions of the deployed image (image_identity)
    Fitting,      \* the pairs of a pipeline and a catalog that validate together
    NoDoc,        \* an object that does not exist
    MaxDeploys,   \* bound: number of source documents a deploy replaces
    MaxCrashes    \* bound: number of processes that die half way

ASSUME BoundsAssumption == MaxDeploys \in Nat /\ MaxCrashes \in Nat

DocNames == {"pipeline", "catalog", "run"}
Config == [pipeline : Pipelines, catalog : Catalogs, image : Images]
NoConfig == [pipeline |-> NoDoc, catalog |-> NoDoc, image |-> NoDoc]

ASSUME NoDocAssumption ==
    /\ NoDoc \notin Pipelines
    /\ NoDoc \notin Catalogs
    /\ NoDoc \notin Images
    /\ NoDoc \notin Config

\* build_loaded_product_config accepts the pair, and it has the dataset.
Fits(c) == <<c.pipeline, c.catalog>> \in Fitting

VARIABLES
    source,    \* the deployed source configuration
    docs,      \* the three objects of the run in the store
    pc,        \* what each process does next
    mode,      \* which entry point it runs
    guarded,   \* it is inside the try block of ensure_or_load_run_snapshot
    at,        \* the document it is about to look at or write
    wanted,    \* the snapshot it wants to find or write
    seen,      \* the pipeline.json its load in progress has read
    reads,     \* history: configurations read completely from the source, valid or not
    loads,     \* history: snapshots that successful loads have returned
    deploys,   \* number of source documents replaced so far
    crashes    \* number of processes that died so far

locals == <<mode, guarded, at, wanted, seen>>
history == <<reads, loads>>
vars == <<source, docs, pc, locals, history, deploys, crashes>>

Phases == {"idle", "read_pipeline", "read_catalog", "check", "write", "recover",
           "load_run", "load_pipeline", "load_catalog", "done", "failed"}
Modes == {"ensure_or_load", "ensure", "worker"}
AtRest == {"idle", "done", "failed"}
DocOrNone(S) == S \cup {NoDoc}
PartialConfig == [pipeline : DocOrNone(Pipelines), catalog : DocOrNone(Catalogs),
                  image : DocOrNone(Images)]

Init ==
    /\ source \in Config /\ Fits(source)
    /\ docs = [d \in DocNames |-> NoDoc]
    /\ pc = [p \in Submitters |-> "idle"]
    /\ mode = [p \in Submitters |-> "ensure_or_load"]
    /\ guarded = [p \in Submitters |-> FALSE]
    /\ at = [p \in Submitters |-> "pipeline"]
    /\ wanted = [p \in Submitters |-> NoConfig]
    /\ seen = [p \in Submitters |-> NoDoc]
    /\ reads = {}
    /\ loads = {}
    /\ deploys = 0
    /\ crashes = 0

-----------------------------------------------------------------------------
\* Helpers.

Goto(p, phase) == pc' = [pc EXCEPT ![p] = phase]

\* Process p ends and drops its local state.
End(p, phase) ==
    /\ Goto(p, phase)
    /\ mode' = [mode EXCEPT ![p] = "ensure_or_load"]
    /\ guarded' = [guarded EXCEPT ![p] = FALSE]
    /\ at' = [at EXCEPT ![p] = "pipeline"]
    /\ wanted' = [wanted EXCEPT ![p] = NoConfig]
    /\ seen' = [seen EXCEPT ![p] = NoDoc]

\* A SystemExit: inside the try block it is caught once, elsewhere it ends the process.
Raise(p) ==
    IF guarded[p] THEN Goto(p, "recover") /\ UNCHANGED locals ELSE End(p, "failed")

\* What process p expects to find in document d, or writes there.
Expected(p, d) == IF d = "run" THEN wanted[p] ELSE wanted[p][d]

\* Faulty variant of After: catalog.json is left out.
AfterSkipsCatalog(d) == "run"

\* repository.ensure_run_snapshot goes through pipeline.json, catalog.json, run.json.
After(d) == IF d = "pipeline" THEN "catalog" ELSE "run"

\* The current document is in place: go on with the next one.  After run.json the
\* submitters load what they wrote; a worker has only verified what it had loaded.
Advance(p) ==
    IF at[p] = "run" /\ mode[p] = "worker"
    THEN End(p, "done")
    ELSE /\ Goto(p, IF at[p] = "run" THEN "load_run" ELSE "check")
         /\ at' = [at EXCEPT ![p] = After(at[p])]
         /\ UNCHANGED <<mode, guarded, wanted, seen>>

-----------------------------------------------------------------------------
\* Entry points.

Begin(p, m, try, phase) ==
    /\ pc[p] \in AtRest
    /\ Goto(p, phase)
    /\ mode' = [mode EXCEPT ![p] = m]
    /\ guarded' = [guarded EXCEPT ![p] = try]
    /\ wanted' = [wanted EXCEPT ![p].image = source.image]
    /\ UNCHANGED <<source, docs, at, seen, history, deploys, crashes>>

\* ensure_or_load_run_snapshot (GFS and ICON ingest): run.json decides between load
\* and create; what follows a missing run.json is inside the try block.
BeginEnsureOrLoad(p) ==
    \/ /\ docs["run"] = NoDoc
       /\ Begin(p, "ensure_or_load", TRUE, "read_pipeline")
    \/ /\ docs["run"] # NoDoc
       /\ Begin(p, "ensure_or_load", FALSE, "load_run")

\* ensure_run_snapshot (operator submission, MRMS frames): always from the source
\* configuration, and a conflict ends the process.
BeginEnsure(p) == Begin(p, "ensure", FALSE, "read_pipeline")

\* A frame worker, which a submitter starts once it has loaded the snapshot; run.json
\* exists by then, so that its ensure_or_load_run_snapshot loads.
BeginWorker(p) ==
    /\ loads # {}
    /\ Begin(p, "worker", FALSE, "load_run")

-----------------------------------------------------------------------------
\* load_product_config: two objects, two requests, and a deploy may come between them.
\* What does not validate as a pair is a SystemExit.

ReadSourcePipeline(p) ==
    /\ pc[p] = "read_pipeline"
    /\ Goto(p, "read_catalog")
    /\ wanted' = [wanted EXCEPT ![p].pipeline = source.pipeline]
    /\ UNCHANGED <<source, docs, mode, guarded, at, seen, history, deploys, crashes>>

ReadSourceCatalog(p) ==
    LET read == [wanted[p] EXCEPT !.catalog = source.catalog] IN
    /\ pc[p] = "read_catalog"
    /\ reads' = reads \cup {read}
    /\ \/ /\ Fits(read)
          /\ Goto(p, "check")
          /\ wanted' = [wanted EXCEPT ![p] = read]
          /\ UNCHANGED <<mode, guarded, at, seen>>
       \/ ~Fits(read) /\ Raise(p)
    /\ UNCHANGED <<source, docs, loads, deploys, crashes>>

\* Writing or verifying the documents of the run.

\* Faulty variant of CheckDocument: a document that exists is a conflict.
CheckDocumentOnce(p) ==
    /\ pc[p] = "check"
    /\ IF docs[at[p]] = NoDoc THEN Goto(p, "write") /\ UNCHANGED locals ELSE Raise(p)
    /\ UNCHANGED <<source, docs, history, deploys, crashes>>

\* Faulty variant of CheckDocument: a document that differs is overwritten.
CheckDocumentOverwrites(p) ==
    /\ pc[p] = "check"
    /\ IF docs[at[p]] = Expected(p, at[p])
       THEN Advance(p) ELSE Goto(p, "write") /\ UNCHANGED locals
    /\ UNCHANGED <<source, docs, history, deploys, crashes>>

CheckDocument(p) ==
    LET found == docs[at[p]]
        expected == Expected(p, at[p])
    IN  /\ pc[p] = "check"
        /\ \/ found = NoDoc /\ Goto(p, "write") /\ UNCHANGED locals
           \/ found = expected /\ Advance(p)
           \/ found \notin {NoDoc, expected} /\ Raise(p)
        /\ UNCHANGED <<source, docs, history, deploys, crashes>>

\* Faulty variant of WriteDocument: the whole snapshot goes into each document.
WriteDocumentWhole(p) ==
    /\ pc[p] = "write"
    /\ docs' = [docs EXCEPT ![at[p]] = wanted[p]]
    /\ Advance(p)
    /\ UNCHANGED <<source, history, deploys, crashes>>

WriteDocument(p) ==
    /\ pc[p] = "write"
    /\ docs' = [docs EXCEPT ![at[p]] = Expected(p, at[p])]
    /\ Advance(p)
    /\ UNCHANGED <<source, history, deploys, crashes>>

\* The except clause: load if run.json exists by now, else raise again.
Recover(p) ==
    /\ pc[p] = "recover"
    /\ IF docs["run"] = NoDoc
       THEN End(p, "failed")
       ELSE /\ Goto(p, "load_run")
            /\ guarded' = [guarded EXCEPT ![p] = FALSE]
            /\ UNCHANGED <<mode, at, wanted, seen>>
    /\ UNCHANGED <<source, docs, history, deploys, crashes>>

-----------------------------------------------------------------------------
\* load_run_snapshot: run.json, then pipeline.json, then catalog.json, three requests.
\* A missing object is a FileNotFoundError, which no except clause here catches.

LoadRun(p) ==
    /\ pc[p] = "load_run"
    /\ IF docs["run"] = NoDoc
       THEN End(p, "failed")
       ELSE /\ Goto(p, "load_pipeline")
            /\ wanted' = [wanted EXCEPT ![p] = docs["run"]]
            /\ UNCHANGED <<mode, guarded, at, seen>>
    /\ UNCHANGED <<source, docs, history, deploys, crashes>>

LoadPipeline(p) ==
    /\ pc[p] = "load_pipeline"
    /\ IF docs["pipeline"] = NoDoc
       THEN End(p, "failed")
       ELSE /\ Goto(p, "load_catalog")
            /\ seen' = [seen EXCEPT ![p] = docs["pipeline"]]
            /\ UNCHANGED <<mode, guarded, at, wanted>>
    /\ UNCHANGED <<source, docs, history, deploys, crashes>>

\* Faulty variant of DigestMatches: only the catalog is compared.
DigestMatchesCatalog(p) == docs["catalog"] = wanted[p].catalog

\* The digest of the two documents read must be the digest run.json records.
DigestMatches(p) == seen[p] = wanted[p].pipeline /\ docs["catalog"] = wanted[p].catalog

\* The snapshot a load returns: the two documents read, the image of run.json.
LoadedSnapshot(p) == [pipeline |-> seen[p], catalog |-> docs["catalog"],
                      image |-> wanted[p].image]

\* The pair must validate again, and have the digest that run.json records.
Loadable(p) == DigestMatches(p) /\ Fits(LoadedSnapshot(p))

\* A worker goes on to verify the documents against what it loaded (run_frame_job).
LoadCatalog(p) ==
    /\ pc[p] = "load_catalog"
    /\ \/ /\ Loadable(p)
          /\ loads' = loads \cup {LoadedSnapshot(p)}
          /\ IF mode[p] = "worker"
             THEN /\ Goto(p, "check")
                  /\ at' = [at EXCEPT ![p] = "pipeline"]
                  /\ UNCHANGED <<mode, guarded, wanted, seen>>
             ELSE End(p, "done")
       \/ /\ ~Loadable(p)
          /\ IF docs["catalog"] = NoDoc THEN End(p, "failed") ELSE Raise(p)
          /\ UNCHANGED loads
    /\ UNCHANGED <<source, docs, reads, deploys, crashes>>

-----------------------------------------------------------------------------
\* The environment.

\* A deploy replaces the source documents and the image one object at a time.
Deploy ==
    /\ deploys < MaxDeploys
    /\ deploys' = deploys + 1
    /\ source' \in {[source EXCEPT !.pipeline = v] : v \in Pipelines}
                   \cup {[source EXCEPT !.catalog = v] : v \in Catalogs}
                   \cup {[source EXCEPT !.image = v] : v \in Images}
    /\ source' # source
    /\ UNCHANGED <<docs, pc, locals, history, crashes>>

\* A Lambda times out or a container is lost; the notification is delivered again.
Crash(p) ==
    /\ pc[p] \notin AtRest
    /\ crashes < MaxCrashes
    /\ crashes' = crashes + 1
    /\ End(p, "idle")
    /\ UNCHANGED <<source, docs, history, deploys>>

Step(p) ==
    \/ ReadSourcePipeline(p) \/ ReadSourceCatalog(p)
    \/ CheckDocument(p) \/ WriteDocument(p) \/ Recover(p)
    \/ LoadRun(p) \/ LoadPipeline(p) \/ LoadCatalog(p)

Next ==
    \/ \E p \in Submitters :
          BeginEnsureOrLoad(p) \/ BeginEnsure(p) \/ BeginWorker(p) \/ Step(p) \/ Crash(p)
    \/ Deploy

Spec == Init /\ [][Next]_vars

\* A notification or a scheduled pass is repeated until it succeeds, and a process
\* that runs makes progress.  Nothing is assumed of deploys, crashes, operators, workers.
Fairness == \A p \in Submitters : WF_vars(BeginEnsureOrLoad(p)) /\ WF_vars(Step(p))

FairSpec == Spec /\ Fairness

-----------------------------------------------------------------------------
\* Properties.

StoreOK ==
    /\ source \in Config
    /\ docs \in [DocNames -> Pipelines \cup Catalogs \cup DocOrNone(Config)]
    /\ docs["pipeline"] \in DocOrNone(Pipelines)
    /\ docs["catalog"] \in DocOrNone(Catalogs)
    /\ docs["run"] \in DocOrNone(Config)

LocalsOK ==
    /\ pc \in [Submitters -> Phases]
    /\ mode \in [Submitters -> Modes]
    /\ guarded \in [Submitters -> BOOLEAN]
    /\ at \in [Submitters -> DocNames]
    /\ wanted \in [Submitters -> PartialConfig]
    /\ seen \in [Submitters -> DocOrNone(Pipelines)]

HistoryOK ==
    /\ reads \subseteq Config
    /\ loads \subseteq Config
    /\ deploys \in 0..MaxDeploys
    /\ crashes \in 0..MaxCrashes

TypeOK == StoreOK /\ LocalsOK /\ HistoryOK

\* Whatever the interleaving of writers and deploys, a load that succeeds returns a
\* configuration that some submitter read and validated as a whole: the digest check of
\* load_run_snapshot never lets a mixture of two submitters' documents through.
Validated == {c \in reads : Fits(c)}
LoadedWasRead == loads \subseteq Validated

\* run.json is the commit record of the snapshot: once it exists, so do the other two,
\* so that a load which finds run.json never meets a missing document.
RunDocumentIsLast ==
    docs["run"] # NoDoc => docs["pipeline"] # NoDoc /\ docs["catalog"] # NoDoc

\* While all submitters have read the same configuration and it validates, nobody fails,
\* whatever the races and crashes: a failure needs a deploy between two reads of the source,
\* of one submitter (then the pair may be torn and not fit) or of two.
OneConfig == \A a, b \in reads : a = b /\ Fits(a)
OneConfigNeverFails == OneConfig => \A p \in Submitters : pc[p] # "failed"

\* The window in which the snapshot can change is the one between a look at a missing
\* document and the write that follows.  A complete snapshot that nobody is about to
\* write is final, for every later submitter, worker and deploy.
Settled ==
    /\ \A d \in DocNames : docs[d] # NoDoc
    /\ \A p \in Submitters : pc[p] # "write"
SettledIsFinal == [][Settled => Settled' /\ docs' = docs]_vars

\* The snapshot as a whole is written once (repository.py:489-503): it settles on documents
\* that submitters have read from the source, each of them complete, perhaps not all of one
\* submitter, and stays that, whatever deploys, crashes and retries follow.
Register == INSTANCE WriteOnce WITH
    Nothing <- NoDoc,
    proposed <- {[pipeline |-> a.pipeline, catalog |-> b.catalog, run |-> c] : a, b, c \in Validated},
    settled <- IF Settled THEN docs ELSE NoDoc
SettlesOnce == Register!Spec

\* If all submitters that read a valid configuration read the same one, and deploys do not
\* end half way, each of them ends up with the snapshot: also one that met a torn pair, or
\* died, tries again and gets there.
OneValidConfig == \A a, b \in Validated : a = b
OneConfigLoads ==
    []OneValidConfig /\ <>[]Fits(source) => \A p \in Submitters : <>(pc[p] = "done")

\* "Load an existing run snapshot, or create it from source config/catalog"
\* (snapshots.py:136): a submitter that keeps retrying does one or the other.
RetriesEventuallyLoad == \A p \in Submitters : <>(pc[p] = "done")
=============================================================================
