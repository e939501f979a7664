------------------------- MODULE RunSnapshot_proofs -------------------------
(***************************************************************************)
(* Type correctness of RunSnapshot; that a load returns a configuration     *)
(* some submitter read as a whole; that the snapshot settles once; and that *)
(* nobody fails under one configuration.  For any number of submitters,     *)
(* document versions, deploys and crashes.                                  *)
(***************************************************************************)
EXTENDS RunSnapshot, TLAPS

\* A process that looks at or writes documents, or reads them in a load, holds a
\* configuration that was read as a whole.
WantedWasRead ==
    \A p \in Submitters :
        pc[p] \in {"check", "write", "load_pipeline", "load_catalog"} => wanted[p] \in Validated

RunDocumentWasRead == docs["run"] # NoDoc => docs["run"] \in Validated

\* The documents before the current one are in place.
EarlierDocumentsExist ==
    \A p \in Submitters : pc[p] \in {"check", "write"} =>
        /\ at[p] \in {"catalog", "run"} => docs["pipeline"] # NoDoc
        /\ at[p] = "run" => docs["catalog"] # NoDoc

\* A process starts the documents with pipeline.json.
StartsAtPipeline ==
    \A p \in Submitters :
        pc[p] \in AtRest \cup {"read_pipeline", "read_catalog"} => at[p] = "pipeline"

\* What a process has read so far of the source configuration.
PartReads ==
    \A p \in Submitters :
        /\ pc[p] \in {"read_pipeline", "read_catalog"} => wanted[p].image \in Images
        /\ pc[p] = "read_catalog" => wanted[p].pipeline \in Pipelines

IInv ==
    /\ TypeOK
    /\ PartReads
    /\ WantedWasRead
    /\ RunDocumentWasRead
    /\ EarlierDocumentsExist
    /\ StartsAtPipeline
    /\ LoadedWasRead
    /\ RunDocumentIsLast

-----------------------------------------------------------------------------
\* Types.

LEMMA ConfigTypes == Config \subseteq PartialConfig /\ NoConfig \in PartialConfig
  BY DEF Config, NoConfig, PartialConfig, DocOrNone

LEMMA EndLocalsOK ==
  ASSUME LocalsOK, NEW p \in Submitters, NEW phase \in Phases, End(p, phase)
  PROVE  LocalsOK'
  BY ConfigTypes DEF LocalsOK, End, Goto, Modes, DocNames, DocOrNone

LEMMA RaiseLocalsOK ==
  ASSUME LocalsOK, NEW p \in Submitters, Raise(p)
  PROVE  LocalsOK'
<1>1. CASE guarded[p]
  BY <1>1 DEF Raise, Goto, locals, LocalsOK, Phases
<1>2. CASE ~guarded[p]
  BY <1>2, EndLocalsOK DEF Raise, Phases
<1> QED
  BY <1>1, <1>2

LEMMA AdvanceLocalsOK ==
  ASSUME LocalsOK, NEW p \in Submitters, Advance(p)
  PROVE  LocalsOK'
<1>1. CASE at[p] = "run" /\ mode[p] = "worker"
  BY <1>1, EndLocalsOK DEF Advance, Phases
<1>2. CASE ~(at[p] = "run" /\ mode[p] = "worker")
  BY <1>2 DEF Advance, Goto, After, LocalsOK, Phases, DocNames
<1> QED
  BY <1>1, <1>2

-----------------------------------------------------------------------------
\* The initial state.

LEMMA InitIInv == Init => IInv
  BY BoundsAssumption
     DEF Init, IInv, TypeOK, StoreOK, LocalsOK, HistoryOK, PartReads, WantedWasRead, RunDocumentWasRead, EarlierDocumentsExist,
         StartsAtPipeline, LoadedWasRead, RunDocumentIsLast, Config, NoConfig, DocNames,
         Phases, Modes, AtRest, PartialConfig, DocOrNone, Validated

-----------------------------------------------------------------------------
\* Each action preserves the invariant.

LEMMA LoadRunIInv ==
  ASSUME IInv, NEW p \in Submitters, LoadRun(p)
  PROVE  IInv'
<1>1. LocalsOK'
  <2>1. CASE docs["run"] = NoDoc
    BY <2>1, EndLocalsOK DEF IInv, TypeOK, LoadRun, Phases
  <2>2. CASE docs["run"] # NoDoc
    BY <2>2, ConfigTypes
       DEF IInv, TypeOK, StoreOK, LocalsOK, LoadRun, Goto, Phases, DocOrNone
  <2> QED
    BY <2>1, <2>2
<1>2. StoreOK' /\ HistoryOK' /\ RunDocumentWasRead' /\ LoadedWasRead' /\ RunDocumentIsLast'
  BY DEF IInv, TypeOK, LoadRun, history, StoreOK, HistoryOK, RunDocumentWasRead,
         LoadedWasRead, RunDocumentIsLast, Validated
<1>3. PartReads' /\ WantedWasRead' /\ EarlierDocumentsExist' /\ StartsAtPipeline'
  BY DEF IInv, TypeOK, LocalsOK, LoadRun, End, Goto, history, AtRest, PartReads, WantedWasRead,
         RunDocumentWasRead, EarlierDocumentsExist, StartsAtPipeline, Validated
<1> QED
  BY <1>1, <1>2, <1>3 DEF IInv, TypeOK

LEMMA BeginIInv ==
  ASSUME IInv, NEW p \in Submitters, NEW m \in Modes, NEW try \in BOOLEAN,
         NEW phase \in {"read_pipeline", "load_run"}, Begin(p, m, try, phase)
  PROVE  IInv'
<1>1. LocalsOK'
  BY DEF IInv, TypeOK, StoreOK, LocalsOK, Begin, Goto, Config, PartialConfig, DocOrNone, Phases
<1>2. StoreOK' /\ HistoryOK' /\ RunDocumentWasRead' /\ LoadedWasRead' /\ RunDocumentIsLast'
  BY DEF IInv, TypeOK, Begin, history, StoreOK, HistoryOK, RunDocumentWasRead,
         LoadedWasRead, RunDocumentIsLast, Validated
<1>3. PartReads' /\ WantedWasRead' /\ EarlierDocumentsExist' /\ StartsAtPipeline'
  BY DEF IInv, TypeOK, StoreOK, LocalsOK, Config, PartialConfig, Begin, Goto, history, AtRest, PartReads, WantedWasRead,
         EarlierDocumentsExist, StartsAtPipeline, Validated
<1> QED
  BY <1>1, <1>2, <1>3 DEF IInv, TypeOK

LEMMA ReadSourcePipelineIInv ==
  ASSUME IInv, NEW p \in Submitters, ReadSourcePipeline(p)
  PROVE  IInv'
<1>1. LocalsOK'
  BY DEF IInv, TypeOK, StoreOK, LocalsOK, ReadSourcePipeline, Goto, Config, PartialConfig,
         DocOrNone, Phases
<1>2. StoreOK' /\ HistoryOK' /\ RunDocumentWasRead' /\ LoadedWasRead' /\ RunDocumentIsLast'
  BY DEF IInv, TypeOK, ReadSourcePipeline, history, StoreOK, HistoryOK, RunDocumentWasRead,
         LoadedWasRead, RunDocumentIsLast, Validated
<1>3. PartReads' /\ WantedWasRead' /\ EarlierDocumentsExist' /\ StartsAtPipeline'
  BY DEF IInv, TypeOK, StoreOK, LocalsOK, Config, PartialConfig, ReadSourcePipeline, Goto, history, AtRest, PartReads, WantedWasRead,
         EarlierDocumentsExist, StartsAtPipeline, Validated
<1> QED
  BY <1>1, <1>2, <1>3 DEF IInv, TypeOK

LEMMA RaiseIInv ==
  ASSUME IInv, NEW p \in Submitters, pc[p] \in Phases \ AtRest, Raise(p),
         UNCHANGED <<source, docs, deploys, crashes>>, loads' = loads,
         reads \subseteq reads', reads' \subseteq Config
  PROVE  IInv'
<1>1. LocalsOK'
  BY RaiseLocalsOK DEF IInv, TypeOK
<1>2. Validated \subseteq Validated'
  BY DEF Validated, Fits
<1>3. StoreOK' /\ HistoryOK' /\ RunDocumentWasRead' /\ LoadedWasRead' /\ RunDocumentIsLast'
  BY <1>2 DEF IInv, TypeOK, StoreOK, HistoryOK, RunDocumentWasRead, LoadedWasRead,
              RunDocumentIsLast
<1>4. PartReads' /\ WantedWasRead' /\ EarlierDocumentsExist' /\ StartsAtPipeline'
  BY <1>2 DEF IInv, TypeOK, LocalsOK, Raise, End, Goto, locals, AtRest, PartReads,
              WantedWasRead, EarlierDocumentsExist, StartsAtPipeline
<1> QED
  BY <1>1, <1>3, <1>4 DEF IInv, TypeOK

\* The pair read either validates, and becomes what the process wants, or it is an error.
LEMMA ReadSourceCatalogIInv ==
  ASSUME IInv, NEW p \in Submitters, ReadSourceCatalog(p)
  PROVE  IInv'
<1> DEFINE read == [wanted[p] EXCEPT !.catalog = source.catalog]
<1>1. /\ pc[p] = "read_catalog"
      /\ reads' = reads \cup {read}
      /\ UNCHANGED <<source, docs, loads, deploys, crashes>>
  BY DEF ReadSourceCatalog
<1>2. read \in Config
  BY <1>1 DEF IInv, TypeOK, StoreOK, LocalsOK, PartReads, Config, PartialConfig
<1>3. CASE ~Fits(read) /\ Raise(p)
  <2>1. reads \subseteq reads' /\ reads' \subseteq Config
    BY <1>1, <1>2 DEF IInv, TypeOK, HistoryOK
  <2> QED
    BY <1>1, <1>3, <2>1, RaiseIInv DEF Phases, AtRest
<1>4. CASE /\ Fits(read)
           /\ Goto(p, "check")
           /\ wanted' = [wanted EXCEPT ![p] = read]
           /\ UNCHANGED <<mode, guarded, at, seen>>
  <2>1. read \in Validated' /\ Validated \subseteq Validated'
    BY <1>1, <1>4 DEF Validated, Fits
  <2>2. LocalsOK' /\ HistoryOK' /\ StoreOK'
    BY <1>1, <1>2, <1>4, ConfigTypes
       DEF IInv, TypeOK, StoreOK, LocalsOK, HistoryOK, Goto, Phases
  <2>3. RunDocumentWasRead' /\ LoadedWasRead' /\ RunDocumentIsLast'
    BY <1>1, <2>1 DEF IInv, RunDocumentWasRead, LoadedWasRead, RunDocumentIsLast
  <2>4. PartReads' /\ WantedWasRead' /\ EarlierDocumentsExist' /\ StartsAtPipeline'
    BY <1>1, <1>4, <2>1
       DEF IInv, TypeOK, LocalsOK, Goto, AtRest, PartReads, WantedWasRead,
           EarlierDocumentsExist, StartsAtPipeline
  <2> QED
    BY <2>2, <2>3, <2>4 DEF IInv, TypeOK
<1> QED
  BY <1>3, <1>4 DEF ReadSourceCatalog

LEMMA EndIInv ==
  ASSUME IInv, NEW p \in Submitters, NEW phase \in AtRest, End(p, phase),
         UNCHANGED <<source, docs, reads, deploys>>, crashes' \in 0..MaxCrashes,
         loads' \subseteq Validated'
  PROVE  IInv'
<1>1. LocalsOK'
  BY EndLocalsOK DEF IInv, TypeOK, AtRest, Phases
<1>2. StoreOK' /\ HistoryOK' /\ RunDocumentWasRead' /\ LoadedWasRead' /\ RunDocumentIsLast'
  BY DEF IInv, TypeOK, StoreOK, HistoryOK, RunDocumentWasRead, LoadedWasRead, RunDocumentIsLast, Validated
<1>3. PartReads' /\ WantedWasRead' /\ EarlierDocumentsExist' /\ StartsAtPipeline'
  BY DEF IInv, TypeOK, LocalsOK, End, Goto, AtRest, PartReads, WantedWasRead,
         EarlierDocumentsExist, StartsAtPipeline, Validated
<1> QED
  BY <1>1, <1>2, <1>3 DEF IInv, TypeOK

\* Going on with the next document once the current one is in place.
LEMMA AdvanceIInv ==
  ASSUME IInv, NEW p \in Submitters, pc[p] \in {"check", "write"}, Advance(p),
         docs' = docs \/ docs' = [docs EXCEPT ![at[p]] = Expected(p, at[p])],
         docs'[at[p]] # NoDoc, UNCHANGED <<source, history, deploys, crashes>>
  PROVE  IInv'
<1>1. LocalsOK'
  BY AdvanceLocalsOK DEF IInv, TypeOK
<1>2. wanted[p] \in Validated /\ wanted[p] \in Config /\ at[p] \in DocNames
  BY DEF IInv, TypeOK, HistoryOK, LocalsOK, WantedWasRead, Validated
<1>3. StoreOK' /\ RunDocumentWasRead'
  BY <1>2, NoDocAssumption
     DEF IInv, TypeOK, StoreOK, RunDocumentWasRead, history, Expected, DocNames, Config, DocOrNone, Validated
<1>4. \A d \in DocNames : docs[d] # NoDoc => docs'[d] # NoDoc
  BY <1>2 DEF IInv, TypeOK, StoreOK
<1>5. RunDocumentIsLast'
  BY <1>2, <1>4 DEF IInv, TypeOK, StoreOK, RunDocumentIsLast, EarlierDocumentsExist, DocNames
<1>6. HistoryOK' /\ LoadedWasRead'
  BY DEF IInv, TypeOK, HistoryOK, LoadedWasRead, history, Validated
<1>7. PartReads' /\ WantedWasRead' /\ StartsAtPipeline'
  BY DEF IInv, TypeOK, LocalsOK, Advance, End, Goto, history, AtRest, PartReads, WantedWasRead,
         StartsAtPipeline, Validated
<1>8. EarlierDocumentsExist'
  BY <1>2, <1>4
     DEF IInv, TypeOK, LocalsOK, Advance, After, End, Goto, EarlierDocumentsExist, DocNames
<1> QED
  BY <1>1, <1>3, <1>5, <1>6, <1>7, <1>8 DEF IInv, TypeOK

LEMMA CheckDocumentIInv ==
  ASSUME IInv, NEW p \in Submitters, CheckDocument(p)
  PROVE  IInv'
<1>1. CASE docs[at[p]] = NoDoc /\ Goto(p, "write") /\ UNCHANGED locals
  <2>1. UNCHANGED <<source, docs, history, deploys, crashes>> /\ pc[p] = "check"
    BY DEF CheckDocument
  <2>2. LocalsOK' /\ StoreOK' /\ HistoryOK'
    BY <1>1, <2>1 DEF IInv, TypeOK, StoreOK, LocalsOK, HistoryOK, Goto, locals, history, Phases
  <2>3. RunDocumentWasRead' /\ LoadedWasRead' /\ RunDocumentIsLast'
    BY <2>1 DEF IInv, history, RunDocumentWasRead, LoadedWasRead, RunDocumentIsLast, Validated
  <2>4. PartReads' /\ WantedWasRead' /\ EarlierDocumentsExist' /\ StartsAtPipeline'
    BY <1>1, <2>1
       DEF IInv, TypeOK, LocalsOK, Goto, locals, history, AtRest, PartReads, WantedWasRead,
           EarlierDocumentsExist, StartsAtPipeline, Validated
  <2> QED
    BY <2>2, <2>3, <2>4 DEF IInv, TypeOK
<1>2. CASE docs[at[p]] = Expected(p, at[p]) /\ Advance(p)
  <2>1. wanted[p] \in Config /\ at[p] \in DocNames
    BY DEF CheckDocument, IInv, TypeOK, LocalsOK, HistoryOK, WantedWasRead, Validated
  <2>2. Expected(p, at[p]) # NoDoc
    BY <2>1, NoDocAssumption DEF Expected, Config, DocNames
  <2> QED
    BY <1>2, <2>2, AdvanceIInv DEF CheckDocument
<1>3. CASE Raise(p)
  BY <1>3, RaiseIInv DEF CheckDocument, Phases, AtRest, history, IInv, TypeOK, HistoryOK
<1> QED
  BY <1>1, <1>2, <1>3 DEF CheckDocument

LEMMA WriteDocumentIInv ==
  ASSUME IInv, NEW p \in Submitters, WriteDocument(p)
  PROVE  IInv'
<1>1. wanted[p] \in Config /\ at[p] \in DocNames
  BY DEF WriteDocument, IInv, TypeOK, LocalsOK, HistoryOK, WantedWasRead, Validated
<1>2. docs'[at[p]] # NoDoc
  BY <1>1, NoDocAssumption DEF WriteDocument, Expected, Config, DocNames, IInv, TypeOK, StoreOK
<1> QED
  BY <1>2, AdvanceIInv DEF WriteDocument

LEMMA RecoverIInv ==
  ASSUME IInv, NEW p \in Submitters, Recover(p)
  PROVE  IInv'
<1>1. CASE docs["run"] = NoDoc
  BY <1>1, EndIInv DEF Recover, AtRest, IInv, TypeOK, HistoryOK, LoadedWasRead, history, Validated
<1>2. CASE docs["run"] # NoDoc
  <2>1. LocalsOK' /\ StoreOK' /\ HistoryOK'
    BY <1>2 DEF IInv, TypeOK, StoreOK, LocalsOK, HistoryOK, Recover, Goto, history, Phases
  <2>2. RunDocumentWasRead' /\ LoadedWasRead' /\ RunDocumentIsLast'
    BY DEF IInv, Recover, history, RunDocumentWasRead, LoadedWasRead, RunDocumentIsLast, Validated
  <2>3. PartReads' /\ WantedWasRead' /\ EarlierDocumentsExist' /\ StartsAtPipeline'
    BY <1>2
       DEF IInv, TypeOK, LocalsOK, Recover, Goto, history, AtRest, PartReads, WantedWasRead,
           EarlierDocumentsExist, StartsAtPipeline, Validated
  <2> QED
    BY <2>1, <2>2, <2>3 DEF IInv, TypeOK
<1> QED
  BY <1>1, <1>2

LEMMA LoadPipelineIInv ==
  ASSUME IInv, NEW p \in Submitters, LoadPipeline(p)
  PROVE  IInv'
<1>1. CASE docs["pipeline"] = NoDoc
  BY <1>1, EndIInv DEF LoadPipeline, AtRest, IInv, TypeOK, HistoryOK, LoadedWasRead, history, Validated
<1>2. CASE docs["pipeline"] # NoDoc
  <2>1. LocalsOK' /\ StoreOK' /\ HistoryOK'
    BY <1>2 DEF IInv, TypeOK, StoreOK, LocalsOK, HistoryOK, LoadPipeline, Goto, history, Phases
  <2>2. RunDocumentWasRead' /\ LoadedWasRead' /\ RunDocumentIsLast'
    BY DEF IInv, LoadPipeline, history, RunDocumentWasRead, LoadedWasRead, RunDocumentIsLast, Validated
  <2>3. PartReads' /\ WantedWasRead' /\ EarlierDocumentsExist' /\ StartsAtPipeline'
    BY <1>2
       DEF IInv, TypeOK, LocalsOK, LoadPipeline, Goto, history, AtRest, PartReads,
           WantedWasRead, EarlierDocumentsExist, StartsAtPipeline, Validated
  <2> QED
    BY <2>1, <2>2, <2>3 DEF IInv, TypeOK
<1> QED
  BY <1>1, <1>2

\* The digest check makes the loaded snapshot the configuration run.json records.
LEMMA LoadCatalogIInv ==
  ASSUME IInv, NEW p \in Submitters, LoadCatalog(p)
  PROVE  IInv'
<1>1. CASE Loadable(p) /\ loads' = loads \cup {LoadedSnapshot(p)}
  <2>1. wanted[p] \in Validated /\ wanted[p] \in Config
    BY DEF LoadCatalog, IInv, TypeOK, HistoryOK, WantedWasRead, Validated
  <2>2. LoadedSnapshot(p) = wanted[p]
    BY <1>1, <2>1 DEF LoadedSnapshot, Loadable, DigestMatches, Config
  <2>3. loads' \subseteq Validated'
    <3>1. reads' = reads
      BY DEF LoadCatalog
    <3> QED
      BY <1>1, <2>1, <2>2, <3>1 DEF IInv, LoadedWasRead, Validated
  <2>4. CASE mode[p] = "worker"
    <3>1. /\ pc[p] = "load_catalog"
          /\ Goto(p, "check")
          /\ at' = [at EXCEPT ![p] = "pipeline"]
          /\ UNCHANGED <<source, docs, mode, guarded, wanted, seen, reads, deploys, crashes>>
      BY <1>1, <2>4 DEF LoadCatalog
    <3>2. LocalsOK' /\ StoreOK' /\ HistoryOK'
      BY <2>3, <3>1
         DEF IInv, TypeOK, StoreOK, LocalsOK, HistoryOK, Goto, Phases, DocNames, Validated
    <3>3. RunDocumentWasRead' /\ LoadedWasRead' /\ RunDocumentIsLast'
      BY <2>3, <3>1 DEF IInv, RunDocumentWasRead, LoadedWasRead, RunDocumentIsLast, Validated
    <3>4. PartReads' /\ WantedWasRead' /\ EarlierDocumentsExist' /\ StartsAtPipeline'
      BY <2>1, <3>1
         DEF IInv, TypeOK, LocalsOK, Goto, AtRest, PartReads, WantedWasRead,
             EarlierDocumentsExist, StartsAtPipeline, Validated
    <3> QED
      BY <3>2, <3>3, <3>4 DEF IInv, TypeOK
  <2>5. CASE mode[p] # "worker"
    <3>1. /\ End(p, "done")
          /\ UNCHANGED <<source, docs, reads, deploys, crashes>>
      BY <1>1, <2>5 DEF LoadCatalog
    <3> QED
      BY <2>3, <3>1, EndIInv DEF AtRest, IInv, TypeOK, HistoryOK
  <2> QED
    BY <2>4, <2>5
<1>2. CASE ~Loadable(p)
  BY <1>2, EndIInv, RaiseIInv
     DEF LoadCatalog, Phases, AtRest, IInv, TypeOK, HistoryOK, LoadedWasRead, Validated
<1> QED
  BY <1>1, <1>2 DEF LoadCatalog

LEMMA DeployIInv ==
  ASSUME IInv, Deploy
  PROVE  IInv'
<1>1. source' \in Config
  <2>1. source \in Config
    BY DEF IInv, TypeOK, StoreOK
  <2>2. \/ \E v \in Pipelines : source' = [source EXCEPT !.pipeline = v]
        \/ \E v \in Catalogs : source' = [source EXCEPT !.catalog = v]
        \/ \E v \in Images : source' = [source EXCEPT !.image = v]
    BY DEF Deploy
  <2> QED
    BY <2>1, <2>2 DEF Config
<1>2. StoreOK' /\ HistoryOK'
  BY <1>1, BoundsAssumption DEF IInv, TypeOK, StoreOK, HistoryOK, Deploy, history
<1>3. LocalsOK' /\ PartReads' /\ WantedWasRead' /\ RunDocumentWasRead' /\ LoadedWasRead'
      /\ EarlierDocumentsExist' /\ StartsAtPipeline' /\ RunDocumentIsLast'
  BY DEF IInv, TypeOK, LocalsOK, Deploy, locals, history, PartReads, WantedWasRead,
         RunDocumentWasRead, LoadedWasRead, EarlierDocumentsExist, StartsAtPipeline,
         RunDocumentIsLast, Validated
<1> QED
  BY <1>2, <1>3 DEF IInv, TypeOK

LEMMA CrashIInv ==
  ASSUME IInv, NEW p \in Submitters, Crash(p)
  PROVE  IInv'
<1>1. crashes' \in 0..MaxCrashes /\ loads' \subseteq Validated'
  BY BoundsAssumption DEF IInv, TypeOK, HistoryOK, LoadedWasRead, Crash, history, Validated
<1> QED
  BY <1>1, EndIInv DEF Crash, AtRest, history

LEMMA NextIInv == IInv /\ [Next]_vars => IInv'
<1> SUFFICES ASSUME IInv, [Next]_vars PROVE IInv'
  OBVIOUS
<1>1. ASSUME NEW p \in Submitters,
             BeginEnsureOrLoad(p) \/ BeginEnsure(p) \/ BeginWorker(p)
      PROVE  IInv'
  BY <1>1, BeginIInv DEF BeginEnsureOrLoad, BeginEnsure, BeginWorker, Modes
<1>2. ASSUME NEW p \in Submitters, Step(p)
      PROVE  IInv'
  BY <1>2, ReadSourcePipelineIInv, ReadSourceCatalogIInv, CheckDocumentIInv, WriteDocumentIInv,
     RecoverIInv, LoadRunIInv, LoadPipelineIInv, LoadCatalogIInv DEF Step
<1>3. CASE UNCHANGED vars
  BY <1>3
     DEF IInv, TypeOK, StoreOK, LocalsOK, HistoryOK, vars, locals, history, PartReads,
         WantedWasRead, RunDocumentWasRead, LoadedWasRead, EarlierDocumentsExist,
         StartsAtPipeline, RunDocumentIsLast, Validated
<1> QED
  BY <1>1, <1>2, <1>3, DeployIInv, CrashIInv DEF Next

LEMMA SpecIInv == Spec => []IInv
  BY InitIInv, NextIInv, PTL DEF Spec

-----------------------------------------------------------------------------
\* The results.

\* Every variable keeps its type, for all constants.
THEOREM SnapshotTypes == Spec => []TypeOK
<1>1. IInv => TypeOK
  BY DEF IInv
<1> QED
  BY <1>1, SpecIInv, PTL

\* No load ever returns a mixture of the documents of two submitters: what
\* load_run_snapshot returns was read and validated as a whole by some submitter.
THEOREM LoadsAreReads == Spec => []LoadedWasRead
<1>1. IInv => LoadedWasRead
  BY DEF IInv
<1> QED
  BY <1>1, SpecIInv, PTL

\* run.json commits the snapshot: whoever finds it finds the other two documents.
THEOREM RunDocumentCommits == Spec => []RunDocumentIsLast
<1>1. IInv => RunDocumentIsLast
  BY DEF IInv
<1> QED
  BY <1>1, SpecIInv, PTL

\* Once the three documents exist and nobody is about to write one of them, no step
\* of any process, deploy or crash changes them or makes anybody about to write.
LEMMA NextSettled == IInv /\ Settled /\ [Next]_vars => Settled' /\ docs' = docs
<1> SUFFICES ASSUME IInv, [Next]_vars, Settled
             PROVE  Settled' /\ docs' = docs
  OBVIOUS
<1>1. \A d \in DocNames : docs[d] # NoDoc
  BY DEF Settled
<1>2. LocalsOK
  BY DEF IInv, TypeOK
<1>3. ASSUME docs' = docs, \A q \in Submitters : pc'[q] # "write"
      PROVE  Settled' /\ docs' = docs
  BY <1>3 DEF Settled
<1>4. ASSUME NEW p \in Submitters, NEW phase \in Phases \ {"write"}, Goto(p, phase)
      PROVE  \A q \in Submitters : pc'[q] # "write"
  BY <1>2, <1>4 DEF Goto, LocalsOK, Settled
<1>5. ASSUME NEW p \in Submitters,
             BeginEnsureOrLoad(p) \/ BeginEnsure(p) \/ BeginWorker(p) \/ Crash(p)
      PROVE  Settled' /\ docs' = docs
  BY <1>3, <1>4, <1>5
     DEF BeginEnsureOrLoad, BeginEnsure, BeginWorker, Begin, Crash, End, Phases
<1>6. ASSUME NEW p \in Submitters, CheckDocument(p)
      PROVE  Settled' /\ docs' = docs
  <2>1. docs[at[p]] # NoDoc
    BY <1>1, <1>2 DEF LocalsOK
  <2> QED
    BY <1>3, <1>4, <1>6, <2>1 DEF CheckDocument, Advance, Raise, End, Phases
<1>7. ASSUME NEW p \in Submitters, WriteDocument(p)
      PROVE  Settled' /\ docs' = docs
  BY <1>7 DEF WriteDocument, Settled
<1>8. ASSUME NEW p \in Submitters,
             ReadSourcePipeline(p) \/ ReadSourceCatalog(p) \/ Recover(p) \/ LoadRun(p)
             \/ LoadPipeline(p) \/ LoadCatalog(p)
      PROVE  Settled' /\ docs' = docs
  BY <1>3, <1>4, <1>8
     DEF ReadSourcePipeline, ReadSourceCatalog, Recover, LoadRun, LoadPipeline, LoadCatalog,
         Raise, End, Phases
<1>9. CASE Deploy \/ UNCHANGED vars
  BY <1>3, <1>9 DEF Deploy, vars, Settled
<1> QED
  BY <1>5, <1>6, <1>7, <1>8, <1>9 DEF Next, Step

\* A settled snapshot is final.
THEOREM SettledSnapshotIsFinal == Spec => SettledIsFinal
  BY SpecIInv, NextSettled, PTL DEF Spec, SettledIsFinal

-----------------------------------------------------------------------------
\* The refinement of WriteOnce.

\* Each stored document is a part of a configuration that was read as a whole.
PartsWereRead ==
    /\ docs["pipeline"] # NoDoc => \E a \in Validated : docs["pipeline"] = a.pipeline
    /\ docs["catalog"] # NoDoc => \E a \in Validated : docs["catalog"] = a.catalog

LEMMA ReadsGrow == [Next]_vars => reads \subseteq reads' /\ Validated \subseteq Validated'
<1>1. [Next]_vars => reads \subseteq reads'
  BY DEF Next, Step, BeginEnsureOrLoad, BeginEnsure, BeginWorker, Begin, ReadSourcePipeline,
           ReadSourceCatalog, CheckDocument, WriteDocument, Recover, LoadRun, LoadPipeline,
           LoadCatalog, Deploy, Crash, vars, history
<1> QED
  BY <1>1 DEF Validated, Fits

LEMMA OnlyWritesChange ==
  [Next]_vars => \/ docs' = docs
                 \/ \E p \in Submitters : WriteDocument(p)
  BY DEF Next, Step, BeginEnsureOrLoad, BeginEnsure, BeginWorker, Begin, ReadSourcePipeline,
         ReadSourceCatalog, CheckDocument, Recover, LoadRun, LoadPipeline,
         LoadCatalog, Deploy, Crash, vars

LEMMA NextPartsWereRead == IInv /\ PartsWereRead /\ [Next]_vars => PartsWereRead'
<1> SUFFICES ASSUME IInv, PartsWereRead, [Next]_vars PROVE PartsWereRead'
  OBVIOUS
<1>1. Validated \subseteq Validated'
  BY ReadsGrow
<1>2. CASE docs' = docs
  BY <1>1, <1>2 DEF PartsWereRead, Validated
<1>3. ASSUME NEW p \in Submitters, WriteDocument(p) PROVE PartsWereRead'
  <2>1. wanted[p] \in Validated /\ at[p] \in DocNames
    BY <1>3 DEF WriteDocument, IInv, TypeOK, LocalsOK, WantedWasRead, Validated
  <2>2. docs' = [docs EXCEPT ![at[p]] = Expected(p, at[p])] /\ reads' = reads
    BY <1>3 DEF WriteDocument, history
  <2>3. docs \in [DocNames -> Pipelines \cup Catalogs \cup DocOrNone(Config)]
    BY DEF IInv, TypeOK, StoreOK
  <2>4. docs'["pipeline"] # NoDoc => \E a \in Validated : docs'["pipeline"] = a.pipeline
    BY <2>1, <2>2, <2>3 DEF Expected, DocNames, PartsWereRead, Validated
  <2>5. docs'["catalog"] # NoDoc => \E a \in Validated : docs'["catalog"] = a.catalog
    BY <2>1, <2>2, <2>3 DEF Expected, DocNames, PartsWereRead, Validated
  <2> QED
    BY <2>2, <2>4, <2>5 DEF PartsWereRead, Validated
<1> QED
  BY <1>2, <1>3, OnlyWritesChange

\* A settled snapshot consists of parts of configurations that were read.
Proposals == {[pipeline |-> a.pipeline, catalog |-> b.catalog, run |-> c] : a, b, c \in Validated}
SettledWasProposed == Settled => docs \in Proposals

LEMMA PartsMakeProposals == IInv /\ PartsWereRead => SettledWasProposed
<1> SUFFICES ASSUME IInv, PartsWereRead, Settled PROVE docs \in Proposals
  BY DEF SettledWasProposed
<1>1. PICK a \in Validated : docs["pipeline"] = a.pipeline
  BY DEF Settled, DocNames, PartsWereRead, Validated
<1>2. PICK b \in Validated : docs["catalog"] = b.catalog
  BY DEF Settled, DocNames, PartsWereRead, Validated
<1>3. docs["run"] \in Validated
  BY DEF Settled, DocNames, IInv, RunDocumentWasRead, Validated
<1>4. docs = [pipeline |-> docs["pipeline"], catalog |-> docs["catalog"], run |-> docs["run"]]
  BY DEF IInv, TypeOK, StoreOK, DocNames
<1> QED
  BY <1>1, <1>2, <1>3, <1>4 DEF Proposals

\* The snapshot implements WriteOnce: whatever the races, crashes and deploys, it settles
\* on documents that submitters have read and validated, and stays that.
THEOREM SnapshotSettlesOnce == Spec => SettlesOnce
<1>1. Init => PartsWereRead /\ Register!Init
  BY DEF Init, PartsWereRead, Register!Init, Settled, DocNames, Validated
<1>2. IInv /\ SettledWasProposed' /\ [Next]_vars => [Register!Next]_(Register!vars)
  <2> SUFFICES ASSUME IInv, SettledWasProposed', [Next]_vars
               PROVE  Register!Next
    OBVIOUS
  <2>1. Proposals \subseteq Proposals'
    BY ReadsGrow DEF Proposals
  <2>2. CASE Settled
    BY <2>1, <2>2, NextSettled DEF Proposals, Register!Next, Register!Propose
  <2>3. CASE ~Settled /\ ~Settled'
    BY <2>1, <2>3 DEF Proposals, Register!Next, Register!Propose
  <2>4. CASE ~Settled /\ Settled'
    BY <2>1, <2>4 DEF SettledWasProposed, Proposals, Register!Next, Register!Settle
  <2> QED
    BY <2>2, <2>3, <2>4
<1>3. Spec => []PartsWereRead
  BY <1>1, SpecIInv, NextPartsWereRead, PTL DEF Spec
<1> QED
  BY <1>1, <1>2, <1>3, SpecIInv, PartsMakeProposals, PTL
     DEF Spec, SettlesOnce, Register!Spec

-----------------------------------------------------------------------------
\* While one configuration is read, nobody fails.

\* A load starts when run.json is there, and has read the pipeline.json of that run.json;
\* nobody has met a conflict.
NoFailure ==
    /\ loads # {} => docs["run"] # NoDoc
    /\ \A p \in Submitters :
          pc[p] \in {"load_run", "load_pipeline", "load_catalog"} => docs["run"] # NoDoc
    /\ OneConfig => \A p \in Submitters :
          /\ pc[p] \notin {"recover", "failed"}
          /\ pc[p] = "load_catalog" => seen[p] = wanted[p].pipeline

LEMMA DocumentsStay ==
  IInv /\ [Next]_vars => \A d \in DocNames : docs[d] # NoDoc => docs'[d] # NoDoc
<1> SUFFICES ASSUME IInv, NEW p \in Submitters, WriteDocument(p)
             PROVE  \A d \in DocNames : docs[d] # NoDoc => docs'[d] # NoDoc
  BY OnlyWritesChange
<1>1. wanted[p] \in Config /\ at[p] \in DocNames
  BY DEF WriteDocument, IInv, TypeOK, LocalsOK, HistoryOK, WantedWasRead, Validated
<1>2. docs'[at[p]] # NoDoc
  BY <1>1, NoDocAssumption DEF WriteDocument, Expected, Config, DocNames, IInv, TypeOK, StoreOK
<1> QED
  BY <1>2 DEF WriteDocument, IInv, TypeOK, StoreOK

\* What a process finds is what it wants.
LEMMA FindsWhatItWants ==
  ASSUME IInv, PartsWereRead, OneConfig, NEW p \in Submitters,
         pc[p] \in {"check", "write", "load_pipeline", "load_catalog"}, NEW d \in DocNames,
         docs[d] # NoDoc
  PROVE  docs[d] = Expected(p, d)
<1>1. wanted[p] \in Validated
  BY DEF IInv, WantedWasRead, Validated
<1> QED
  BY <1>1 DEF OneConfig, PartsWereRead, IInv, RunDocumentWasRead, Expected, DocNames, Validated

LEMMA OneConfigWas == [Next]_vars /\ OneConfig' => OneConfig
  BY ReadsGrow DEF OneConfig, Fits

\* A step of p to another phase, without a conflict if there is one configuration.
LEMMA GotoNoFailure ==
  ASSUME IInv, NoFailure, [Next]_vars, NEW p \in Submitters, NEW phase \in Phases,
         Goto(p, phase),
         loads' # {} => docs'["run"] # NoDoc,
         phase \in {"load_run", "load_pipeline", "load_catalog"} => docs'["run"] # NoDoc,
         OneConfig' => phase \notin {"recover", "failed"},
         OneConfig' /\ phase = "load_catalog" => seen'[p] = wanted'[p].pipeline,
         \A q \in Submitters \ {p} : wanted'[q] = wanted[q] /\ seen'[q] = seen[q]
  PROVE  NoFailure'
<1>1. pc'[p] = phase /\ \A q \in Submitters \ {p} : pc'[q] = pc[q]
  BY DEF Goto, IInv, TypeOK, LocalsOK
<1>2. docs["run"] # NoDoc => docs'["run"] # NoDoc
  BY DocumentsStay DEF DocNames
<1>3. OneConfig' => OneConfig
  BY OneConfigWas
<1> QED
  BY <1>1, <1>2, <1>3 DEF NoFailure

\* The end of a process that has not failed.
LEMMA EndNoFailure ==
  ASSUME IInv, NoFailure, [Next]_vars, NEW p \in Submitters, NEW phase \in AtRest,
         End(p, phase), loads' # {} => docs'["run"] # NoDoc, OneConfig' => phase # "failed"
  PROVE  NoFailure'
<1>1. \A q \in Submitters \ {p} : wanted'[q] = wanted[q] /\ seen'[q] = seen[q]
  BY DEF End, IInv, TypeOK, LocalsOK
<1> QED
  BY <1>1, GotoNoFailure DEF End, AtRest, Phases

LEMMA BeginNoFailure ==
  ASSUME IInv, NoFailure, [Next]_vars, NEW p \in Submitters,
         BeginEnsureOrLoad(p) \/ BeginEnsure(p) \/ BeginWorker(p) \/ Crash(p)
  PROVE  NoFailure'
<1>1. UNCHANGED <<docs, loads>>
  BY DEF BeginEnsureOrLoad, BeginEnsure, BeginWorker, Begin, Crash, history
<1>2. CASE Crash(p)
  BY <1>1, <1>2, EndNoFailure DEF Crash, AtRest, NoFailure
<1>3. ASSUME NEW m \in Modes, NEW try \in BOOLEAN, NEW phase \in {"read_pipeline", "load_run"},
             Begin(p, m, try, phase), phase = "load_run" => docs["run"] # NoDoc
      PROVE  NoFailure'
  <2>1. \A q \in Submitters \ {p} : wanted'[q] = wanted[q] /\ seen'[q] = seen[q]
    BY <1>3 DEF Begin, IInv, TypeOK, LocalsOK
  <2> QED
    BY <1>1, <1>3, <2>1, GotoNoFailure DEF Begin, Phases, NoFailure
<1> QED
  BY <1>2, <1>3 DEF BeginEnsureOrLoad, BeginEnsure, BeginWorker, Modes, NoFailure

\* A pair that does not validate has been read, so that there is not one configuration.
LEMMA ReadSourceNoFailure ==
  ASSUME IInv, NoFailure, [Next]_vars, NEW p \in Submitters,
         ReadSourcePipeline(p) \/ ReadSourceCatalog(p)
  PROVE  NoFailure'
<1> DEFINE read == [wanted[p] EXCEPT !.catalog = source.catalog]
<1>1. UNCHANGED <<docs, loads>>
  BY DEF ReadSourcePipeline, ReadSourceCatalog, history
<1>2. CASE ReadSourcePipeline(p)
  <2>1. \A q \in Submitters \ {p} : wanted'[q] = wanted[q] /\ seen'[q] = seen[q]
    BY <1>2 DEF ReadSourcePipeline, IInv, TypeOK, LocalsOK
  <2> QED
    BY <1>1, <1>2, <2>1, GotoNoFailure DEF ReadSourcePipeline, Phases, NoFailure
<1>3. CASE ReadSourceCatalog(p) /\ Fits(read)
  <2>1. Goto(p, "check") /\ wanted' = [wanted EXCEPT ![p] = read] /\ seen' = seen
    BY <1>3 DEF ReadSourceCatalog
  <2>2. \A q \in Submitters \ {p} : wanted'[q] = wanted[q] /\ seen'[q] = seen[q]
    BY <2>1 DEF IInv, TypeOK, LocalsOK
  <2> QED
    BY <1>1, <2>1, <2>2, GotoNoFailure DEF Phases, NoFailure
<1>4. CASE ReadSourceCatalog(p) /\ ~Fits(read)
  <2>1. ~OneConfig' /\ Raise(p)
    BY <1>4 DEF ReadSourceCatalog, OneConfig, Fits
  <2>2. CASE Goto(p, "recover") /\ UNCHANGED locals
    BY <1>1, <2>1, <2>2, GotoNoFailure DEF Phases, NoFailure, locals
  <2>3. CASE End(p, "failed")
    BY <1>1, <2>1, <2>3, EndNoFailure DEF AtRest, NoFailure
  <2> QED
    BY <2>1, <2>2, <2>3 DEF Raise
<1> QED
  BY <1>2, <1>3, <1>4

\* Going on once the current document is in place.
LEMMA AdvanceNoFailure ==
  ASSUME IInv, NoFailure, [Next]_vars, NEW p \in Submitters, Advance(p),
         docs'[at[p]] # NoDoc, loads' = loads
  PROVE  NoFailure'
<1>1. loads' # {} => docs'["run"] # NoDoc
  BY DocumentsStay DEF NoFailure, DocNames
<1>2. CASE End(p, "done")
  BY <1>1, <1>2, EndNoFailure DEF AtRest
<1>3. CASE /\ Goto(p, IF at[p] = "run" THEN "load_run" ELSE "check")
           /\ UNCHANGED <<wanted, seen>>
  BY <1>1, <1>3, GotoNoFailure DEF Phases
<1> QED
  BY <1>2, <1>3 DEF Advance

LEMMA DocumentNoFailure ==
  ASSUME IInv, PartsWereRead, NoFailure, [Next]_vars, NEW p \in Submitters,
         CheckDocument(p) \/ WriteDocument(p)
  PROVE  NoFailure'
<1>1. wanted[p] \in Config /\ at[p] \in DocNames /\ loads' = loads
  BY DEF CheckDocument, WriteDocument, IInv, TypeOK, LocalsOK, HistoryOK, WantedWasRead, history, Validated
<1>2. Expected(p, at[p]) # NoDoc
  BY <1>1, NoDocAssumption DEF Expected, Config, DocNames
<1>3. CASE WriteDocument(p)
  <2>1. docs'[at[p]] # NoDoc
    BY <1>1, <1>2, <1>3 DEF WriteDocument, IInv, TypeOK, StoreOK
  <2> QED
    BY <1>1, <1>3, <2>1, AdvanceNoFailure DEF WriteDocument
<1>4. CASE CheckDocument(p) /\ docs[at[p]] = NoDoc /\ Goto(p, "write") /\ UNCHANGED locals
  BY <1>1, <1>4, GotoNoFailure DEF CheckDocument, Phases, NoFailure, locals
<1>5. CASE CheckDocument(p) /\ docs[at[p]] = Expected(p, at[p]) /\ Advance(p)
  BY <1>1, <1>2, <1>5, AdvanceNoFailure DEF CheckDocument
<1>6. CASE CheckDocument(p) /\ docs[at[p]] \notin {NoDoc, Expected(p, at[p])} /\ Raise(p)
  <2>1. ~OneConfig' /\ UNCHANGED docs
    BY <1>1, <1>6, FindsWhatItWants, OneConfigWas DEF CheckDocument
  <2>2. CASE Goto(p, "recover") /\ UNCHANGED locals
    BY <1>1, <2>1, <2>2, GotoNoFailure DEF Phases, NoFailure, locals
  <2>3. CASE End(p, "failed")
    BY <1>1, <2>1, <2>3, EndNoFailure DEF AtRest, NoFailure
  <2> QED
    BY <1>6, <2>2, <2>3 DEF Raise
<1> QED
  BY <1>3, <1>4, <1>5, <1>6 DEF CheckDocument

LEMMA LoadNoFailure ==
  ASSUME IInv, PartsWereRead, NoFailure, [Next]_vars, NEW p \in Submitters,
         Recover(p) \/ LoadRun(p) \/ LoadPipeline(p) \/ LoadCatalog(p)
  PROVE  NoFailure'
<1>0. UNCHANGED docs
  BY DEF Recover, LoadRun, LoadPipeline, LoadCatalog
<1>1. CASE Recover(p)
  <2>1. ~OneConfig' /\ loads' = loads
    BY <1>1, OneConfigWas DEF Recover, NoFailure, history
  <2>2. CASE End(p, "failed")
    BY <1>0, <2>1, <2>2, EndNoFailure DEF AtRest, NoFailure
  <2>3. CASE docs["run"] # NoDoc /\ Goto(p, "load_run") /\ UNCHANGED <<wanted, seen>>
    BY <1>0, <2>1, <2>3, GotoNoFailure DEF Phases, NoFailure
  <2> QED
    BY <1>1, <2>2, <2>3 DEF Recover
<1>2. CASE LoadRun(p)
  <2>1. docs["run"] # NoDoc /\ loads' = loads
    BY <1>2 DEF LoadRun, NoFailure, history
  <2>2. \A q \in Submitters \ {p} : wanted'[q] = wanted[q] /\ seen'[q] = seen[q]
    BY <1>2, <2>1 DEF LoadRun, IInv, TypeOK, LocalsOK
  <2> QED
    BY <1>0, <1>2, <2>1, <2>2, GotoNoFailure DEF LoadRun, Phases
<1>3. CASE LoadPipeline(p)
  <2>1. docs["run"] # NoDoc /\ docs["pipeline"] # NoDoc /\ loads' = loads
    BY <1>3 DEF LoadPipeline, NoFailure, history, IInv, RunDocumentIsLast
  <2>2. /\ Goto(p, "load_catalog") /\ UNCHANGED wanted
        /\ seen' = [seen EXCEPT ![p] = docs["pipeline"]]
    BY <1>3, <2>1 DEF LoadPipeline
  <2>3. OneConfig' => seen'[p] = wanted[p].pipeline
    BY <1>3, <2>1, <2>2, FindsWhatItWants, OneConfigWas
       DEF LoadPipeline, Expected, DocNames, IInv, TypeOK, LocalsOK
  <2>4. \A q \in Submitters \ {p} : wanted'[q] = wanted[q] /\ seen'[q] = seen[q]
    BY <2>2 DEF IInv, TypeOK, LocalsOK
  <2> QED
    BY <1>0, <2>1, <2>2, <2>3, <2>4, GotoNoFailure DEF Phases
<1>4. CASE LoadCatalog(p)
  <2>1. docs["run"] # NoDoc /\ docs["catalog"] # NoDoc
    BY <1>4 DEF LoadCatalog, NoFailure, IInv, RunDocumentIsLast
  <2>2. OneConfig' => Loadable(p)
    <3> SUFFICES ASSUME OneConfig' PROVE Loadable(p)
      OBVIOUS
    <3>1. OneConfig /\ pc[p] = "load_catalog"
      BY <1>4, OneConfigWas DEF LoadCatalog
    <3>2. wanted[p] \in Validated /\ Fits(wanted[p])
      BY <3>1 DEF IInv, WantedWasRead, Validated
    <3>3. DigestMatches(p)
      BY <2>1, <3>1, FindsWhatItWants DEF NoFailure, DigestMatches, Expected, DocNames
    <3> QED
      BY <3>2, <3>3 DEF Loadable, LoadedSnapshot, DigestMatches, Fits
  <2>3. CASE Goto(p, "check") /\ UNCHANGED <<wanted, seen>>
    BY <1>0, <2>1, <2>3, GotoNoFailure DEF Phases
  <2>4. CASE End(p, "done")
    BY <1>0, <2>1, <2>4, EndNoFailure DEF AtRest
  <2>5. CASE ~Loadable(p) /\ Raise(p)
    <3>1. CASE Goto(p, "recover") /\ UNCHANGED locals
      BY <1>0, <2>1, <2>2, <2>5, <3>1, GotoNoFailure DEF Phases, locals
    <3>2. CASE End(p, "failed")
      BY <1>0, <2>1, <2>2, <2>5, <3>2, EndNoFailure DEF AtRest
    <3> QED
      BY <2>5, <3>1, <3>2 DEF Raise
  <2> QED
    BY <1>4, <2>1, <2>3, <2>4, <2>5 DEF LoadCatalog
<1> QED
  BY <1>1, <1>2, <1>3, <1>4

LEMMA NextNoFailure == IInv /\ PartsWereRead /\ NoFailure /\ [Next]_vars => NoFailure'
<1> SUFFICES ASSUME IInv, PartsWereRead, NoFailure, [Next]_vars PROVE NoFailure'
  OBVIOUS
<1>1. CASE Deploy \/ UNCHANGED vars
  BY <1>1 DEF Deploy, vars, locals, history, NoFailure, OneConfig, Validated
<1> QED
  BY <1>1, BeginNoFailure, ReadSourceNoFailure, DocumentNoFailure, LoadNoFailure DEF Next, Step

\* A submitter or a worker fails only after two submitters have read different sources, or
\* one has read a pair that does not validate.
THEOREM FailuresNeedTwoConfigs == Spec => []OneConfigNeverFails
<1>1. Init => PartsWereRead /\ NoFailure
  BY DEF Init, PartsWereRead, NoFailure, DocNames, Validated
<1>2. NoFailure => OneConfigNeverFails
  BY DEF NoFailure, OneConfigNeverFails
<1>3. Spec => [](PartsWereRead /\ NoFailure)
  BY <1>1, SpecIInv, NextPartsWereRead, NextNoFailure, PTL DEF Spec
<1> QED
  BY <1>2, <1>3, PTL
=============================================================================
