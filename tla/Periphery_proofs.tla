--------------------------- MODULE Periphery_proofs ---------------------------
(* Theorems about what runs beside the pipeline: SourceCache, for any          *)
(* parameters, hours and number of jobs; ArtifactSync, for any datasets, runs  *)
(* and expiries; PayloadCache, for any finite scopes and files, any readers,   *)
(* limits and faults; ForecastSync, for any times, views, hosts, loads and     *)
(* events.                                                                     *)
EXTENDS MCPeriphery, FiniteSetTheorems, TLAPS

-----------------------------------------------------------------------------
\* SourceCache: the inductive invariant.

Contents == {"absent", "broken", "whole"}

\* SourceFiles have a content, and the job writes one of them at most.
FilesTyped ==
    /\ disk \in [Source!SourceFiles -> Contents]
    /\ job.writing \in Source!SourceFiles \cup {None}
    /\ job.content \in Contents \cup {None}
    /\ job.writing # None => job.content \in Contents \ {"absent"}
    /\ DOMAIN job = DOMAIN Source!NoJob

\* Only what ICON and MRMS download may end early: what is made of it is whole, on the disk ...
MadeOfWhole ==
    \A key \in Source!Keys : key.kind # "gfs" =>
        /\ ~Source!Is(key, "plain", "broken")
        /\ ~Source!Is(key, "regridded", "broken")

\* ... and in the temporary file of the job.
WritesWhole ==
    \A key \in Source!Keys, stage \in {"plain", "regridded"} :
        key.kind # "gfs" /\ job.writing # None /\ job.writing = Source!File(key, stage)
            => job.content = "whole"

\* A regridded file lies beside the file it was made of, and so will one that is written.
RegriddedHasPlain ==
    \A key \in Source!Keys :
        ~Source!Missing(key, "regridded") \/ (job.writing # None
              /\ job.writing = Source!File(key, "regridded"))
            => ~Source!Missing(key, "plain")

SourceIInv == FilesTyped /\ MadeOfWhole /\ WritesWhole /\ RegriddedHasPlain

\* The files of a key are files, and two of them are the same only for one key and stage.
LEMMA FilesDiffer ==
    ASSUME NEW key \in Source!Keys, NEW stage \in Source!Stages
    PROVE  /\ Source!File(key, stage) \in Source!SourceFiles
           /\ \A other, s : Source!File(other, s) = Source!File(key, stage)
                 => other = key /\ s = stage
  BY DEF Source!File, Source!SourceFiles

LEMMA SourceInitIInv == Source!Init => SourceIInv
<1> SUFFICES ASSUME Source!Init PROVE SourceIInv
  OBVIOUS
<1>1. job.writing = None /\ job.content = None /\ DOMAIN job = DOMAIN Source!NoJob
  BY DEF Source!Init, Source!NoJob
<1>2. disk \in [Source!SourceFiles -> Contents]
      /\ \A f \in Source!SourceFiles : disk[f] = "absent"
  BY DEF Source!Init, Contents
<1>3. \A key \in Source!Keys, stage \in Source!Stages : disk[Source!File(key, stage)] = "absent"
  BY <1>2, FilesDiffer
<1> QED
  BY <1>1, <1>2, <1>3 DEF SourceIInv, FilesTyped, MadeOfWhole, WritesWhole, RegriddedHasPlain,
       Source!Is,
     Source!Missing, Source!Stages

\* A job without a file in hand, on a disk that only lost files, a file made of another one
\* before that one.
LEMMA SourceIdleStep ==
    ASSUME SourceIInv, disk' \in [Source!SourceFiles -> Contents],
           \A f \in Source!SourceFiles : disk'[f] \in {disk[f], "absent"},
           \A key \in Source!Keys : disk'[Source!File(key, "plain")] = "absent"
                               /\ disk[Source!File(key, "plain")] # "absent"
                             => disk'[Source!File(key, "regridded")] = "absent",
           job'.writing = None, job'.content \in Contents \cup {None},
           DOMAIN job' = DOMAIN Source!NoJob
    PROVE  SourceIInv'
<1>1. \A key \in Source!Keys, stage \in Source!Stages :
        disk'[Source!File(key, stage)] \in {disk[Source!File(key, stage)], "absent"}
  BY FilesDiffer
<1>2. FilesTyped'
  BY DEF SourceIInv, FilesTyped
<1>3. MadeOfWhole'
  BY <1>1 DEF SourceIInv, MadeOfWhole, Source!Is, Source!Stages
<1>4. WritesWhole'
  BY DEF WritesWhole
<1>5. RegriddedHasPlain'
  <2>1. ASSUME NEW key \in Source!Keys, disk'[Source!File(key, "regridded")] # "absent"
        PROVE  disk'[Source!File(key, "plain")] # "absent"
    <3>1. disk[Source!File(key, "regridded")] # "absent"
      BY <1>1, <2>1 DEF Source!Stages
    <3>2. disk[Source!File(key, "plain")] # "absent"
      BY <3>1 DEF SourceIInv, RegriddedHasPlain, Source!Missing, Source!Is
    <3> QED
      BY <2>1, <3>2
  <2> QED
    BY <2>1 DEF RegriddedHasPlain, Source!Missing, Source!Is
<1> QED
  BY <1>2, <1>3, <1>4, <1>5 DEF SourceIInv

LEMMA SourceBeginStep ==
    ASSUME SourceIInv, NEW keys, Source!Begin(keys)
    PROVE  SourceIInv'
<1>1. disk' = Source!Temporary(disk)
      /\ job' = [Source!NoJob EXCEPT !.keys = keys, !.state = "running"]
  BY DEF Source!Begin
<1>2. job'.writing = None /\ job'.content \in Contents \cup {None}
      /\ DOMAIN job' = DOMAIN Source!NoJob
  BY <1>1 DEF Source!NoJob
<1>3. \A key \in Source!Keys, stage \in Source!Stages :
        Source!File(key, stage) \in Source!SourceFiles /\ Source!File(key, stage).key = key
  BY DEF Source!File, Source!SourceFiles
<1>4. disk' \in [Source!SourceFiles -> Contents]
      /\ \A f \in Source!SourceFiles : disk'[f] \in {disk[f], "absent"}
  BY <1>1 DEF Source!Temporary, SourceIInv, FilesTyped, Contents
<1>5. \A key \in Source!Keys : disk'[Source!File(key, "plain")] = "absent"
      /\ disk[Source!File(key, "plain")] # "absent"
                        => disk'[Source!File(key, "regridded")] = "absent"
  BY <1>1, <1>3 DEF Source!Temporary, Source!Stages
<1> QED
  BY <1>2, <1>4, <1>5, SourceIdleStep

\* A job begins to write a file: whole unless it is downloaded, a regridded one beside the
\* file it is made of.
LEMMA StartWritingStep ==
    ASSUME SourceIInv, NEW key \in Source!Keys, NEW stage \in Source!Stages,
           NEW content \in Contents \ {"absent"},
           Source!StartWriting(key, stage, content),
           key.kind # "gfs" /\ stage # "compressed" => content = "whole",
           stage = "regridded" => ~Source!Missing(key, "plain")
    PROVE  SourceIInv'
<1>1. job' = [job EXCEPT !.writing = Source!File(key, stage), !.content = content] /\ disk' = disk
  BY DEF Source!StartWriting, Source!Started
<1>2. job'.writing = Source!File(key, stage) /\ job'.content = content /\ DOMAIN job' = DOMAIN job
  BY <1>1 DEF SourceIInv, FilesTyped, Source!NoJob
<1>3. Source!File(key, stage) \in Source!SourceFiles
      /\ \A other, s : Source!File(other, s) = Source!File(key, stage) => other = key /\ s = stage
  BY FilesDiffer
<1>4. FilesTyped' /\ MadeOfWhole'
  BY <1>1, <1>2, <1>3 DEF SourceIInv, FilesTyped, MadeOfWhole, Source!Is
<1>5. WritesWhole'
  BY <1>2, <1>3 DEF WritesWhole
<1>6. RegriddedHasPlain'
  BY <1>1, <1>2, <1>3 DEF SourceIInv, RegriddedHasPlain, Source!Missing, Source!Is
<1> QED
  BY <1>4, <1>5, <1>6 DEF SourceIInv

LEMMA FetchStep ==
    ASSUME SourceIInv, NEW key \in Source!Keys,
           Source!FetchIcon(key) \/ Source!FetchMrms(key) \/ Source!FetchGfs(key)
    PROVE  SourceIInv'
<1>1. PICK content \in Contents \ {"absent"}, stage \in Source!Stages :
        /\ Source!StartWriting(key, stage, content)
        /\ stage # "regridded"
        /\ key.kind # "gfs" => stage = "compressed"
  BY DEF Source!FetchIcon, Source!FetchMrms, Source!FetchGfs, Source!MustFetchIcon,
       Source!Transferred, Contents, Source!Stages
<1> QED
  BY <1>1, StartWritingStep

LEMMA DecompressStep ==
    ASSUME SourceIInv, NEW key \in Source!Keys, Source!Decompress(key)
    PROVE  SourceIInv'
<1>1. Source!StartWriting(key, "plain", "whole")
  BY DEF Source!Decompress
<1> QED
  BY <1>1, StartWritingStep DEF Source!Stages, Contents

LEMMA RegridStep ==
    ASSUME SourceIInv, NEW key \in Source!Keys, Source!Regrid(key)
    PROVE  SourceIInv'
<1>1. Source!StartWriting(key, "regridded", disk[Source!File(key, "plain")])
      /\ ~Source!Missing(key, "plain")
      /\ key.kind = "icon"
  BY DEF Source!Regrid
<1>2. Source!File(key, "plain") \in Source!SourceFiles
  BY FilesDiffer DEF Source!Stages
<1>3. disk[Source!File(key, "plain")] = "whole"
  BY <1>1, <1>2 DEF SourceIInv, FilesTyped, MadeOfWhole, Source!Missing, Source!Is, Contents
<1> QED
  BY <1>1, <1>3, StartWritingStep DEF Source!Stages, Contents

\* The file that was written takes its place.
LEMMA ReplaceStep ==
    ASSUME SourceIInv, Source!Replace
    PROVE  SourceIInv'
<1>1. job.writing \in Source!SourceFiles /\ job.writing # None
  BY DEF Source!Replace, SourceIInv, FilesTyped
<1>2. PICK key \in Source!Keys, stage \in Source!Stages : job.writing = Source!File(key, stage)
  BY <1>1 DEF Source!SourceFiles
<1>3. /\ disk' = [disk EXCEPT ![Source!File(key, stage)] = job.content]
      /\ job' = [job EXCEPT !.writing = None, !.content = None]
  BY <1>2 DEF Source!Replace
<1>4. job'.writing = None /\ job'.content = None /\ DOMAIN job' = DOMAIN job
  BY <1>3 DEF SourceIInv, FilesTyped, Source!NoJob
<1>5. Source!File(key, stage) \in Source!SourceFiles
      /\ \A other, s : Source!File(other, s) = Source!File(key, stage) => other = key /\ s = stage
  BY FilesDiffer
<1>6. job.content \in Contents \ {"absent"}
  BY <1>1 DEF SourceIInv, FilesTyped
<1>7. FilesTyped'
  BY <1>3, <1>4, <1>5, <1>6 DEF SourceIInv, FilesTyped
<1>8. MadeOfWhole'
  <2> SUFFICES ASSUME NEW k \in Source!Keys, k.kind # "gfs", NEW s \in {"plain", "regridded"}
               PROVE  disk'[Source!File(k, s)] # "broken"
    BY DEF MadeOfWhole, Source!Is
  <2>1. disk[Source!File(k, s)] # "broken" /\ Source!File(k, s) \in Source!SourceFiles
    BY FilesDiffer DEF SourceIInv, MadeOfWhole, Source!Is, Source!Stages
  <2>2. Source!File(k, s) = Source!File(key, stage) => job.content = "whole"
    BY <1>1, <1>2 DEF SourceIInv, WritesWhole
  <2> QED
    BY <1>3, <1>5, <2>1, <2>2 DEF SourceIInv, FilesTyped
<1>9. WritesWhole'
  BY <1>4 DEF WritesWhole
<1>10. RegriddedHasPlain'
  <2> SUFFICES ASSUME NEW k \in Source!Keys, disk'[Source!File(k, "regridded")] # "absent"
               PROVE  disk'[Source!File(k, "plain")] # "absent"
    BY <1>4 DEF RegriddedHasPlain, Source!Missing, Source!Is
  <2>1. Source!File(k, "plain") \in Source!SourceFiles
        /\ Source!File(k, "regridded") \in Source!SourceFiles
    BY FilesDiffer DEF Source!Stages
  <2>2. disk[Source!File(k, "plain")] # "absent"
    <3>1. CASE Source!File(k, "regridded") = Source!File(key, stage)
      BY <1>1, <1>2, <3>1 DEF SourceIInv, RegriddedHasPlain, Source!Missing, Source!Is
    <3>2. CASE Source!File(k, "regridded") # Source!File(key, stage)
      <4>1. disk[Source!File(k, "regridded")] # "absent"
        BY <1>3, <2>1, <3>2 DEF SourceIInv, FilesTyped
      <4> QED
        BY <4>1 DEF SourceIInv, RegriddedHasPlain, Source!Missing, Source!Is
    <3> QED
      BY <3>1, <3>2
  <2>3. CASE Source!File(k, "plain") = Source!File(key, stage)
    <3>1. disk'[Source!File(k, "plain")] = job.content
      BY <1>3, <1>5, <2>3 DEF SourceIInv, FilesTyped
    <3> QED
      BY <1>6, <3>1
  <2>4. CASE Source!File(k, "plain") # Source!File(key, stage)
    BY <1>3, <2>1, <2>2, <2>4 DEF SourceIInv, FilesTyped
  <2> QED
    BY <2>3, <2>4
<1> QED
  BY <1>7, <1>8, <1>9, <1>10 DEF SourceIInv

LEMMA DiscardStep ==
    ASSUME SourceIInv, NEW key \in Source!Keys, Source!DiscardIcon(key) \/ Source!DiscardMrms(key)
    PROVE  SourceIInv'
<1>1. Source!MustDecompress(key) /\ job.writing = None
  BY DEF Source!DiscardIcon, Source!DiscardMrms, Source!Working
<1>2. job'.writing = None /\ job'.content \in Contents \cup {None}
      /\ DOMAIN job' = DOMAIN Source!NoJob
  BY <1>1 DEF Source!DiscardIcon, Source!DiscardMrms, Source!NoJob, SourceIInv, FilesTyped
<1>3. disk' \in [Source!SourceFiles -> Contents]
      /\ \A f \in Source!SourceFiles : disk'[f] \in {disk[f], "absent"}
  BY DEF Source!DiscardIcon, Source!DiscardMrms, SourceIInv, FilesTyped, Contents
<1>4. \A k \in Source!Keys : disk'[Source!File(k, "plain")] = "absent"
      => disk[Source!File(k, "plain")] = "absent"
  <2> SUFFICES ASSUME NEW k \in Source!Keys, disk'[Source!File(k, "plain")] = "absent"
               PROVE  disk[Source!File(k, "plain")] = "absent"
    OBVIOUS
  <2>1. Source!File(k, "plain") \in Source!SourceFiles /\ Source!File(k, "plain").key = k
        /\ Source!File(k, "plain") # Source!File(key, "compressed")
    BY DEF Source!File, Source!SourceFiles, Source!Stages
  <2>2. k = key => disk[Source!File(k, "plain")] = "absent"
    BY <1>1 DEF Source!MustDecompress, Source!Missing, Source!Is
  <2> QED
    BY <2>1, <2>2 DEF Source!DiscardIcon, Source!DiscardMrms, SourceIInv, FilesTyped
<1> QED
  BY <1>2, <1>3, <1>4, SourceIdleStep

LEMMA SourceCrashStep ==
    ASSUME SourceIInv, Source!Crash \/ Source!GiveUp
    PROVE  SourceIInv'
<1>1. job'.writing = None /\ job'.content \in Contents \cup {None}
      /\ DOMAIN job' = DOMAIN Source!NoJob
  BY DEF Source!Crash, Source!GiveUp, Source!NoJob
<1>2. disk' = disk \/ disk' = [f \in Source!SourceFiles |-> "absent"]
  BY DEF Source!Crash, Source!GiveUp
<1>3. disk' \in [Source!SourceFiles -> Contents]
      /\ \A f \in Source!SourceFiles : disk'[f] \in {disk[f], "absent"}
  BY <1>2 DEF SourceIInv, FilesTyped, Contents
<1>4. \A k \in Source!Keys : Source!File(k, "regridded") \in Source!SourceFiles
  BY FilesDiffer DEF Source!Stages
<1>5. \A k \in Source!Keys : disk'[Source!File(k, "plain")] = "absent"
      /\ disk[Source!File(k, "plain")] # "absent"
                      => disk'[Source!File(k, "regridded")] = "absent"
  BY <1>2, <1>4
<1> QED
  BY <1>1, <1>3, <1>5, SourceIdleStep

LEMMA TakeStep ==
    ASSUME SourceIInv, NEW key \in Source!Keys, Source!Take(key)
    PROVE  SourceIInv'
<1>1. job'.writing = job.writing /\ job'.content = job.content /\ DOMAIN job' = DOMAIN job
      /\ disk' = disk
  BY DEF Source!Take, SourceIInv, FilesTyped, Source!NoJob
<1> QED
  BY <1>1 DEF SourceIInv, FilesTyped, MadeOfWhole, WritesWhole, RegriddedHasPlain, Source!Is,
       Source!Missing

LEMMA SourceNextIInv == SourceIInv /\ [Source!Next]_(Source!vars) => SourceIInv'
<1> SUFFICES ASSUME SourceIInv, [Source!Next]_(Source!vars) PROVE SourceIInv'
  OBVIOUS
<1>1. CASE UNCHANGED Source!vars
  BY <1>1 DEF Source!vars, SourceIInv, FilesTyped, MadeOfWhole, WritesWhole,
       RegriddedHasPlain, Source!Is, Source!Missing
<1>2. ASSUME NEW hour \in Hours,
        Source!Begin(Source!IconKeys(hour)) \/ Source!Begin(Source!MrmsKeys(hour))
              \/ Source!Begin(Source!GfsKeys(hour))
      PROVE  SourceIInv'
  BY <1>2, SourceBeginStep
<1>3. ASSUME NEW key \in Source!Keys,
             \/ Source!FetchIcon(key) \/ Source!FetchMrms(key) \/ Source!FetchGfs(key)
             \/ Source!Decompress(key) \/ Source!DiscardIcon(key) \/ Source!DiscardMrms(key)
             \/ Source!Regrid(key) \/ Source!Take(key)
      PROVE  SourceIInv'
  BY <1>3, FetchStep, DecompressStep, DiscardStep, RegridStep, TakeStep
<1>4. CASE Source!Replace \/ Source!GiveUp \/ Source!Crash
  BY <1>4, ReplaceStep, SourceCrashStep
<1> QED
  BY <1>1, <1>2, <1>3, <1>4 DEF Source!Next

-----------------------------------------------------------------------------
\* SourceCache: the theorems.

LEMMA SourceFollows == SourceIInv => Source!CachedFilesAreWhole
<1> SUFFICES ASSUME SourceIInv PROVE Source!CachedFilesAreWhole
  OBVIOUS
<1>1. \A key \in Source!Keys :
        key.kind # "gfs" => Source!Result(key.kind) \in {"plain", "regridded"}
  BY DEF Source!Result
<1> QED
  BY <1>1 DEF SourceIInv, Source!CachedFilesAreWhole, MadeOfWhole, RegriddedHasPlain

\* What ICON and MRMS hand to processing was made of whole downloads, and a regridded file
\* lies beside the file it was made of (dwd.py:110-272, source.py:307-370).
THEOREM SourcesAreWhole == Source!Spec => []Source!CachedFilesAreWhole
  BY SourceInitIInv, SourceNextIInv, SourceFollows, PTL DEF Source!Spec

\* The same of the run that checks it, beside the other subjects.
THEOREM PeripherySourcesAreWhole == PeripherySpec => []CachedFilesAreWhole
<1> DEFINE Inv == subject = "source" => SourceIInv
<1>1. PeripheryInit => Inv
  BY SourceInitIInv DEF PeripheryInit
<1>2. Inv /\ [PeripheryNext]_all => Inv'
  <2> SUFFICES ASSUME Inv, [PeripheryNext]_all, subject' = "source" PROVE SourceIInv'
    OBVIOUS
  <2>1. subject = "source" /\ [Source!Next]_(Source!vars)
    BY DEF PeripheryNext, all, sourceVars, Source!vars
  <2> QED
    BY <2>1, SourceNextIInv
<1>3. Inv => CachedFilesAreWhole
  BY SourceFollows DEF CachedFilesAreWhole
<1> QED
  BY <1>1, <1>2, <1>3, PTL DEF PeripherySpec

-----------------------------------------------------------------------------
\* ArtifactSync: the inductive invariant.

\* Runs are kept by dataset; the script works on one of the datasets left, and is through
\* with no dataset that is left.
SyncTyped ==
    /\ DOMAIN remoteLatest = Datasets /\ DOMAIN remoteIndex = Datasets
    /\ DOMAIN localIndex = Datasets /\ DOMAIN localLatest = Datasets
    /\ DOMAIN sync = DOMAIN Sync!Finished("failed")
    /\ sync.todo \subseteq Datasets /\ sync.specs \subseteq Datasets \ sync.todo
    /\ Sync!At("index") => sync.specs = {}
    /\ Sync!At("payloads") => sync.dataset \in sync.todo

\* A dataset the script is through with has the payloads of its local manifest.
SpecsServed == \A d \in sync.specs : <<d, localLatest[d]>> \in payloads \cup expired

SyncIInv == SyncTyped /\ SpecsServed /\ Sync!SyncedIndexIsServed

\* What the bucket does: runs are kept by dataset, and nothing that expired comes back.
LEMMA RemoteStep ==
    ASSUME SyncIInv, DOMAIN remoteLatest' = Datasets, DOMAIN remoteIndex' = Datasets,
           expired \subseteq expired',
           UNCHANGED <<localIndex, localLatest, payloads, sync>>
    PROVE  SyncIInv'
  BY DEF SyncIInv, SyncTyped, SpecsServed, Sync!SyncedIndexIsServed, Sync!At, Sync!Finished

\* What a command of the script does unless the last one: nothing to datasets it is through
\* with.
LEMMA CommandStep ==
    ASSUME SyncIInv, SyncTyped', sync'.step # "done",
           payloads \subseteq payloads', expired' = expired,
           \A d \in sync'.specs :
               \/ d \in sync.specs /\ localLatest'[d] = localLatest[d]
               \/ <<d, localLatest'[d]>> \in payloads' \cup expired
    PROVE  SyncIInv'
<1>1. SpecsServed'
  BY DEF SyncIInv, SpecsServed
<1>2. Sync!SyncedIndexIsServed'
  BY DEF Sync!SyncedIndexIsServed, Sync!At
<1> QED
  BY <1>1, <1>2 DEF SyncIInv

LEMMA SyncInitIInv == Sync!Init => SyncIInv
  BY DEF Sync!Init, SyncIInv, SyncTyped, SpecsServed, Sync!SyncedIndexIsServed, Sync!At,
     Sync!Finished

LEMMA AbortStep ==
    ASSUME SyncIInv, sync' = Sync!Finished("failed"),
           UNCHANGED <<remoteLatest, remoteIndex, expired, payloads>>,
           DOMAIN localIndex' = Datasets, DOMAIN localLatest' = Datasets
    PROVE  SyncIInv'
<1>1. SyncTyped' /\ sync'.specs = {} /\ sync'.step # "done"
  BY DEF SyncIInv, SyncTyped, Sync!Finished, Sync!At
<1> QED
  BY <1>1, CommandStep

LEMMA SyncBeginStep ==
    ASSUME SyncIInv, NEW requested \in SUBSET Datasets, NEW r, NEW every,
           Sync!Begin(requested, r, every)
    PROVE  SyncIInv'
<1>1. /\ sync' = [Sync!Finished("index") EXCEPT !.run = r, !.all = every, !.todo = requested]
      /\ UNCHANGED <<remoteLatest, remoteIndex, expired, localIndex, localLatest, payloads>>
  BY DEF Sync!Begin, Sync!Step, Sync!remote, Sync!local
<1>2. /\ sync'.step = "index" /\ sync'.todo = requested /\ sync'.specs = {}
      /\ DOMAIN sync' = DOMAIN Sync!Finished("failed")
  BY <1>1 DEF Sync!Finished
<1>3. SyncTyped'
  BY <1>1, <1>2 DEF SyncIInv, SyncTyped, Sync!At
<1> QED
  BY <1>1, <1>2, <1>3, CommandStep

LEMMA CopyIndexStep ==
    ASSUME SyncIInv, Sync!CopyIndex
    PROVE  SyncIInv'
<1> DEFINE known == {d \in Datasets : remoteIndex[d] # 0}
           todo == IF sync.all THEN known ELSE sync.todo
<1>1. /\ sync.step = "index" /\ sync.specs = {} /\ localIndex' = remoteIndex
      /\ UNCHANGED <<remoteLatest, remoteIndex, expired, localLatest, payloads>>
  BY DEF Sync!CopyIndex, Sync!At, Sync!Step, Sync!remote, SyncIInv, SyncTyped
<1>2. CASE sync' = Sync!Finished("failed")
  BY <1>1, <1>2, AbortStep DEF SyncIInv, SyncTyped
<1>3. CASE sync' = [sync EXCEPT !.step = "dataset", !.todo = todo]
  <2>1. /\ sync'.step = "dataset" /\ sync'.todo = todo /\ sync'.specs = {}
        /\ DOMAIN sync' = DOMAIN sync
    BY <1>1, <1>3 DEF SyncIInv, SyncTyped, Sync!Finished
  <2>2. todo \subseteq Datasets
    BY DEF SyncIInv, SyncTyped
  <2>3. SyncTyped'
    BY <1>1, <2>1, <2>2 DEF SyncIInv, SyncTyped, Sync!At
  <2> QED
    BY <1>1, <2>1, <2>3, CommandStep
<1>4. sync' = Sync!Finished("failed") \/ sync' = [sync EXCEPT !.step = "dataset", !.todo = todo]
  BY DEF Sync!CopyIndex, Sync!Step
<1> QED
  BY <1>2, <1>3, <1>4

\* The manifest of a dataset that the script is not through with.
LEMMA CopyManifestStep ==
    ASSUME SyncIInv, NEW d \in Datasets, Sync!CopyLatest(d) \/ Sync!CopyRunManifest(d)
    PROVE  SyncIInv'
<1>1. /\ sync.step = "dataset" /\ d \in sync.todo
      /\ UNCHANGED <<remoteLatest, remoteIndex, expired, localIndex, payloads>>
  BY DEF Sync!CopyLatest, Sync!CopyRunManifest, Sync!At, Sync!Step, Sync!remote, Sync!local
<1>2. CASE sync' = Sync!Finished("failed") /\ UNCHANGED localLatest
  BY <1>1, <1>2, AbortStep DEF SyncIInv, SyncTyped
<1>3. ASSUME NEW r, NEW selected, localLatest' = [localLatest EXCEPT ![d] = r],
             sync' = [sync EXCEPT !.step = "payloads", !.dataset = d, !.selected = selected]
      PROVE  SyncIInv'
  <2>1. /\ sync'.step = "payloads" /\ sync'.todo = sync.todo /\ sync'.specs = sync.specs
        /\ sync'.dataset = d /\ DOMAIN sync' = DOMAIN sync
    BY <1>3 DEF SyncIInv, SyncTyped, Sync!Finished
  <2>2. SyncTyped'
    BY <1>1, <1>3, <2>1 DEF SyncIInv, SyncTyped, Sync!At
  <2>3. \A e \in sync.specs : localLatest'[e] = localLatest[e]
    BY <1>1, <1>3 DEF SyncIInv, SyncTyped
  <2> QED
    BY <1>1, <2>1, <2>2, <2>3, CommandStep
<1>4. \/ sync' = Sync!Finished("failed") /\ UNCHANGED localLatest
      \/ \E r, selected :
            /\ localLatest' = [localLatest EXCEPT ![d] = r]
            /\ sync' = [sync EXCEPT !.step = "payloads", !.dataset = d, !.selected = selected]
  BY DEF Sync!CopyLatest, Sync!CopyRunManifest, Sync!Step, Sync!local
<1> QED
  BY <1>2, <1>3, <1>4

\* The script is through with a dataset whose payloads were copied, or had expired.
LEMMA CopyPayloadsStep ==
    ASSUME SyncIInv, Sync!CopyPayloads
    PROVE  SyncIInv'
<1> DEFINE next == [sync EXCEPT !.step = IF sync.todo = {sync.dataset} THEN "write" ELSE "dataset",
                                  !.todo = @ \ {sync.dataset},
                                  !.specs = @ \cup {sync.dataset}]
<1>1. /\ sync.step = "payloads" /\ sync.dataset \in sync.todo
      /\ UNCHANGED <<remoteLatest, remoteIndex, expired, localIndex, localLatest>>
  BY DEF Sync!CopyPayloads, Sync!At, Sync!Step, Sync!remote, SyncIInv, SyncTyped
<1>2. CASE sync' = Sync!Finished("failed") /\ payloads' = payloads
  BY <1>1, <1>2, AbortStep DEF SyncIInv, SyncTyped
<1>3. CASE sync' = next /\ payloads \subseteq payloads' /\ Sync!Wanted \in payloads' \cup expired
  <2>1. /\ sync'.step \in {"write", "dataset"} /\ sync'.todo = sync.todo \ {sync.dataset}
        /\ sync'.specs = sync.specs \cup {sync.dataset} /\ DOMAIN sync' = DOMAIN sync
    BY <1>3 DEF SyncIInv, SyncTyped, Sync!Finished
  <2>2. SyncTyped'
    BY <1>1, <2>1 DEF SyncIInv, SyncTyped, Sync!At
  <2> QED
    BY <1>1, <1>3, <2>1, <2>2, CommandStep DEF Sync!Wanted
<1>4. \/ sync' = Sync!Finished("failed") /\ payloads' = payloads
      \/ sync' = next /\ payloads \subseteq payloads' /\ Sync!Wanted \in payloads' \cup expired
  <2>1. CASE Sync!Wanted \notin expired
    BY <2>1 DEF Sync!CopyPayloads, Sync!Step
  <2>2. CASE Sync!Wanted \in expired
    BY <2>2 DEF Sync!CopyPayloads, Sync!Step
  <2> QED
    BY <2>1, <2>2
<1> QED
  BY <1>2, <1>3, <1>4

\* The local index names the local manifests of the datasets the script is through with.
LEMMA WriteIndexStep ==
    ASSUME SyncIInv, Sync!WriteIndex
    PROVE  SyncIInv'
<1>1. /\ localIndex' = [d \in Datasets |-> IF d \in sync.specs THEN localLatest[d] ELSE 0]
      /\ sync' = Sync!Finished("done")
      /\ UNCHANGED <<remoteLatest, remoteIndex, expired, localLatest, payloads>>
  BY DEF Sync!WriteIndex, Sync!LocalIndex, Sync!Step, Sync!remote
<1>2. SyncTyped' /\ SpecsServed'
  BY <1>1 DEF SyncIInv, SyncTyped, SpecsServed, Sync!Finished, Sync!At
<1>3. Sync!SyncedIndexIsServed'
  BY <1>1 DEF SyncIInv, SpecsServed, Sync!SyncedIndexIsServed
<1> QED
  BY <1>2, <1>3 DEF SyncIInv

LEMMA SyncNextIInv == SyncIInv /\ [Sync!Next]_(Sync!vars) => SyncIInv'
<1> SUFFICES ASSUME SyncIInv, [Sync!Next]_(Sync!vars) PROVE SyncIInv'
  OBVIOUS
<1>1. CASE UNCHANGED Sync!vars
  BY <1>1, RemoteStep DEF Sync!vars, Sync!remote, Sync!local, SyncIInv, SyncTyped
<1>2. ASSUME NEW requested \in SUBSET Datasets, NEW r, NEW every, Sync!Begin(requested, r, every)
      PROVE  SyncIInv'
  BY <1>2, SyncBeginStep
<1>3. CASE Sync!Abort
  BY <1>3, AbortStep DEF Sync!Abort, Sync!Step, Sync!remote, Sync!local, SyncIInv, SyncTyped
<1>4. ASSUME NEW d \in Datasets, Sync!PublishRun(d)
                                  \/ \E r \in Sync!Runs : Sync!Expire(d, r)
      PROVE  SyncIInv'
  BY <1>4, RemoteStep DEF Sync!PublishRun, Sync!RefreshIndex, Sync!Expire, Sync!local, SyncIInv,
     SyncTyped
<1>5. CASE Sync!RefreshIndex
  BY <1>5, RemoteStep DEF Sync!RefreshIndex, Sync!local, SyncIInv, SyncTyped
<1> QED
  BY <1>1, <1>2, <1>3, <1>4, <1>5, CopyIndexStep, CopyManifestStep, CopyPayloadsStep,
     WriteIndexStep DEF Sync!Next

-----------------------------------------------------------------------------
\* ArtifactSync: the theorems.

\* After a sync that ended well every dataset of the local index has the manifest and the
\* payloads of the run it names, unless the bucket had removed payloads, whatever is published
\* and indexed while the script runs (etl-sync-artifacts.py:73-129, 304-351).
THEOREM SyncServes == Sync!Spec => []Sync!SyncedIndexIsServed
<1>1. SyncIInv => Sync!SyncedIndexIsServed
  BY DEF SyncIInv
<1> QED
  BY SyncInitIInv, SyncNextIInv, <1>1, PTL DEF Sync!Spec

\* The same of the run that checks it, beside the other subjects.
THEOREM PeripherySyncServes == PeripherySpec => []SyncedIndexIsServed
<1> DEFINE Inv == subject = "sync" => SyncIInv
<1>1. PeripheryInit => Inv
  BY SyncInitIInv DEF PeripheryInit
<1>2. Inv /\ [PeripheryNext]_all => Inv'
  <2> SUFFICES ASSUME Inv, [PeripheryNext]_all, subject' = "sync" PROVE SyncIInv'
    OBVIOUS
  <2>1. subject = "sync" /\ [Sync!Next]_(Sync!vars)
    BY DEF PeripheryNext, all, syncVars, Sync!vars, Sync!remote, Sync!local
  <2> QED
    BY <2>1, SyncNextIInv
<1>3. Inv => SyncedIndexIsServed
  BY DEF SyncedIndexIsServed, SyncIInv
<1> QED
  BY <1>1, <1>2, <1>3, PTL DEF PeripherySpec

-----------------------------------------------------------------------------
\* PayloadCache: the inductive invariant.

CacheUpdates == [key : Cache!Keys, run : Scopes, payload : BOOLEAN]
DrainPhases == {"idle", "list", "prune", "write", "scan", "evict"}
Drains == [phase : DrainPhases, prune : Scopes \cup {None}, updates : SUBSET CacheUpdates,
           keys : SUBSET Cache!Keys, todo : SUBSET Cache!Stores]

ReadersTyped ==
    /\ DOMAIN readers = Readers
    /\ \A r \in Readers : readers[r] = Cache!Away \/ readers[r].key \in Cache!Keys

\* A page that has no scope yet does nothing.
CacheTyped ==
    /\ scope \in Scopes \cup {None} /\ queued \in Scopes \cup {None}
    /\ stored \subseteq Cache!Keys /\ metas \in [Cache!Keys -> Scopes \cup {None}]
    /\ pending \subseteq CacheUpdates /\ fetching \subseteq Cache!Keys
    /\ drain \in Drains
    /\ ReadersTyped
    /\ scope = None => /\ drain = Cache!NoDrain /\ fetching = {}
                       /\ \A r \in Readers : readers[r] = Cache!Away

\* A turn of the drain is about one run, the active one unless a prune is queued for that; what
\* waits for the next turn came since the run became active.
TurnIsOfOneRun ==
    /\ drain.phase \in {"idle", "list", "scan"} => drain.todo = {}
    /\ drain.phase = "idle" => drain = Cache!NoDrain /\ queued = None /\ pending = {}
    /\ drain.phase = "write" => drain.keys = {}
    /\ drain.phase \in {"list", "prune"} =>
        drain.prune # None /\ \A u \in drain.updates : u.run = drain.prune
    /\ \A u \in drain.updates : u.payload => u.key.run = u.run
    /\ \A u, v \in drain.updates : u.run = v.run
    /\ queued \in {None, scope}
    /\ queued = None =>
        drain.prune \in {None, scope} /\ \A u \in drain.updates : u.run = scope
    /\ \A u \in pending : u.payload => u.key.run = scope

\* What the stores will have once the transactions under way are done.
PayloadsAfter(d, p) ==
    IF "payloads" \in d.todo
    THEN (p \ d.keys) \cup
             IF d.phase = "write" THEN {u.key : u \in {u \in d.updates : u.payload}} ELSE {}
    ELSE p
MetasAfter(d, m) ==
    IF "metas" \in d.todo
    THEN [key \in Cache!Keys |->
             IF key \in d.keys THEN None
             ELSE IF d.phase = "write" /\ \E u \in d.updates : u.key = key
                  THEN (CHOOSE u \in d.updates : u.key = key).run
                  ELSE m[key]]
    ELSE m

\* A payload has the metadata of its run, between transactions and after those under way.
StoresAgree ==
    ~torn =>
        /\ drain.todo \in {{}, Cache!Stores} => \A k \in stored : metas[k] = k.run
        /\ \A k \in PayloadsAfter(drain, stored) : MetasAfter(drain, metas)[k] = k.run

\* The payload is gone when the drain is, and is there only for an eviction under way.
Forgotten(k) ==
    /\ k \notin PayloadsAfter(drain, stored)
    /\ drain.phase = "evict" /\ drain.todo = Cache!Stores => k \notin stored

\* Metadata made up for a payload of a former run is only written where there is none.
MadeUpIsHarmless ==
    ~torn =>
        /\ \A u \in drain.updates : u.run # u.key.run =>
            /\ drain.phase = "prune" => u.key \notin PayloadsAfter(drain, stored)
            /\ drain.phase = "write" => u.key \notin stored
        /\ queued = None => \A u \in pending : u.run = scope /\ u.run # u.key.run =>
            Forgotten(u.key)

\* Unless a prune is about to begin, or has missed something, the stores are about to be of the
\* active run, and are so after the prune.
StoresAreOfTheScope ==
    scope # None /\ ~torn /\ ~missed /\ queued = None /\ drain.phase # "list" =>
        \A k \in Cache!Keys :
            /\ MetasAfter(drain, metas)[k] \in {None, scope}
            /\ drain.phase # "prune" => metas[k] \in {None, scope}

\* The limit holds, or is about to be enforced.
LimitIsEnforced ==
    /\ torn => faults > 0
    /\ faults \in Nat
    /\ faults = 0 =>
        /\ drain.phase \in {"idle", "list", "prune"} => Cardinality(stored) <= StoredLimit
        /\ drain.phase = "write" =>
            (\E u \in drain.updates : u.payload) \/ Cardinality(stored) <= StoredLimit
        /\ drain.phase = "evict" => Cardinality(PayloadsAfter(drain, stored)) <= StoredLimit

\* What goes wrong has cost a fault.
FlawsGrow ==
    /\ missed' = missed /\ (torn => torn') /\ (torn' => torn \/ faults' > 0)
    /\ faults' \in Nat /\ faults' >= faults

CacheIInv ==
    /\ CacheTyped /\ TurnIsOfOneRun /\ StoresAgree /\ MadeUpIsHarmless
    /\ StoresAreOfTheScope /\ LimitIsEnforced

-----------------------------------------------------------------------------
\* PayloadCache: what transactions leave.

\* The metadata after those under way, without a choice among updates.
LEMMA MetasWritten ==
    ASSUME NEW d \in Drains, NEW m \in [Cache!Keys -> Scopes \cup {None}],
           \A u, v \in d.updates : u.run = v.run
    PROVE  /\ MetasAfter(d, m) \in [Cache!Keys -> Scopes \cup {None}]
           /\ "metas" \notin d.todo => MetasAfter(d, m) = m
           /\ "metas" \in d.todo => \A k \in Cache!Keys :
               /\ k \in d.keys => MetasAfter(d, m)[k] = None
               /\ k \notin d.keys /\ d.phase = "write" =>
                      \A u \in d.updates : u.key = k => MetasAfter(d, m)[k] = u.run
               /\ k \notin d.keys /\ (d.phase # "write" \/ \A u \in d.updates : u.key # k) =>
                      MetasAfter(d, m)[k] = m[k]
<1>1. CASE "metas" \notin d.todo
  BY <1>1 DEF MetasAfter
<1>2. CASE "metas" \in d.todo
  <2> DEFINE At_(k) == IF k \in d.keys THEN None
                       ELSE IF d.phase = "write" /\ \E u \in d.updates : u.key = k
                            THEN (CHOOSE u \in d.updates : u.key = k).run ELSE m[k]
  <2>1. MetasAfter(d, m) = [k \in Cache!Keys |-> At_(k)]
    BY <1>2 DEF MetasAfter
  <2>2. ASSUME NEW k \in Cache!Keys, NEW u \in d.updates, u.key = k
        PROVE  (CHOOSE v \in d.updates : v.key = k).run = u.run
    BY <2>2
  <2>3. \A u \in d.updates : u.run \in Scopes
    BY DEF Drains, CacheUpdates
  <2>4. \A k \in Cache!Keys : At_(k) \in Scopes \cup {None}
    BY <2>2, <2>3
  <2> HIDE DEF At_
  <2>5. MetasAfter(d, m) \in [Cache!Keys -> Scopes \cup {None}]
    BY <2>1, <2>4
  <2>6. ASSUME NEW k \in Cache!Keys
        PROVE  /\ k \in d.keys => MetasAfter(d, m)[k] = None
               /\ k \notin d.keys /\ d.phase = "write" =>
                      \A u \in d.updates : u.key = k => MetasAfter(d, m)[k] = u.run
               /\ k \notin d.keys /\ (d.phase # "write" \/ \A u \in d.updates : u.key # k) =>
                      MetasAfter(d, m)[k] = m[k]
    BY <2>1, <2>2 DEF At_
  <2> QED
    BY <1>2, <2>5, <2>6
<1> QED
  BY <1>1, <1>2

\* The module and its proofs count with one operator.
LEMMA CacheCardinality == \A S : Cache!Cardinality(S) = Cardinality(S)
  BY DEF Cache!Cardinality, Cardinality

\* What a page keeps is finite.
LEMMA FiniteKeys == \A p \in SUBSET Cache!Keys : IsFiniteSet(p)
<1> DEFINE f == [x \in Scopes \X Files |-> [run |-> x[1], file |-> x[2]]]
<1>1. IsFiniteSet(Scopes \X Files)
  BY CacheAssumption, FS_Product
<1>2. f \in Surjection(Scopes \X Files, Cache!Keys)
  <2>1. f \in [Scopes \X Files -> Cache!Keys]
    BY DEF Cache!Keys
  <2>2. ASSUME NEW k \in Cache!Keys
        PROVE  \E x \in Scopes \X Files : f[x] = k
    <3>1. <<k.run, k.file>> \in Scopes \X Files /\ k = [run |-> k.run, file |-> k.file]
      BY DEF Cache!Keys
    <3> QED
      BY <3>1
  <2> QED
    BY <2>1, <2>2 DEF Surjection
<1>3. IsFiniteSet(Cache!Keys)
  BY <1>1, <1>2, FS_Surjection
<1> QED
  BY <1>3, FS_Subset

LEMMA SmallerIsWithin ==
    ASSUME NEW p \in SUBSET Cache!Keys, NEW q \in SUBSET p, Cardinality(p) <= StoredLimit
    PROVE  Cardinality(q) <= StoredLimit
<1>1. IsFiniteSet(p) /\ IsFiniteSet(q)
  BY FiniteKeys
<1>2. Cardinality(q) <= Cardinality(p) /\ Cardinality(p) \in Nat /\ Cardinality(q) \in Nat
  BY <1>1, FS_Subset, FS_CardinalityType
<1> QED
  BY <1>2, CacheAssumption

\* A call of IndexedDB may fail.
LEMMA FlawsStay ==
    ASSUME CacheIInv, missed' = missed, torn' = torn, faults' \in {faults, faults + 1}
    PROVE  FlawsGrow
  BY DEF CacheIInv, LimitIsEnforced, FlawsGrow

-----------------------------------------------------------------------------
\* PayloadCache: the drain begins a turn.

LEMMA TurnFields ==
    ASSUME NEW prune, NEW updates, NEW r
    PROVE  \/ Cache!Turn(prune, updates, r) = Cache!NoDrain /\ prune = None
           \/ /\ prune = None
              /\ Cache!Turn(prune, updates, r) =
                     [phase |-> "write", prune |-> None, updates |-> Cache!OfScope(updates, r),
                      keys |-> {}, todo |-> Cache!Stores]
           \/ /\ prune # None
              /\ Cache!Turn(prune, updates, r) =
                     [phase |-> "list", prune |-> prune, updates |-> Cache!OfScope(updates, r),
                      keys |-> {}, todo |-> {}]
  BY DEF Cache!Turn, Cache!NoDrain

\* A turn that begins when all transactions are done: with a prune for the active run, or with
\* stores that are of it already and updates that are harmless.
LEMMA TurnStep ==
    ASSUME CacheIInv, CacheTyped', drain.todo = {}, scope' # None,
           NEW prune \in {None, scope'}, NEW updates \in SUBSET CacheUpdates,
           drain' = Cache!Turn(prune, updates, scope'), queued' = None, pending' = {},
           UNCHANGED <<stored, metas>>, FlawsGrow,
           \A u \in updates : u.payload => u.key.run = scope',
           prune = None /\ ~torn /\ ~missed =>
               \A k \in Cache!Keys : metas[k] \in {None, scope'},
           prune = None /\ ~torn' => \A u \in updates :
               u.run = scope' /\ u.run # u.key.run => u.key \notin stored,
           faults = 0 => Cardinality(stored) <= StoredLimit
    PROVE  CacheIInv'
<1> DEFINE chosen == Cache!OfScope(updates, scope')
<1>1. /\ chosen \subseteq CacheUpdates
      /\ \A u \in chosen : u.run = scope' /\ (u.payload => u.key.run = u.run)
  BY DEF Cache!OfScope
<1>2. ~torn => \A k \in stored : metas[k] = k.run
  BY DEF CacheIInv, StoresAgree
<1>3. /\ torn' => faults' > 0
      /\ faults' \in Nat /\ (faults' = 0 => faults = 0)
      /\ ~torn' => ~torn
      /\ missed' = missed /\ stored' = stored /\ metas' = metas
  BY DEF CacheIInv, LimitIsEnforced, FlawsGrow
<1>4. /\ stored \subseteq Cache!Keys /\ metas \in [Cache!Keys -> Scopes \cup {None}]
      /\ drain' \in Drains /\ scope' \in Scopes /\ None \notin Scopes
  BY CacheAssumption DEF CacheTyped, CacheIInv
<1>5. ASSUME drain'.todo = {}, drain'.phase \in {"idle", "list"},
             drain'.phase = "idle" => drain' = Cache!NoDrain /\ prune = None,
             drain'.phase = "list" => prune # None,
             drain'.prune = prune, drain'.updates \in {{}, chosen}
      PROVE  CacheIInv'
  <2>1. TurnIsOfOneRun'
    BY <1>1, <1>5 DEF TurnIsOfOneRun
  <2>2. StoresAgree' /\ MadeUpIsHarmless'
    <3>1. ~torn' => \A k \in stored' : metas'[k] = k.run
      BY <1>2, <1>3
    <3>2. PayloadsAfter(drain', stored') = stored' /\ MetasAfter(drain', metas') = metas'
      BY <1>5 DEF PayloadsAfter, MetasAfter
    <3> QED
      BY <1>5, <3>1, <3>2 DEF StoresAgree, MadeUpIsHarmless
  <2>3. StoresAreOfTheScope'
    BY <1>3, <1>5 DEF StoresAreOfTheScope, MetasAfter
  <2>4. LimitIsEnforced'
    BY <1>3, <1>5 DEF LimitIsEnforced
  <2> QED
    BY <2>1, <2>2, <2>3, <2>4 DEF CacheIInv
<1>6. ASSUME prune = None, drain'.phase = "write", drain'.prune = None,
             drain'.updates = chosen, drain'.keys = {}, drain'.todo = Cache!Stores
      PROVE  CacheIInv'
  <2>1. TurnIsOfOneRun'
    BY <1>1, <1>6 DEF TurnIsOfOneRun
  <2>2. PayloadsAfter(drain', stored') = stored \cup {u.key : u \in {u \in chosen : u.payload}}
    BY <1>6 DEF PayloadsAfter, Cache!Stores
  <2>3. \A k \in Cache!Keys :
            /\ \A u \in chosen : u.key = k => MetasAfter(drain', metas')[k] = scope'
            /\ (\A u \in chosen : u.key # k) => MetasAfter(drain', metas')[k] = metas[k]
    BY <1>1, <1>4, <1>6, MetasWritten DEF Cache!Stores
  <2>4. StoresAgree'
    <3> SUFFICES ASSUME ~torn'
                 PROVE  /\ \A k \in stored' : metas'[k] = k.run
                        /\ \A k \in PayloadsAfter(drain', stored') :
                               MetasAfter(drain', metas')[k] = k.run
      BY DEF StoresAgree
    <3>0. ~torn
      BY <1>3
    <3>1. ASSUME NEW k \in stored PROVE MetasAfter(drain', metas')[k] = k.run
      <4>1. CASE \E u \in chosen : u.key = k
        BY <1>1, <1>2, <1>4, <1>6, <2>3, <3>0, <4>1 DEF Cache!OfScope
      <4>2. CASE \A u \in chosen : u.key # k
        BY <1>2, <1>4, <2>3, <3>0, <4>2
      <4> QED
        BY <4>1, <4>2
    <3>2. ASSUME NEW u \in chosen, u.payload PROVE MetasAfter(drain', metas')[u.key] = u.key.run
      BY <1>1, <2>3, <3>2 DEF CacheUpdates
    <3> QED
      BY <1>2, <1>3, <2>2, <3>0, <3>1, <3>2
  <2>5. MadeUpIsHarmless'
    BY <1>1, <1>3, <1>6 DEF MadeUpIsHarmless, Cache!OfScope
  <2>6. StoresAreOfTheScope'
    BY <1>3, <1>6, <2>3 DEF StoresAreOfTheScope
  <2>7. LimitIsEnforced'
    BY <1>3, <1>6 DEF LimitIsEnforced
  <2> QED
    BY <2>1, <2>4, <2>5, <2>6, <2>7 DEF CacheIInv
<1> QED
  BY <1>5, <1>6, TurnFields DEF Cache!NoDrain

\* Readers, fetches and memory have no part in the invariant but their types.
LEMMA ReaderStep ==
    ASSUME CacheIInv, CacheTyped',
           UNCHANGED <<scope, pending, queued, drain, stored, metas>>, FlawsGrow
    PROVE  CacheIInv'
<1>1. TurnIsOfOneRun' /\ StoresAreOfTheScope'
  BY DEF CacheIInv, TurnIsOfOneRun, StoresAreOfTheScope, FlawsGrow
<1>2. StoresAgree' /\ MadeUpIsHarmless'
  BY DEF CacheIInv, StoresAgree, MadeUpIsHarmless, Forgotten, FlawsGrow
<1>3. LimitIsEnforced'
  BY DEF CacheIInv, LimitIsEnforced, FlawsGrow
<1> QED
  BY <1>1, <1>2, <1>3 DEF CacheIInv

\* An update is handed to the drain: a payload of the active run, or metadata that is
\* harmless.
LEMMA EnqueueStep ==
    ASSUME CacheIInv, scope \in Scopes, NEW key \in Cache!Keys, NEW r \in Scopes,
           NEW payload \in BOOLEAN,
           Cache!Drain(queued, Cache!Enqueued(key, r, payload), scope),
           UNCHANGED <<scope, stored, metas>>, FlawsGrow,
           ReadersTyped', fetching' \subseteq Cache!Keys,
           payload => key.run = scope,
           ~torn' /\ queued = None /\ r = scope /\ r # key.run => Forgotten(key)
    PROVE  CacheIInv'
<1> DEFINE updates == Cache!Enqueued(key, r, payload)
           new == [key |-> key, run |-> r,
                   payload |-> payload \/ \E u \in pending : u.key = key /\ u.payload]
<1>1. /\ updates = {u \in pending : u.key # key} \cup {new}
      /\ new \in CacheUpdates /\ new.key = key /\ new.run = r
  BY DEF Cache!Enqueued, CacheUpdates
<1>2. \A u \in pending : u.payload => u.key.run = scope
  BY DEF CacheIInv, TurnIsOfOneRun
<1>3. \A u \in updates : u.payload => u.key.run = scope
  <2>1. new.payload => key.run = scope
    BY <1>2
  <2> QED
    BY <1>1, <1>2, <2>1
<1>4. updates \subseteq CacheUpdates
  BY <1>1 DEF CacheIInv, CacheTyped
<1>5. ~torn' /\ queued = None => \A u \in updates :
        u.run = scope /\ u.run # u.key.run => Forgotten(u.key)
  BY <1>1 DEF CacheIInv, MadeUpIsHarmless, FlawsGrow
<1>6. CASE drain = Cache!NoDrain
  <2>1. drain' = Cache!Turn(queued, updates, scope) /\ queued' = None /\ pending' = {}
    BY <1>6 DEF Cache!Drain
  <2>2. drain.todo = {} /\ drain.phase = "idle" /\ queued = None
    BY <1>6 DEF Cache!NoDrain, CacheIInv, TurnIsOfOneRun
  <2>3. drain' \in Drains
    <3>1. Cache!OfScope(updates, scope) \subseteq CacheUpdates
      BY <1>4 DEF Cache!OfScope
    <3> QED
      BY <2>1, <2>2, <3>1, TurnFields DEF Drains, DrainPhases, Cache!NoDrain
  <2>4. CacheTyped'
    BY <2>1, <2>3, CacheAssumption DEF CacheIInv, CacheTyped
  <2>5. ~torn /\ ~missed => \A k \in Cache!Keys : metas[k] \in {None, scope}
    BY <2>2, CacheAssumption DEF CacheIInv, StoresAreOfTheScope
  <2>6. ~torn' => \A u \in updates : u.run = scope /\ u.run # u.key.run => u.key \notin stored
    BY <1>5, <2>2 DEF PayloadsAfter, Forgotten
  <2>7. faults = 0 => Cardinality(stored) <= StoredLimit
    BY <2>2 DEF CacheIInv, LimitIsEnforced
  <2> QED
    BY <1>3, <1>4, <2>1, <2>2, <2>4, <2>5, <2>6, <2>7, TurnStep, CacheAssumption
<1>7. CASE drain # Cache!NoDrain
  <2>1. queued' = queued /\ pending' = updates /\ drain' = drain
    BY <1>7 DEF Cache!Drain
  <2>2. CacheTyped'
    BY <1>4, <2>1, CacheAssumption DEF CacheIInv, CacheTyped
  <2>3. TurnIsOfOneRun'
    BY <1>3, <1>7, <2>1 DEF CacheIInv, TurnIsOfOneRun
  <2>4. StoresAgree' /\ StoresAreOfTheScope' /\ LimitIsEnforced'
    BY <2>1 DEF CacheIInv, StoresAgree, StoresAreOfTheScope, LimitIsEnforced, FlawsGrow
  <2>5. MadeUpIsHarmless'
    BY <1>5, <2>1 DEF CacheIInv, MadeUpIsHarmless, Forgotten, FlawsGrow
  <2> QED
    BY <2>2, <2>3, <2>4, <2>5 DEF CacheIInv
<1> QED
  BY <1>6, <1>7

\* Another run becomes the active one: its prune begins, or is queued.
LEMMA CallStep ==
    ASSUME CacheIInv, NEW reader \in Readers, NEW key \in Cache!Keys, Cache!Call(reader, key)
    PROVE  CacheIInv'
<1>1. key.run \in Scopes /\ None \notin Scopes
  BY CacheAssumption DEF Cache!Keys
<1>2. UNCHANGED <<stored, metas, fetching, torn, missed, faults>> /\ FlawsGrow
  BY FlawsStay DEF Cache!Call, Cache!flaws
<1>3. CASE scope = key.run
  <2>1. /\ readers' = [readers EXCEPT ![reader] = Cache!Waiting("lookup", key)]
        /\ UNCHANGED <<scope, pending, queued, drain>>
    BY <1>3 DEF Cache!Call
  <2>2. CacheTyped'
    BY <1>1, <1>2, <1>3, <2>1 DEF CacheIInv, CacheTyped, ReadersTyped, Cache!Waiting
  <2> QED
    BY <1>2, <2>1, <2>2, ReaderStep
<1>4. CASE scope # key.run
  <2>1. /\ scope' = key.run
        /\ readers' = [readers EXCEPT ![reader] = Cache!Waiting("scope", key)]
        /\ Cache!Drain(key.run, {}, key.run)
    BY <1>4 DEF Cache!Call, Cache!Prune
  <2>2. ReadersTyped'
    BY <2>1 DEF CacheIInv, CacheTyped, ReadersTyped, Cache!Waiting
  <2>3. CASE drain = Cache!NoDrain
    <3>1. drain' = Cache!Turn(key.run, {}, key.run) /\ queued' = None /\ pending' = {}
      BY <2>1, <2>3 DEF Cache!Drain
    <3>2. drain.todo = {} /\ drain.phase = "idle"
      BY <2>3 DEF Cache!NoDrain
    <3>3. drain' \in Drains
      BY <1>1, <3>1, TurnFields DEF Drains, DrainPhases, Cache!OfScope
    <3>4. CacheTyped'
      BY <1>1, <1>2, <2>1, <2>2, <3>1, <3>3 DEF CacheIInv, CacheTyped
    <3>5. faults = 0 => Cardinality(stored) <= StoredLimit
      BY <3>2 DEF CacheIInv, LimitIsEnforced
    <3> QED
      BY <1>1, <1>2, <2>1, <3>1, <3>2, <3>4, <3>5, TurnStep
  <2>4. CASE drain # Cache!NoDrain
    <3>1. queued' = key.run /\ pending' = {} /\ drain' = drain
      BY <2>1, <2>4 DEF Cache!Drain
    <3>2. CacheTyped'
      BY <1>1, <1>2, <2>1, <2>2, <3>1 DEF CacheIInv, CacheTyped
    <3>3. TurnIsOfOneRun'
      BY <1>1, <2>1, <2>4, <3>1 DEF CacheIInv, TurnIsOfOneRun
    <3>4. StoresAgree' /\ LimitIsEnforced'
      BY <1>2, <3>1 DEF CacheIInv, StoresAgree, LimitIsEnforced
    <3>5. StoresAreOfTheScope' /\ MadeUpIsHarmless'
      BY <1>1, <1>2, <3>1 DEF CacheIInv, StoresAreOfTheScope, MadeUpIsHarmless, Forgotten
    <3> QED
      BY <3>2, <3>3, <3>4, <3>5 DEF CacheIInv
  <2> QED
    BY <2>3, <2>4
<1> QED
  BY <1>3, <1>4

LEMMA LookupStep ==
    ASSUME CacheIInv, NEW reader \in Readers, Cache!Lookup(reader)
    PROVE  CacheIInv'
<1>1. readers[reader] # Cache!Away /\ readers[reader].key \in Cache!Keys /\ scope # None
  BY DEF Cache!Lookup, CacheIInv, CacheTyped, ReadersTyped, Cache!Away, Cache!Waiting
<1>2. /\ fetching' \subseteq fetching \cup {readers[reader].key}
      /\ \/ readers' = [readers EXCEPT ![reader] = Cache!Waiting("meta", readers[reader].key)]
         \/ readers' = [readers EXCEPT ![reader] = Cache!Away]
      /\ UNCHANGED <<scope, pending, queued, drain, stored, metas>>
  BY DEF Cache!Lookup
<1>3. CacheTyped'
  BY <1>1, <1>2 DEF CacheIInv, CacheTyped, ReadersTyped, Cache!Waiting
<1>4. FlawsGrow
  BY FlawsStay DEF Cache!Lookup, Cache!Fault, Cache!flaws
<1> QED
  BY <1>2, <1>3, <1>4, ReaderStep

\* Metadata is made up for the active run only where the payload is gone or is about to go, or
\* the stores are torn.
LEMMA ReadMetaStep ==
    ASSUME CacheIInv, NEW reader \in Readers, Cache!ReadMeta(reader)
    PROVE  CacheIInv'
<1> DEFINE key == readers[reader].key
<1>1. readers[reader] # Cache!Away /\ key \in Cache!Keys /\ scope \in Scopes
  BY DEF Cache!ReadMeta, CacheIInv, CacheTyped, ReadersTyped, Cache!Away, Cache!Waiting
<1>2. /\ readers' = [readers EXCEPT ![reader] = Cache!Away]
      /\ UNCHANGED <<scope, stored, metas, fetching, missed>>
  BY DEF Cache!ReadMeta
<1>3. ReadersTyped' /\ fetching' \subseteq Cache!Keys
  BY <1>2 DEF CacheIInv, CacheTyped, ReadersTyped
<1>4. PICK known \in {metas[key], None} :
          /\ Cache!Fault(known # metas[key])
          /\ torn' = (torn \/ (known # metas[key] /\ metas[key] # scope))
          /\ \/ known # None /\ UNCHANGED <<pending, queued, drain>>
             \/ Cache!Drain(queued, Cache!Enqueued(key, IF known = None THEN scope ELSE known, FALSE),
                            scope)
  BY DEF Cache!ReadMeta
<1>5. FlawsGrow
  <2>1. faults \in Nat /\ (torn => faults > 0)
    BY DEF CacheIInv, LimitIsEnforced
  <2>2. CASE known = metas[key]
    <3>1. faults' = faults
      BY <1>4, <2>2 DEF Cache!Fault
    <3>2. torn => torn'
      BY <1>4, Zenon
    <3>3. torn' => torn
      BY <1>4, <2>2, Zenon
    <3> QED
      BY <1>2, <2>1, <3>1, <3>2, <3>3 DEF FlawsGrow
  <2>3. CASE known # metas[key]
    <3>1. faults' = faults + 1
      BY <1>4, <2>3 DEF Cache!Fault
    <3>2. faults' \in Nat /\ faults' > 0 /\ faults' >= faults
      BY <2>1, <3>1
    <3>3. torn => torn'
      BY <1>4, Zenon
    <3> QED
      BY <1>2, <3>2, <3>3 DEF FlawsGrow
  <2> QED
    BY <2>2, <2>3
<1>6. CASE UNCHANGED <<pending, queued, drain>>
  <2>1. CacheTyped'
    BY <1>1, <1>2, <1>3, <1>6, CacheAssumption DEF CacheIInv, CacheTyped
  <2> QED
    BY <1>2, <1>5, <1>6, <2>1, ReaderStep
<1> DEFINE r == IF known = None THEN scope ELSE known
<1>7. CASE Cache!Drain(queued, Cache!Enqueued(key, r, FALSE), scope)
  <2>1. /\ drain \in Drains /\ metas \in [Cache!Keys -> Scopes \cup {None}]
        /\ \A u, v \in drain.updates : u.run = v.run
    BY DEF CacheIInv, CacheTyped, TurnIsOfOneRun
  <2>2. r \in Scopes
    BY <1>1, <2>1
  <2>3. ASSUME ~torn', queued = None, r = scope, r # key.run, ~Forgotten(key)
        PROVE  FALSE
    <3>1. ~torn /\ metas[key] \in {None, scope}
      BY <1>4, <2>3
    <3> DEFINE evicting == drain.phase = "evict" /\ drain.todo = Cache!Stores /\ key \in stored
    <3>2. key.run \in Scopes /\ None \notin Scopes
      BY <1>1, CacheAssumption DEF Cache!Keys
    <3>3. CASE evicting
      BY <2>3, <3>1, <3>2, <3>3 DEF CacheIInv, StoresAgree
    <3>4. CASE key \in PayloadsAfter(drain, stored)
      <4>1. MetasAfter(drain, metas)[key] = key.run
        BY <3>1, <3>4 DEF CacheIInv, StoresAgree
      <4>2. PICK u \in drain.updates : u.key = key /\ u.run = key.run
        BY <1>1, <2>1, <2>3, <3>1, <3>2, <4>1, MetasWritten
      <4> QED
        BY <2>3, <4>2 DEF CacheIInv, TurnIsOfOneRun
    <3> QED
      BY <2>3, <3>3, <3>4 DEF Forgotten
  <2> QED
    BY <1>1, <1>2, <1>3, <1>5, <1>7, <2>2, <2>3, EnqueueStep
<1> QED
  BY <1>4, <1>6, <1>7

LEMMA FetchedStep ==
    ASSUME CacheIInv, NEW key \in Cache!Keys, Cache!Fetched(key) \/ Cache!FetchFails(key)
    PROVE  CacheIInv'
<1>1. /\ key \in fetching /\ fetching' = fetching \ {key}
      /\ UNCHANGED <<scope, stored, metas, readers, torn, missed, faults>> /\ FlawsGrow
  BY FlawsStay DEF Cache!Fetched, Cache!FetchFails, Cache!flaws
<1>2. ReadersTyped' /\ fetching' \subseteq Cache!Keys /\ scope # None
  BY <1>1 DEF CacheIInv, CacheTyped, ReadersTyped
<1>3. CASE UNCHANGED <<pending, queued, drain>>
  <2>1. CacheTyped'
    BY <1>1, <1>2, <1>3 DEF CacheIInv, CacheTyped
  <2> QED
    BY <1>1, <1>3, <2>1, ReaderStep
<1>4. CASE key.run = scope /\ Cache!Drain(queued, Cache!Enqueued(key, key.run, TRUE), scope)
  <2>1. scope \in Scopes
    BY <1>2 DEF CacheIInv, CacheTyped
  <2> QED
    BY <1>1, <1>2, <1>4, <2>1, EnqueueStep
<1> QED
  BY <1>3, <1>4 DEF Cache!Fetched, Cache!FetchFails

-----------------------------------------------------------------------------
\* PayloadCache: the drain goes on.

\* The turn is over, and takes what has come meanwhile.
LEMMA NextTurnStep ==
    ASSUME CacheIInv, drain.todo = {}, drain.phase \in {"prune", "write", "evict"},
           drain.phase = "write" => ~(\E u \in drain.updates : u.payload),
           Cache!NextTurn,
           UNCHANGED <<scope, stored, metas, fetching, torn, missed, faults>>
    PROVE  CacheIInv'
<1>1. drain' = Cache!Turn(queued, pending, scope) /\ queued' = None /\ pending' = {}
  BY DEF Cache!NextTurn
<1>2. scope \in Scopes /\ pending \subseteq CacheUpdates /\ queued \in {None, scope}
  BY CacheAssumption DEF CacheIInv, CacheTyped, TurnIsOfOneRun, Cache!NoDrain
<1>3. ReadersTyped'
  <2>1. DOMAIN readers' = Readers
    BY DEF Cache!NextTurn
  <2>2. ASSUME NEW r \in Readers
        PROVE  readers'[r] = Cache!Away \/ readers'[r].key \in Cache!Keys
    <3>1. readers[r] = Cache!Away \/ readers[r].key \in Cache!Keys
      BY DEF CacheIInv, CacheTyped, ReadersTyped
    <3>2. \/ readers'[r] = readers[r]
          \/ readers[r].phase = "scope" /\ readers'[r] = Cache!Waiting("lookup", readers[r].key)
      BY DEF Cache!NextTurn
    <3> QED
      BY <3>1, <3>2 DEF Cache!Waiting, Cache!Away
  <2> QED
    BY <2>1, <2>2 DEF ReadersTyped
<1>4. drain' \in Drains
  <2>1. Cache!OfScope(pending, scope) \subseteq CacheUpdates
    BY <1>2 DEF Cache!OfScope
  <2> QED
    BY <1>1, <1>2, <2>1, TurnFields DEF Drains, DrainPhases, Cache!NoDrain
<1>5. CacheTyped'
  BY <1>1, <1>2, <1>3, <1>4, CacheAssumption DEF CacheIInv, CacheTyped
<1>6. queued = None /\ ~torn /\ ~missed => \A k \in Cache!Keys : metas[k] \in {None, scope}
  BY <1>2, CacheAssumption DEF CacheIInv, StoresAreOfTheScope, MetasAfter
<1>7. queued = None /\ ~torn => \A u \in pending :
        u.run = scope /\ u.run # u.key.run => u.key \notin stored
  BY DEF CacheIInv, MadeUpIsHarmless, Forgotten, PayloadsAfter
<1>8. faults = 0 => Cardinality(stored) <= StoredLimit
  BY DEF CacheIInv, LimitIsEnforced, PayloadsAfter
<1>9. \A u \in pending : u.payload => u.key.run = scope
  BY DEF CacheIInv, TurnIsOfOneRun
<1>10. FlawsGrow
  BY FlawsStay
<1> QED
  BY <1>1, <1>2, <1>5, <1>6, <1>7, <1>8, <1>9, <1>10, CacheAssumption,
     TurnStep

\* After the prune of the turn its updates are written.
LEMMA WriteStep ==
    ASSUME CacheIInv, drain.todo = {}, drain.phase = "prune",
           drain' = [drain EXCEPT !.phase = "write", !.todo = Cache!Stores, !.keys = {}],
           UNCHANGED <<scope, pending, queued, stored, metas, readers, fetching, torn, missed, faults>>
    PROVE  CacheIInv'
<1>1. /\ drain' \in Drains /\ drain'.phase = "write" /\ drain'.keys = {}
      /\ drain'.todo = Cache!Stores
      /\ drain'.updates = drain.updates /\ drain'.prune = drain.prune
  BY DEF CacheIInv, CacheTyped, Drains, DrainPhases
<1>2. /\ stored \subseteq Cache!Keys /\ metas \in [Cache!Keys -> Scopes \cup {None}]
      /\ drain.updates \subseteq CacheUpdates /\ scope \in Scopes \cup {None}
  BY DEF CacheIInv, CacheTyped, Drains
<1>3. CacheTyped'
  BY <1>1 DEF CacheIInv, CacheTyped, ReadersTyped, Cache!NoDrain
<1>4. TurnIsOfOneRun'
  BY <1>1 DEF CacheIInv, TurnIsOfOneRun
<1>5. PayloadsAfter(drain, stored) = stored /\ MetasAfter(drain, metas) = metas
  BY DEF PayloadsAfter, MetasAfter
<1>6. PayloadsAfter(drain', stored') =
        stored \cup {u.key : u \in {u \in drain.updates : u.payload}}
  BY <1>1 DEF PayloadsAfter, Cache!Stores
<1>7. \A k \in Cache!Keys :
          /\ \A u \in drain.updates : u.key = k => MetasAfter(drain', metas')[k] = u.run
          /\ (\A u \in drain.updates : u.key # k) => MetasAfter(drain', metas')[k] = metas[k]
  <2>1. \A u, v \in drain'.updates : u.run = v.run
    BY <1>1 DEF CacheIInv, TurnIsOfOneRun
  <2>2. PICK d \in Drains : d = drain'
    BY <1>1
  <2>3. "metas" \in d.todo /\ d.phase = "write" /\ d.keys = {} /\ d.updates = drain.updates
    BY <1>1, <2>2 DEF Cache!Stores
  <2>4. \A k \in Cache!Keys :
            /\ \A u \in drain.updates : u.key = k => MetasAfter(d, metas)[k] = u.run
            /\ (\A u \in drain.updates : u.key # k) => MetasAfter(d, metas)[k] = metas[k]
    <3>1. \A u, v \in d.updates : u.run = v.run
      BY <2>1, <2>2
    <3>2. \A k \in Cache!Keys :
              /\ k \notin d.keys /\ d.phase = "write" =>
                     \A u \in d.updates : u.key = k => MetasAfter(d, metas)[k] = u.run
              /\ k \notin d.keys /\ (d.phase # "write" \/ \A u \in d.updates : u.key # k) =>
                     MetasAfter(d, metas)[k] = metas[k]
      BY <1>2, <2>3, <3>1, MetasWritten
    <3> QED
      BY <2>3, <3>2
  <2>5. metas' = metas
    OBVIOUS
  <2> QED
    BY <2>2, <2>4, <2>5
<1>8. \A u \in drain.updates : u.payload => u.key.run = u.run
  BY DEF CacheIInv, TurnIsOfOneRun
<1>9. ASSUME ~torn
      PROVE  /\ \A k \in stored : metas[k] = k.run
             /\ \A u \in drain.updates : u.run # u.key.run => u.key \notin stored
  BY <1>5, <1>9 DEF CacheIInv, StoresAgree, MadeUpIsHarmless, Forgotten
<1>10. StoresAgree'
  <2> SUFFICES ASSUME ~torn, NEW k \in PayloadsAfter(drain', stored')
               PROVE  MetasAfter(drain', metas')[k] = k.run
    BY <1>9 DEF StoresAgree
  <2>1. CASE \E u \in drain.updates : u.key = k
    <3>1. PICK u \in drain.updates : u.key = k
      BY <2>1
    <3>2. k \in Cache!Keys /\ MetasAfter(drain', metas')[k] = u.run
      BY <1>2, <1>7, <3>1 DEF CacheUpdates
    <3>3. k \in stored => u.run = k.run
      BY <1>9, <3>1
    <3>4. ASSUME NEW v \in drain.updates, v.payload, v.key = k PROVE u.run = k.run
      BY <1>8, <3>1, <3>4 DEF CacheIInv, TurnIsOfOneRun
    <3> QED
      BY <1>6, <3>2, <3>3, <3>4
  <2>2. CASE \A u \in drain.updates : u.key # k
    BY <1>2, <1>6, <1>7, <1>9, <2>2
  <2> QED
    BY <2>1, <2>2
<1>11. MadeUpIsHarmless'
  <2> SUFFICES ASSUME ~torn, queued = None, NEW u \in pending, u.run = scope, u.run # u.key.run
               PROVE  u.key \notin PayloadsAfter(drain', stored')
    BY <1>1, <1>9 DEF MadeUpIsHarmless, Forgotten
  <2>1. u.key \notin stored
    BY <1>5 DEF CacheIInv, MadeUpIsHarmless, Forgotten
  <2>2. \A v \in drain.updates : v.payload => v.key.run = scope
    BY <1>8 DEF CacheIInv, TurnIsOfOneRun
  <2> QED
    BY <1>6, <2>1, <2>2
<1>12. StoresAreOfTheScope'
  <2> SUFFICES ASSUME scope # None, ~torn, ~missed, queued = None, NEW k \in Cache!Keys
               PROVE  MetasAfter(drain', metas')[k] \in {None, scope} /\ metas[k] \in {None, scope}
    BY DEF StoresAreOfTheScope
  <2>1. metas[k] \in {None, scope} /\ \A u \in drain.updates : u.run = scope
    BY <1>5 DEF CacheIInv, StoresAreOfTheScope, TurnIsOfOneRun
  <2> QED
    BY <1>7, <2>1
<1>13. LimitIsEnforced'
  BY <1>1 DEF CacheIInv, LimitIsEnforced
<1> QED
  BY <1>3, <1>4, <1>10, <1>11, <1>12, <1>13 DEF CacheIInv

LEMMA ScanStep ==
    ASSUME CacheIInv, drain.todo = {}, drain.phase = "write",
           drain' = [drain EXCEPT !.phase = "scan"],
           UNCHANGED <<scope, pending, queued, stored, metas, readers, fetching, torn, missed, faults>>
    PROVE  CacheIInv'
<1>1. /\ drain' \in Drains /\ drain'.phase = "scan" /\ drain'.todo = {}
      /\ drain'.updates = drain.updates /\ drain'.prune = drain.prune
  BY DEF CacheIInv, CacheTyped, Drains, DrainPhases
<1>2. CacheTyped' /\ TurnIsOfOneRun'
  BY <1>1 DEF CacheIInv, CacheTyped, ReadersTyped, TurnIsOfOneRun, Cache!NoDrain
<1>3. /\ PayloadsAfter(drain, stored) = stored /\ MetasAfter(drain, metas) = metas
      /\ PayloadsAfter(drain', stored') = stored /\ MetasAfter(drain', metas') = metas
  BY <1>1 DEF PayloadsAfter, MetasAfter
<1>4. StoresAgree' /\ MadeUpIsHarmless' /\ StoresAreOfTheScope'
  BY <1>1, <1>3 DEF CacheIInv, StoresAgree, MadeUpIsHarmless, Forgotten, StoresAreOfTheScope
<1>5. LimitIsEnforced'
  BY <1>1 DEF CacheIInv, LimitIsEnforced
<1> QED
  BY <1>2, <1>4, <1>5 DEF CacheIInv

LEMMA ContinueStep ==
    ASSUME CacheIInv, Cache!Continue
    PROVE  CacheIInv'
<1>1. UNCHANGED <<scope, stored, metas, fetching, torn, missed, faults>>
  BY DEF Cache!Continue, Cache!flaws
<1>2. \/ /\ Cache!Finished("prune")
         /\ drain' = [drain EXCEPT !.phase = "write", !.todo = Cache!Stores, !.keys = {}]
         /\ UNCHANGED <<queued, pending, readers>>
      \/ /\ Cache!Finished("write") /\ drain' = [drain EXCEPT !.phase = "scan"]
         /\ UNCHANGED <<queued, pending, readers>>
      \/ Cache!Finished("prune") /\ Cache!NextTurn
      \/ Cache!Finished("write") /\ ~(\E u \in drain.updates : u.payload) /\ Cache!NextTurn
      \/ Cache!Finished("evict") /\ Cache!NextTurn
  BY DEF Cache!Continue
<1> QED
  BY <1>1, <1>2, NextTurnStep, WriteStep, ScanStep DEF Cache!Finished

-----------------------------------------------------------------------------
\* PayloadCache: transactions are done, lost or listed.

LEMMA CommitStep ==
    ASSUME CacheIInv, NEW store \in Cache!Stores, Cache!Commit(store)
    PROVE  CacheIInv'
<1>1. /\ drain' \in Drains /\ drain'.todo = drain.todo \ {store} /\ store \in drain.todo
      /\ drain'.phase = drain.phase /\ drain'.prune = drain.prune
      /\ drain'.updates = drain.updates /\ drain'.keys = drain.keys
  BY DEF Cache!Commit, CacheIInv, CacheTyped, Drains
<1>2. /\ stored \subseteq Cache!Keys /\ metas \in [Cache!Keys -> Scopes \cup {None}]
      /\ drain \in Drains
      /\ UNCHANGED <<scope, pending, queued, readers, fetching, torn, missed, faults>>
  BY DEF Cache!Commit, Cache!flaws, CacheIInv, CacheTyped
<1>3. PayloadsAfter(drain', stored') = PayloadsAfter(drain, stored)
  BY <1>1 DEF Cache!Commit, PayloadsAfter, Cache!Stores
<1>4. MetasAfter(drain', metas') = MetasAfter(drain, metas)
  BY <1>1 DEF Cache!Commit, MetasAfter, Cache!Stores
<1>5. /\ store = "payloads" => stored' = PayloadsAfter(drain, stored) /\ metas' = metas
      /\ store = "metas" => metas' = MetasAfter(drain, metas) /\ stored' = stored
  BY <1>1 DEF Cache!Commit, PayloadsAfter, MetasAfter
<1>6. drain'.todo = {} => PayloadsAfter(drain', stored') = stored'
                          /\ MetasAfter(drain', metas') = metas'
  BY DEF PayloadsAfter, MetasAfter
<1>7. store \in {"payloads", "metas"} /\ drain'.todo # Cache!Stores
  BY <1>1 DEF Cache!Stores
<1>8. \A u, v \in drain.updates : u.run = v.run
  BY DEF CacheIInv, TurnIsOfOneRun
<1>9. CacheTyped'
  <2>1. MetasAfter(drain, metas) \in [Cache!Keys -> Scopes \cup {None}]
    BY <1>2, <1>8, MetasWritten
  <2>2. PayloadsAfter(drain, stored) \subseteq Cache!Keys
    BY <1>2 DEF PayloadsAfter, Drains, CacheUpdates
  <2>3. scope # None
    BY <1>1 DEF CacheIInv, CacheTyped, Cache!NoDrain
  <2> QED
    BY <1>1, <1>2, <1>5, <1>7, <2>1, <2>2, <2>3 DEF CacheIInv, CacheTyped, ReadersTyped
<1>10. TurnIsOfOneRun'
  BY <1>1, <1>2 DEF CacheIInv, TurnIsOfOneRun
<1>11. StoresAgree'
  BY <1>2, <1>3, <1>4, <1>6, <1>7 DEF CacheIInv, StoresAgree
<1>12. ASSUME drain.phase = "write", NEW u \in drain.updates, u.run # u.key.run,
              u.key \notin stored
       PROVE  u.key \notin stored'
  <2>1. PayloadsAfter(drain, stored) \subseteq
            stored \cup {v.key : v \in {v \in drain.updates : v.payload}}
    BY DEF PayloadsAfter
  <2>2. \A v \in drain.updates : v.payload => v.key.run = u.run
    BY DEF CacheIInv, TurnIsOfOneRun
  <2> QED
    BY <1>5, <1>7, <1>12, <2>1, <2>2
<1>13. MadeUpIsHarmless'
  BY <1>1, <1>2, <1>3, <1>12 DEF CacheIInv, MadeUpIsHarmless, Forgotten
<1>14. StoresAreOfTheScope'
  <2>1. metas' \in {metas, MetasAfter(drain, metas)}
    BY <1>5, <1>7
  <2> QED
    BY <1>1, <1>2, <1>4, <2>1 DEF CacheIInv, StoresAreOfTheScope
<1>15. LimitIsEnforced'
  <2>1. drain.phase \notin {"idle", "list", "scan"}
    BY <1>1 DEF CacheIInv, TurnIsOfOneRun
  <2>2. drain.phase = "prune" => stored' \in SUBSET stored
    BY <1>5, <1>7 DEF PayloadsAfter
  <2>3. drain.phase = "write" => (\E u \in drain.updates : u.payload) \/ stored' \in SUBSET stored
    BY <1>5, <1>7 DEF PayloadsAfter
  <2>4. stored' \in SUBSET stored /\ Cardinality(stored) <= StoredLimit =>
            Cardinality(stored') <= StoredLimit
    BY <1>2, SmallerIsWithin
  <2>5. faults = 0 /\ drain.phase = "prune" => Cardinality(stored) <= StoredLimit
    BY DEF CacheIInv, LimitIsEnforced
  <2>6. faults = 0 /\ drain.phase = "write" =>
            (\E u \in drain.updates : u.payload) \/ Cardinality(stored) <= StoredLimit
    BY DEF CacheIInv, LimitIsEnforced
  <2>7. faults = 0 /\ drain.phase = "evict" =>
            Cardinality(PayloadsAfter(drain', stored')) <= StoredLimit
    BY <1>3 DEF CacheIInv, LimitIsEnforced
  <2> QED
    BY <1>1, <1>2, <2>1, <2>2, <2>3, <2>4, <2>5, <2>6, <2>7 DEF CacheIInv, LimitIsEnforced
<1> QED
  BY <1>9, <1>10, <1>11, <1>13, <1>14, <1>15 DEF CacheIInv

LEMMA LoseStep ==
    ASSUME CacheIInv, NEW store \in Cache!Stores, Cache!Lose(store)
    PROVE  CacheIInv'
<1>1. /\ drain' \in Drains /\ drain'.todo = drain.todo \ {store} /\ store \in drain.todo
      /\ drain'.phase = drain.phase /\ drain'.prune = drain.prune
      /\ drain'.updates = drain.updates /\ drain'.keys = drain.keys
  BY DEF Cache!Lose, CacheIInv, CacheTyped, Drains
<1>2. /\ UNCHANGED <<scope, pending, queued, stored, metas, readers, fetching>>
      /\ torn' /\ faults' = faults + 1 /\ faults \in Nat
  BY DEF Cache!Lose, CacheIInv, LimitIsEnforced
<1>3. CacheTyped'
  BY <1>1, <1>2 DEF CacheIInv, CacheTyped, ReadersTyped, Cache!NoDrain
<1>4. TurnIsOfOneRun'
  BY <1>1, <1>2 DEF CacheIInv, TurnIsOfOneRun
<1>5. StoresAgree' /\ MadeUpIsHarmless' /\ StoresAreOfTheScope'
  BY <1>2 DEF StoresAgree, MadeUpIsHarmless, StoresAreOfTheScope
<1>6. LimitIsEnforced'
  BY <1>2 DEF LimitIsEnforced
<1> QED
  BY <1>3, <1>4, <1>5, <1>6 DEF CacheIInv

\* A database that does not open takes nothing: what was there stays.
LEMMA UnopenedStep ==
    ASSUME CacheIInv, Cache!Unopened
    PROVE  CacheIInv'
<1>1. /\ drain' \in Drains /\ drain'.todo = {} /\ drain.phase \in {"write", "evict"}
      /\ drain'.phase = drain.phase /\ drain'.prune = drain.prune
      /\ drain'.updates = drain.updates /\ drain'.keys = drain.keys
      /\ drain.todo = Cache!Stores
  BY DEF Cache!Unopened, CacheIInv, CacheTyped, Drains
<1>2. /\ UNCHANGED <<scope, pending, queued, stored, metas, readers, fetching, torn, missed>>
      /\ faults' = faults + 1 /\ faults \in Nat /\ stored \subseteq Cache!Keys
  BY DEF Cache!Unopened, Cache!Fault, Cache!flaws, CacheIInv, CacheTyped, LimitIsEnforced
<1>3. CacheTyped'
  BY <1>1, <1>2 DEF CacheIInv, CacheTyped, ReadersTyped, Cache!NoDrain
<1>4. TurnIsOfOneRun'
  BY <1>1, <1>2 DEF CacheIInv, TurnIsOfOneRun
<1>5. PayloadsAfter(drain', stored') = stored /\ MetasAfter(drain', metas') = metas
  BY <1>1, <1>2 DEF PayloadsAfter, MetasAfter
<1>6. StoresAgree'
  BY <1>1, <1>2, <1>5 DEF CacheIInv, StoresAgree
<1>7. MadeUpIsHarmless'
  <2> SUFFICES ASSUME ~torn, queued = None, NEW u \in pending, u.run = scope, u.run # u.key.run
               PROVE  u.key \notin stored
    BY <1>1, <1>2, <1>5 DEF CacheIInv, MadeUpIsHarmless, Forgotten
  <2>1. Forgotten(u.key)
    BY DEF CacheIInv, MadeUpIsHarmless
  <2>2. CASE drain.phase = "evict"
    BY <1>1, <2>1, <2>2 DEF Forgotten
  <2>3. CASE drain.phase = "write"
    <3>1. drain.keys = {}
      BY <2>3 DEF CacheIInv, TurnIsOfOneRun
    <3> QED
      BY <1>1, <2>1, <2>3, <3>1 DEF Forgotten, PayloadsAfter, Cache!Stores
  <2> QED
    BY <1>1, <2>2, <2>3
<1>8. StoresAreOfTheScope'
  BY <1>1, <1>2, <1>5 DEF CacheIInv, StoresAreOfTheScope
<1>9. LimitIsEnforced'
  BY <1>1, <1>2 DEF LimitIsEnforced
<1> QED
  BY <1>3, <1>4, <1>6, <1>7, <1>8, <1>9 DEF CacheIInv

\* The listed keys of other runs are removed from both stores: when all were listed, what is left is
\* of the run of the prune.
LEMMA ListStaleStep ==
    ASSUME CacheIInv, Cache!ListStale
    PROVE  CacheIInv'
<1> DEFINE stale == {k \in Cache!Stored : metas[k] # drain.prune}
<1>1. PICK listed \in SUBSET stale :
          /\ Cache!Fault(listed # stale)
          /\ drain' = [drain EXCEPT !.phase = "prune", !.todo = Cache!Stores, !.keys = listed]
          /\ missed' = (listed # stale)
          /\ torn' = (torn \/ \E u \in drain.updates : u.key \in stale \ listed)
  BY DEF Cache!ListStale
<1>2. /\ drain' \in Drains /\ drain'.todo = Cache!Stores /\ drain'.phase = "prune"
      /\ drain'.prune = drain.prune /\ drain'.updates = drain.updates /\ drain'.keys = listed
  BY <1>1 DEF CacheIInv, CacheTyped, Drains, DrainPhases, Cache!Stored
<1>3. /\ UNCHANGED <<scope, pending, queued, stored, metas, readers, fetching>>
      /\ stored \subseteq Cache!Keys /\ metas \in [Cache!Keys -> Scopes \cup {None}]
      /\ drain.todo = {} /\ drain.phase = "list" /\ drain.prune # None
      /\ drain.updates \subseteq CacheUpdates
  BY DEF Cache!ListStale, CacheIInv, CacheTyped, TurnIsOfOneRun, Drains
<1>4. /\ faults \in Nat /\ faults' \in Nat /\ (faults' = 0 => faults = 0)
      /\ (~torn' => ~torn) /\ (torn' => faults' > 0)
  <2>1. faults \in Nat /\ (torn => faults > 0)
    BY DEF CacheIInv, LimitIsEnforced
  <2>2. CASE listed = stale
    BY <1>1, <2>1, <2>2 DEF Cache!Fault
  <2>3. CASE listed # stale
    <3>1. faults' = faults + 1
      BY <1>1, <2>3 DEF Cache!Fault
    <3>2. faults' \in Nat /\ faults' > 0
      BY <2>1, <3>1
    <3>3. ~torn' => ~torn
      BY <1>1, Zenon
    <3> QED
      BY <2>1, <3>2, <3>3
  <2> QED
    BY <2>2, <2>3
<1>5. CacheTyped'
  BY <1>2, <1>3 DEF CacheIInv, CacheTyped, ReadersTyped, Cache!NoDrain
<1>6. TurnIsOfOneRun'
  BY <1>2, <1>3 DEF CacheIInv, TurnIsOfOneRun
<1>7. PayloadsAfter(drain', stored') = stored \ listed /\ PayloadsAfter(drain, stored) = stored
  BY <1>2, <1>3 DEF PayloadsAfter, Cache!Stores
<1>8. \A k \in Cache!Keys : MetasAfter(drain', metas')[k] = IF k \in listed THEN None ELSE metas[k]
  BY <1>2, <1>3 DEF MetasAfter, Cache!Stores
<1>9. ~torn => \A k \in stored : metas[k] = k.run
  BY <1>3 DEF CacheIInv, StoresAgree
<1>10. StoresAgree'
  BY <1>3, <1>4, <1>7, <1>8, <1>9 DEF StoresAgree
<1>11. MadeUpIsHarmless'
  <2>1. ASSUME ~torn', NEW u \in drain.updates, u.run # u.key.run, u.key \in stored
        PROVE  u.key \in listed
    <3>1. metas[u.key] = u.key.run /\ u.key \in Cache!Keys /\ u.key.run \in Scopes
      BY <1>3, <1>4, <1>9, <2>1 DEF Cache!Keys
    <3>2. u.run = drain.prune
      BY <1>3 DEF CacheIInv, TurnIsOfOneRun
    <3>3. u.key \in stale
      BY <2>1, <3>1, <3>2, CacheAssumption DEF Cache!Stored
    <3> QED
      BY <1>1, <2>1, <3>3
  <2>2. ASSUME ~torn', queued = None, NEW u \in pending, u.run = scope, u.run # u.key.run
        PROVE  u.key \notin stored
    BY <1>4, <1>7, <2>2 DEF CacheIInv, MadeUpIsHarmless, Forgotten
  <2> QED
    BY <1>2, <1>3, <1>7, <2>1, <2>2 DEF MadeUpIsHarmless, Forgotten
<1>12. StoresAreOfTheScope'
  <2> SUFFICES ASSUME scope # None, ~missed', queued = None, NEW k \in Cache!Keys
               PROVE  MetasAfter(drain', metas')[k] \in {None, scope}
    BY <1>2, <1>3 DEF StoresAreOfTheScope
  <2>1. drain.prune = scope /\ listed = stale
    BY <1>1, <1>3 DEF CacheIInv, TurnIsOfOneRun
  <2> QED
    BY <1>8, <2>1 DEF Cache!Stored
<1>13. LimitIsEnforced'
  BY <1>2, <1>3, <1>4 DEF CacheIInv, LimitIsEnforced
<1> QED
  BY <1>5, <1>6, <1>10, <1>11, <1>12, <1>13 DEF CacheIInv

\* What is listed and over the limit is removed from both stores.
LEMMA ListMetadataStep ==
    ASSUME CacheIInv, Cache!ListMetadata
    PROVE  CacheIInv'
<1>1. PICK listed \in SUBSET Cache!Stored :
          /\ Cache!Fault(listed # Cache!Stored)
          /\ \E kept \in Cache!Within(listed, StoredLimit) :
                drain' = [drain EXCEPT !.phase = "evict", !.todo = Cache!Stores,
                                       !.keys = listed \ kept]
  BY DEF Cache!ListMetadata
<1>2. PICK kept \in Cache!Within(listed, StoredLimit) :
          drain' = [drain EXCEPT !.phase = "evict", !.todo = Cache!Stores, !.keys = listed \ kept]
  BY <1>1
<1>3. /\ drain' \in Drains /\ drain'.todo = Cache!Stores /\ drain'.phase = "evict"
      /\ drain'.prune = drain.prune /\ drain'.updates = drain.updates
      /\ drain'.keys = listed \ kept
  BY <1>2 DEF CacheIInv, CacheTyped, Drains, DrainPhases, Cache!Stored
<1>4. /\ UNCHANGED <<scope, pending, queued, stored, metas, readers, fetching, torn, missed>>
      /\ stored \subseteq Cache!Keys /\ metas \in [Cache!Keys -> Scopes \cup {None}]
      /\ drain.todo = {} /\ drain.phase = "scan"
  BY DEF Cache!ListMetadata, Cache!flaws, CacheIInv, CacheTyped, TurnIsOfOneRun
<1>5. CacheTyped'
  BY <1>3, <1>4 DEF CacheIInv, CacheTyped, ReadersTyped, Cache!NoDrain
<1>6. TurnIsOfOneRun'
  BY <1>3, <1>4 DEF CacheIInv, TurnIsOfOneRun
<1>7. /\ PayloadsAfter(drain', stored') = stored \ (listed \ kept)
      /\ PayloadsAfter(drain, stored) = stored /\ MetasAfter(drain, metas) = metas
  BY <1>3, <1>4 DEF PayloadsAfter, MetasAfter, Cache!Stores
<1>8. \A k \in Cache!Keys : MetasAfter(drain', metas')[k] =
                                IF k \in listed \ kept THEN None ELSE metas[k]
  BY <1>3, <1>4 DEF MetasAfter, Cache!Stores
<1>9. ~torn => \A k \in stored : metas[k] = k.run
  BY <1>4 DEF CacheIInv, StoresAgree
<1>10. StoresAgree'
  BY <1>4, <1>7, <1>8, <1>9 DEF StoresAgree
<1>11. MadeUpIsHarmless'
  BY <1>3, <1>4, <1>7 DEF CacheIInv, MadeUpIsHarmless, Forgotten
<1>12. StoresAreOfTheScope'
  BY <1>4, <1>7, <1>8 DEF CacheIInv, StoresAreOfTheScope
<1>13. LimitIsEnforced'
  <2>1. (torn => faults > 0) /\ faults \in Nat
    BY DEF CacheIInv, LimitIsEnforced
  <2>2. \/ faults' = faults + 1
        \/ faults' = faults /\ listed = Cache!Stored
    BY <1>1 DEF Cache!Fault
  <2>3. CASE faults' = faults /\ listed = Cache!Stored
    <3>1. ~torn => stored \subseteq Cache!Stored
      BY <1>4, <1>9, CacheAssumption DEF Cache!Stored, Cache!Keys
    <3>2. ~torn => PayloadsAfter(drain', stored') \in SUBSET kept
      BY <1>7, <2>3, <3>1
    <3>3. kept \in SUBSET Cache!Keys /\ Cardinality(kept) <= StoredLimit
      <4>1. kept \in SUBSET listed /\ listed \in SUBSET Cache!Keys
        BY <1>1 DEF Cache!Within, Cache!Stored
      <4>2. Cardinality(listed) \in Nat
        BY <4>1, FiniteKeys, FS_CardinalityType
      <4> QED
        BY <4>1, <4>2, CacheAssumption, CacheCardinality DEF Cache!Within
    <3>4. ~torn => Cardinality(PayloadsAfter(drain', stored')) <= StoredLimit
      BY <3>2, <3>3, SmallerIsWithin
    <3> QED
      BY <1>3, <1>4, <2>1, <2>3, <3>4 DEF LimitIsEnforced
  <2>4. CASE faults' = faults + 1
    BY <1>3, <1>4, <2>1, <2>4 DEF LimitIsEnforced
  <2> QED
    BY <2>2, <2>3, <2>4
<1> QED
  BY <1>5, <1>6, <1>10, <1>11, <1>12, <1>13 DEF CacheIInv

\* Between turns of this tab, a whole turn of another one leaves stores that agree.
LEMMA OtherTabStep ==
    ASSUME CacheIInv, NEW key \in Cache!Keys, NEW done \in SUBSET Cache!Stores,
           Cache!OtherTab(key, done)
    PROVE  CacheIInv'
<1> DEFINE stale == {k \in Cache!Stored : metas[k] # key.run}
           At_(k) == IF "metas" \notin done THEN metas[k]
                     ELSE IF k = key THEN key.run
                     ELSE IF k \in stale THEN None ELSE metas[k]
<1>1. /\ stored' = IF "payloads" \in done THEN (stored \ stale) \cup {key} ELSE stored
      /\ metas' = [k \in Cache!Keys |-> At_(k)]
      /\ missed' /\ torn' = (torn \/ done # Cache!Stores \/ drain # Cache!NoDrain)
      /\ faults' = faults + 1 /\ faults \in Nat
      /\ UNCHANGED <<scope, pending, queued, drain, readers, fetching>>
  BY DEF Cache!OtherTab, Cache!Fault, CacheIInv, LimitIsEnforced
<1>2. /\ stored \subseteq Cache!Keys /\ metas \in [Cache!Keys -> Scopes \cup {None}]
      /\ key.run \in Scopes /\ None \notin Scopes
  BY CacheAssumption DEF CacheIInv, CacheTyped, Cache!Keys
<1>3. CacheTyped'
  <2>1. stored' \subseteq Cache!Keys
    BY <1>1, <1>2
  <2>2. \A k \in Cache!Keys : At_(k) \in Scopes \cup {None}
    BY <1>2
  <2> HIDE DEF At_
  <2>3. metas' \in [Cache!Keys -> Scopes \cup {None}]
    BY <1>1, <2>2
  <2> QED
    BY <1>1, <2>1, <2>3 DEF CacheIInv, CacheTyped, ReadersTyped
<1>4. TurnIsOfOneRun'
  BY <1>1 DEF CacheIInv, TurnIsOfOneRun
<1>5. ASSUME ~torn'
      PROVE  /\ ~torn /\ drain = Cache!NoDrain /\ pending = {} /\ drain.updates = {}
             /\ PayloadsAfter(drain, stored') = stored' /\ MetasAfter(drain, metas') = metas'
             /\ \A k \in stored' : metas'[k] = k.run
  <2>1. ~torn /\ done = Cache!Stores /\ drain = Cache!NoDrain
    BY <1>1, <1>5
  <2>2. drain.todo = {} /\ drain.phase = "idle" /\ drain.updates = {}
    BY <2>1 DEF Cache!NoDrain
  <2>3. pending = {}
    BY <2>2 DEF CacheIInv, TurnIsOfOneRun
  <2>4. \A k \in stored : metas[k] = k.run
    BY <2>1, <2>2 DEF CacheIInv, StoresAgree
  <2>5. "payloads" \in done /\ "metas" \in done
    BY <2>1 DEF Cache!Stores
  <2>6. ASSUME NEW k \in stored' PROVE metas'[k] = k.run
    <3>1. k \in Cache!Keys /\ k.run \in Scopes /\ metas'[k] = At_(k)
      BY <1>1, <1>2, <1>3 DEF CacheTyped, Cache!Keys
    <3>2. k = key \/ (k \in stored /\ k \notin stale)
      BY <1>1, <2>5
    <3> QED
      BY <2>4, <2>5, <3>1, <3>2
  <2> QED
    BY <2>1, <2>2, <2>3, <2>6 DEF PayloadsAfter, MetasAfter
<1>6. StoresAgree' /\ MadeUpIsHarmless'
  BY <1>1, <1>5 DEF StoresAgree, MadeUpIsHarmless
<1>7. StoresAreOfTheScope' /\ LimitIsEnforced'
  BY <1>1 DEF StoresAreOfTheScope, LimitIsEnforced
<1> QED
  BY <1>3, <1>4, <1>6, <1>7 DEF CacheIInv

\* A page that is closed loses what it had to write; its stores differ if it was between two
\* transactions.
LEMMA ReloadStep ==
    ASSUME CacheIInv, Cache!Reload
    PROVE  CacheIInv'
<1>1. /\ scope' = None /\ pending' = {} /\ queued' = None /\ drain' = Cache!NoDrain
      /\ readers' = [r \in Readers |-> Cache!Away] /\ fetching' = {}
      /\ torn' = (torn \/ Cardinality(drain.todo) = 1) /\ faults' = faults + 1
      /\ UNCHANGED <<stored, metas>>
  BY CacheCardinality DEF Cache!Reload
<1>2. drain.todo \subseteq Cache!Stores /\ faults \in Nat
  BY DEF CacheIInv, CacheTyped, Drains, LimitIsEnforced
<1>3. ~torn' => ~torn /\ drain.todo \in {{}, Cache!Stores}
  <2>1. Cardinality({"payloads"}) = 1 /\ Cardinality({"metas"}) = 1
    BY FS_Singleton
  <2>2. drain.todo \in {{}, {"payloads"}, {"metas"}, Cache!Stores}
    BY <1>2 DEF Cache!Stores
  <2> QED
    BY <1>1, <2>1, <2>2
<1>4. drain' \in Drains
  BY <1>1 DEF Drains, DrainPhases, Cache!NoDrain
<1>5. CacheTyped'
  BY <1>1, <1>4 DEF CacheIInv, CacheTyped, ReadersTyped
<1>6. TurnIsOfOneRun'
  BY <1>1 DEF TurnIsOfOneRun, Cache!NoDrain
<1>7. PayloadsAfter(drain', stored') = stored /\ MetasAfter(drain', metas') = metas
  BY <1>1 DEF PayloadsAfter, MetasAfter, Cache!NoDrain
<1>8. StoresAgree' /\ MadeUpIsHarmless' /\ StoresAreOfTheScope'
  BY <1>1, <1>3, <1>7 DEF CacheIInv, StoresAgree, MadeUpIsHarmless, StoresAreOfTheScope,
     Cache!NoDrain
<1>9. LimitIsEnforced'
  BY <1>1, <1>2 DEF LimitIsEnforced
<1> QED
  BY <1>5, <1>6, <1>8, <1>9 DEF CacheIInv

LEMMA CacheInitIInv == Cache!Init => CacheIInv
<1> SUFFICES ASSUME Cache!Init PROVE CacheIInv
  OBVIOUS
<1>1. PICK r \in Scopes, files \in {fs \in SUBSET Files : Cardinality(fs) <= StoredLimit} :
          /\ stored = {[run |-> r, file |-> file] : file \in files}
          /\ metas = [k \in Cache!Keys |-> IF k \in stored THEN r ELSE None]
  BY CacheCardinality DEF Cache!Init
<1>2. /\ scope = None /\ pending = {} /\ queued = None /\ drain = Cache!NoDrain
      /\ readers = [x \in Readers |-> Cache!Away] /\ fetching = {}
      /\ torn = FALSE /\ faults = 0
  BY DEF Cache!Init
<1>3. stored \subseteq Cache!Keys
  BY <1>1 DEF Cache!Keys
<1>4. CacheTyped
  BY <1>1, <1>2, <1>3 DEF CacheTyped, ReadersTyped, Drains, DrainPhases, Cache!NoDrain
<1>5. TurnIsOfOneRun
  BY <1>2 DEF TurnIsOfOneRun, Cache!NoDrain
<1>6. PayloadsAfter(drain, stored) = stored /\ MetasAfter(drain, metas) = metas
  BY <1>2 DEF PayloadsAfter, MetasAfter, Cache!NoDrain
<1>7. \A k \in stored : metas[k] = k.run
  BY <1>1, <1>3
<1>8. StoresAgree /\ MadeUpIsHarmless /\ StoresAreOfTheScope
  BY <1>2, <1>6, <1>7 DEF StoresAgree, MadeUpIsHarmless, StoresAreOfTheScope, Cache!NoDrain
<1>9. Cardinality(stored) <= StoredLimit
  <2> DEFINE f == [file \in files |-> [run |-> r, file |-> file]]
  <2>1. f \in Surjection(files, stored)
    BY <1>1 DEF Surjection
  <2>2. IsFiniteSet(files)
    BY CacheAssumption, FS_Subset
  <2>3. IsFiniteSet(stored) /\ Cardinality(stored) <= Cardinality(files)
    BY <2>1, <2>2, FS_Surjection
  <2>4. Cardinality(stored) \in Nat /\ Cardinality(files) \in Nat
    BY <2>2, <2>3, FS_CardinalityType
  <2> QED
    BY <2>3, <2>4, CacheAssumption
<1>10. LimitIsEnforced
  BY <1>2, <1>9 DEF LimitIsEnforced, Cache!NoDrain
<1> QED
  BY <1>4, <1>5, <1>8, <1>10 DEF CacheIInv

LEMMA CacheNextIInv == CacheIInv /\ [Cache!Next]_(Cache!vars) => CacheIInv'
<1> SUFFICES ASSUME CacheIInv, [Cache!Next]_(Cache!vars) PROVE CacheIInv'
  OBVIOUS
<1>1. CASE UNCHANGED Cache!vars
  BY <1>1, FlawsStay, ReaderStep DEF Cache!vars, Cache!flaws, CacheIInv, CacheTyped, ReadersTyped
<1>2. ASSUME NEW store \in Cache!Stores, Cache!Commit(store) \/ Cache!Lose(store)
      PROVE  CacheIInv'
  BY <1>2, CommitStep, LoseStep
<1> QED
  BY <1>1, <1>2, LookupStep, ReadMetaStep, CallStep, FetchedStep, ListStaleStep,
     ListMetadataStep, UnopenedStep, ContinueStep, ReloadStep, OtherTabStep DEF Cache!Next

LEMMA CacheFollows == CacheIInv => Cache!PersistedIsOfTheScope
<1> SUFFICES ASSUME CacheIInv, drain = Cache!NoDrain, scope # None, ~torn, ~missed
             PROVE  /\ \A k \in Cache!Keys : metas[k] \in {None, scope}
                    /\ stored \subseteq Cache!Stored /\ \A k \in stored : k.run = scope
                    /\ faults = 0 => Cardinality(stored) <= StoredLimit
  BY CacheCardinality DEF Cache!PersistedIsOfTheScope
<1>1. drain.todo = {} /\ drain.phase = "idle"
  BY DEF Cache!NoDrain
<1>2. MetasAfter(drain, metas) = metas /\ queued = None
  BY <1>1 DEF MetasAfter, CacheIInv, TurnIsOfOneRun
<1>3. \A k \in Cache!Keys : metas[k] \in {None, scope}
  BY <1>1, <1>2 DEF CacheIInv, StoresAreOfTheScope
<1>4. \A k \in stored : k \in Cache!Keys /\ k.run \in Scopes /\ metas[k] = k.run
  BY <1>1 DEF CacheIInv, CacheTyped, StoresAgree, Cache!Keys
<1>5. faults = 0 => Cardinality(stored) <= StoredLimit
  BY <1>1 DEF CacheIInv, LimitIsEnforced
<1> QED
  BY <1>3, <1>4, <1>5, CacheAssumption DEF Cache!Stored

-----------------------------------------------------------------------------
\* PayloadCache: the theorems.

\* Once the drain is done IndexedDB has payloads and metadata of the active run only, each
\* payload with its metadata, whatever was read, fetched and switched meanwhile and whatever
\* reads, writes and databases have failed, within the limit if nothing has, unless the stores
\* were torn apart, or the last prune did not list all there was or another tab has written since
\* (payloadCache.ts:106-237, payloadIndexedDb.ts:41-245).
THEOREM CacheIsOfTheScope == Cache!Spec => []Cache!PersistedIsOfTheScope
  BY CacheInitIInv, CacheNextIInv, CacheFollows, PTL DEF Cache!Spec

\* The same of the run that checks it, beside the other subjects.
THEOREM PeripheryCacheIsOfTheScope == PeripherySpec => []PersistedIsOfTheScope
<1> DEFINE Inv == subject = "cache" => CacheIInv
<1>1. PeripheryInit => Inv
  BY CacheInitIInv DEF PeripheryInit
<1>2. Inv /\ [PeripheryNext]_all => Inv'
  <2> SUFFICES ASSUME Inv, [PeripheryNext]_all, subject' = "cache" PROVE CacheIInv'
    OBVIOUS
  <2>1. subject = "cache" /\ [Cache!Next]_(Cache!vars)
    BY DEF PeripheryNext, all, cacheVars, Cache!vars, Cache!flaws
  <2> QED
    BY <2>1, CacheNextIInv
<1>3. Inv => PersistedIsOfTheScope
  BY CacheFollows DEF PersistedIsOfTheScope
<1> QED
  BY <1>1, <1>2, <1>3, PTL DEF PeripherySpec

-----------------------------------------------------------------------------
\* ForecastSync: the inductive invariant.

ClientTimes == [applied : Nat, target : Nat, inFlight : BOOLEAN, playing : BOOLEAN]

ClientTyped ==
    /\ timeline \in ClientTimes
    /\ timer = None \/ timer \in [from : Nat, to : Nat, fresh : BOOLEAN]
    /\ view \in Views \cup {None} /\ host \in Nat
    /\ initial \in [error : BOOLEAN, token : Nat, applied : BOOLEAN]
    /\ seen \in ClientInputs \cup {None}
    /\ tracker \in [active : ClientRequests \cup {None}, applied : ClientKeys \cup {None},
                    failed : ClientKeys \cup {None}, other : BOOLEAN]
    /\ loads \subseteq ClientRequests

\* What the request effect saw last is being loaded, has failed or was applied.
SeenIsAnswered ==
    seen # None /\ ~seen.blocked /\ seen.key.view # None /\ seen.key.host # 0 =>
        tracker.active # None \/ tracker.failed = seen.key \/ tracker.applied = seen.key

\* The active request is for what the effect saw last, and only a Retry, which there is none of
\* meanwhile, has another token.
ActiveIsSeen ==
    tracker.active # None =>
        /\ seen # None /\ tracker.active.key = seen.key
        /\ ~initial.error
        /\ tracker.active.key.token = initial.token /\ tracker.active.key.host <= host

\* The host was given what was applied last; after it there is no error to retry.
AppliedIsShown ==
    tracker.applied # None =>
        /\ shown \in {tracker.applied, Torn}
        /\ initial.applied /\ ~initial.error
        /\ tracker.applied.token = initial.token /\ tracker.applied.host <= host

\* Unless another view was asked for, the probe is of what was applied last.
ProbeIsApplied ==
    tracker.applied # None /\ ~tracker.other =>
        probe = tracker.applied.view /\ committed = tracker.applied.view

\* Then only another time or another host has put the timeline in flight, and the key that was
\* applied last does not come back while it is.
FlightIsForAnother ==
    tracker.applied # None /\ ~tracker.other /\ timeline.inFlight /\ ~Client!Misclaimed =>
        timeline.target # tracker.applied.time \/ host # tracker.applied.host

ClientIInv ==
    /\ ClientTyped /\ SeenIsAnswered /\ ActiveIsSeen /\ AppliedIsShown /\ ProbeIsApplied
    /\ FlightIsForAnother

-----------------------------------------------------------------------------
\* ForecastSync: the steps.

LEMMA KeyTyped ==
    ASSUME ClientTyped
    PROVE  /\ Client!Key \in ClientKeys /\ Client!Key # None
           /\ Client!Key.host = host /\ Client!Key.view = view
           /\ Client!Key.time = timeline.target /\ Client!Key.token = initial.token
           /\ Client!Inputs \in ClientInputs /\ Client!Inputs # None
           /\ Client!Inputs.key = Client!Key /\ Client!Inputs.blocked = initial.error
  BY ClientAssumption DEF ClientTyped, ClientTimes, ClientKeys, ClientInputs, Client!Key,
     Client!Inputs

\* A change leaves a timer that is no longer fresh.
LEMMA ChangeTyped ==
    ASSUME ClientTyped, NEW s \in ClientTimes, Client!Change(s)
    PROVE  timeline' = s /\ (timer' = None \/ timer' \in [from : Nat, to : Nat, fresh : BOOLEAN])
  BY DEF Client!Change, ClientTyped

LEMMA TimesAreNat == Client!Times \subseteq Nat
  BY ClientAssumption DEF Client!Times

\* The user and playback move the timeline.
LEMMA TimelineStep ==
    ASSUME ClientIInv,
           \/ \E time \in Client!Times : Client!RequestTime(time) \/ Client!ResetToNow(time)
           \/ Client!TogglePlay \/ Client!SchedulePlayback \/ Client!PlaybackTick
    PROVE  ClientIInv'
<1>1. ClientTyped
  BY DEF ClientIInv
<1>2. UNCHANGED <<view, host, initial, seen, tracker, loads, committed, shown, probe>>
  BY DEF Client!RequestTime, Client!ResetToNow, Client!TogglePlay, Client!SchedulePlayback,
     Client!PlaybackTick
<1> DEFINE Moved ==
              /\ timeline' \in ClientTimes
              /\ timer' = None \/ timer' \in [from : Nat, to : Nat, fresh : BOOLEAN]
              /\ \/ ~timeline'.inFlight
                 \/ /\ timeline'.applied = timeline.applied
                    /\ \/ timeline.inFlight /\ timeline'.target = timeline.target
                       \/ timeline'.target # timeline'.applied
<1>3. Moved
  <2>1. ASSUME NEW time \in Client!Times, Client!RequestTime(time) PROVE Moved
    <3> DEFINE s == [timeline EXCEPT !.target = time, !.inFlight = ~Client!Returns(timeline, time)]
    <3>1. Client!Change(s)
      BY <2>1 DEF Client!RequestTime
    <3>2. s \in ClientTimes /\ s.applied = timeline.applied /\ s.target = time
          /\ s.inFlight = (time # timeline.applied)
      BY <1>1, TimesAreNat DEF ClientTyped, ClientTimes, Client!Returns
    <3> HIDE DEF s
    <3>3. timeline' = s /\ (timer' = None \/ timer' \in [from : Nat, to : Nat, fresh : BOOLEAN])
      BY <1>1, <3>1, <3>2, ChangeTyped
    <3> QED
      BY <3>2, <3>3
  <2>2. ASSUME NEW time \in Client!Times, Client!ResetToNow(time) PROVE Moved
    <3> DEFINE s == [applied |-> time, target |-> time, inFlight |-> FALSE, playing |-> FALSE]
    <3>1. s \in ClientTimes /\ ~s.inFlight
      BY TimesAreNat DEF ClientTimes
    <3>2. Client!Change(s)
      BY <2>2 DEF Client!ResetToNow
    <3> HIDE DEF s
    <3>3. timeline' = s /\ (timer' = None \/ timer' \in [from : Nat, to : Nat, fresh : BOOLEAN])
      BY <1>1, <3>1, <3>2, ChangeTyped
    <3> QED
      BY <3>1, <3>3
  <2>3. CASE Client!TogglePlay
    <3> DEFINE s == [timeline EXCEPT !.playing = ~@]
    <3>1. s \in ClientTimes /\ s.applied = timeline.applied /\ s.target = timeline.target
          /\ s.inFlight = timeline.inFlight
      BY <1>1 DEF ClientTyped, ClientTimes
    <3>2. Client!Change(s)
      BY <2>3 DEF Client!TogglePlay
    <3> HIDE DEF s
    <3>3. timeline' = s /\ (timer' = None \/ timer' \in [from : Nat, to : Nat, fresh : BOOLEAN])
      BY <1>1, <3>1, <3>2, ChangeTyped
    <3> QED
      BY <3>1, <3>3
  <2>4. CASE Client!SchedulePlayback
    <3>1. timeline' = timeline /\ timeline.applied \in Nat
      BY <1>1, <2>4 DEF Client!SchedulePlayback, ClientTyped, ClientTimes
    <3>2. Client!NextTime(timeline.applied) \in Nat
      BY <3>1 DEF Client!NextTime
    <3> QED
      BY <1>1, <2>4, <3>1, <3>2 DEF Client!SchedulePlayback, ClientTyped
  <2>5. CASE Client!PlaybackTick
    BY <1>1, <2>5 DEF Client!PlaybackTick, Client!Ticks, ClientTyped, ClientTimes
  <2> QED
    BY <2>1, <2>2, <2>3, <2>4, <2>5
<1>4. ClientTyped'
  BY <1>1, <1>2, <1>3 DEF ClientTyped
<1>5. SeenIsAnswered' /\ ActiveIsSeen' /\ AppliedIsShown' /\ ProbeIsApplied'
  BY <1>2 DEF ClientIInv, SeenIsAnswered, ActiveIsSeen, AppliedIsShown, ProbeIsApplied
<1>6. FlightIsForAnother'
  <2>1. CASE ~timeline'.inFlight
    BY <2>1 DEF FlightIsForAnother
  <2>2. CASE timeline'.applied = timeline.applied /\ timeline'.target # timeline'.applied
    BY <1>2, <2>2 DEF FlightIsForAnother, Client!Misclaimed
  <2>3. CASE timeline'.applied = timeline.applied /\ timeline.inFlight
             /\ timeline'.target = timeline.target
    BY <1>2, <2>3 DEF ClientIInv, FlightIsForAnother, Client!Misclaimed
  <2> QED
    BY <1>3, <2>1, <2>2, <2>3
<1> QED
  BY <1>4, <1>5, <1>6 DEF ClientIInv

\* Another view, host or token, which the effect has yet to see.
LEMMA SelectionStep ==
    ASSUME ClientIInv,
           \/ \E v \in Views \cup {None} : Client!SelectView(v)
           \/ Client!PublishHost \/ Client!Retry
    PROVE  ClientIInv'
<1>1. /\ UNCHANGED <<timeline, timer, seen, tracker, loads, committed, shown, probe>>
      /\ view' \in Views \cup {None}
      /\ \/ initial' = initial
         \/ initial.error /\ initial' = [initial EXCEPT !.error = FALSE, !.token = @ + 1]
      /\ host' \in {host, host + 1}
  BY DEF Client!SelectView, Client!PublishHost, Client!Retry, ClientIInv, ClientTyped
<1>2. ClientTyped'
  <2>1. initial' \in [error : BOOLEAN, token : Nat, applied : BOOLEAN]
    <3>1. /\ initial \in [error : BOOLEAN, token : Nat, applied : BOOLEAN]
          /\ initial.token + 1 \in Nat
      BY DEF ClientIInv, ClientTyped
    <3>2. ASSUME NEW t \in Nat
          PROVE  [initial EXCEPT !.error = FALSE, !.token = t]
                     \in [error : BOOLEAN, token : Nat, applied : BOOLEAN]
      BY <3>1, Zenon
    <3> QED
      BY <1>1, <3>1, <3>2
  <2>2. host' \in Nat
    BY <1>1 DEF ClientIInv, ClientTyped
  <2> QED
    BY <1>1, <2>1, <2>2 DEF ClientIInv, ClientTyped
<1>3. host \in Nat /\ host <= host'
      /\ (tracker.applied # None => tracker.applied.host \in Nat)
      /\ (tracker.active # None => tracker.active.key.host \in Nat)
  BY <1>1 DEF ClientIInv, ClientTyped, ClientKeys, ClientRequests
<1>4. SeenIsAnswered' /\ ProbeIsApplied'
  BY <1>1 DEF ClientIInv, SeenIsAnswered, ProbeIsApplied
<1>5. ActiveIsSeen' /\ AppliedIsShown'
  BY <1>1, <1>3 DEF ClientIInv, ActiveIsSeen, AppliedIsShown
<1>6. FlightIsForAnother'
  <2> SUFFICES ASSUME tracker.applied # None, ~tracker.other, timeline.inFlight,
                      ~Client!Misclaimed, host' = tracker.applied.host
               PROVE  timeline.target # tracker.applied.time
    BY <1>1 DEF FlightIsForAnother, Client!Misclaimed
  <2>1. host = tracker.applied.host
    BY <1>3 DEF ClientIInv, AppliedIsShown
  <2> QED
    BY <2>1 DEF ClientIInv, FlightIsForAnother
<1> QED
  BY <1>2, <1>4, <1>5, <1>6 DEF ClientIInv

LEMMA DisableStep ==
    ASSUME ClientIInv, Client!Disable
    PROVE  ClientIInv'
<1>1. /\ seen' = Client!Inputs /\ view = None
      /\ tracker' = [tracker EXCEPT !.active = None, !.applied = None, !.other = FALSE]
      /\ initial' = [error |-> FALSE, token |-> 0, applied |-> FALSE]
      /\ UNCHANGED <<timeline, timer, view, host, loads>>
  BY DEF Client!Disable, Client!Rerun
<1>2. /\ Client!Inputs \in ClientInputs /\ Client!Inputs.key = Client!Key
      /\ Client!Key.view = view
  BY KeyTyped DEF ClientIInv
<1>3. tracker'.active = None /\ tracker'.applied = None
  BY <1>1 DEF ClientIInv, ClientTyped
<1>4. ClientTyped'
  BY <1>1, <1>2 DEF ClientIInv, ClientTyped
<1>5. SeenIsAnswered' /\ ActiveIsSeen' /\ AppliedIsShown' /\ ProbeIsApplied'
      /\ FlightIsForAnother'
  BY <1>1, <1>2, <1>3 DEF SeenIsAnswered, ActiveIsSeen, AppliedIsShown, ProbeIsApplied,
     FlightIsForAnother
<1> QED
  BY <1>4, <1>5 DEF ClientIInv

LEMMA NothingStep ==
    ASSUME ClientIInv, Client!Nothing
    PROVE  ClientIInv'
<1>1. /\ seen' = Client!Inputs
      /\ initial.error \/ host = 0 \/ tracker.applied = Client!Key
      /\ tracker' = [tracker EXCEPT !.active = None]
      /\ UNCHANGED <<timeline, timer, view, host, initial, loads, committed, shown, probe>>
  BY DEF Client!Nothing, Client!Rerun
<1>2. /\ Client!Inputs \in ClientInputs /\ Client!Inputs.key = Client!Key
      /\ Client!Inputs.blocked = initial.error /\ Client!Key.host = host
  BY KeyTyped DEF ClientIInv
<1>3. /\ tracker'.active = None /\ tracker'.applied = tracker.applied
      /\ tracker'.other = tracker.other
  BY <1>1 DEF ClientIInv, ClientTyped
<1>4. ClientTyped'
  BY <1>1, <1>2 DEF ClientIInv, ClientTyped
<1>5. SeenIsAnswered' /\ ActiveIsSeen' 
  BY <1>1, <1>2, <1>3 DEF SeenIsAnswered, ActiveIsSeen
<1>6. AppliedIsShown' /\ ProbeIsApplied' /\ FlightIsForAnother'
  BY <1>1, <1>3 DEF ClientIInv, AppliedIsShown, ProbeIsApplied, FlightIsForAnother,
     Client!Misclaimed
<1> QED
  BY <1>4, <1>5, <1>6 DEF ClientIInv

\* A request begins for a key that is not the one applied last.
LEMMA BeginRequestStep ==
    ASSUME ClientIInv, NEW id \in 1..MaxLoads, Client!Begin(id)
    PROVE  ClientIInv'
<1> DEFINE s == [timeline EXCEPT !.inFlight = TRUE]
<1>1. /\ seen' = Client!Inputs /\ view # None /\ ~initial.error /\ host # 0
      /\ tracker.applied # Client!Key
      /\ tracker' = [tracker EXCEPT !.active = Client!Request(id), !.failed = None,
                                    !.other = @ \/ view # committed]
      /\ loads' = loads \cup {Client!Request(id)}
      /\ probe' = IF committed \notin {None, view} THEN None ELSE probe
      /\ Client!Change(s)
      /\ UNCHANGED <<view, host, initial, committed, shown>>
  BY DEF Client!Begin, Client!Rerun
<1>2. ClientTyped
  BY DEF ClientIInv
<1>3. /\ Client!Key \in ClientKeys
      /\ Client!Key.host = host /\ Client!Key.view = view
      /\ Client!Key.time = timeline.target /\ Client!Key.token = initial.token
      /\ Client!Inputs \in ClientInputs /\ Client!Inputs # None
      /\ Client!Inputs.key = Client!Key
  BY <1>2, KeyTyped
<1>4. /\ Client!Request(id) \in ClientRequests /\ Client!Request(id) # None
      /\ Client!Request(id).key = Client!Key
  BY <1>3, ClientAssumption DEF Client!Request, ClientRequests
<1>5. /\ s \in ClientTimes /\ s.applied = timeline.applied /\ s.target = timeline.target
  BY <1>2 DEF ClientTyped, ClientTimes
<1> HIDE DEF s
<1>6. timeline' = s /\ (timer' = None \/ timer' \in [from : Nat, to : Nat, fresh : BOOLEAN])
  BY <1>1, <1>2, <1>5, ChangeTyped
<1>7. /\ tracker'.active = Client!Request(id) /\ tracker'.applied = tracker.applied
      /\ tracker'.failed = None
      /\ ~tracker'.other => ~tracker.other /\ view = committed
      /\ tracker'.other \in BOOLEAN
  BY <1>1, <1>2 DEF ClientTyped
<1>8. ClientTyped'
  <2>1. tracker' \in [active : ClientRequests \cup {None}, applied : ClientKeys \cup {None},
                      failed : ClientKeys \cup {None}, other : BOOLEAN]
    BY <1>1, <1>2, <1>4, <1>7 DEF ClientTyped
  <2> QED
    BY <1>1, <1>2, <1>3, <1>4, <1>5, <1>6, <2>1 DEF ClientTyped
<1>9. SeenIsAnswered'
  BY <1>4, <1>7 DEF SeenIsAnswered
<1>10. ActiveIsSeen'
  BY <1>1, <1>2, <1>3, <1>4, <1>7 DEF ActiveIsSeen, ClientTyped
<1>11. AppliedIsShown'
  BY <1>1, <1>7 DEF ClientIInv, AppliedIsShown
<1>12. ProbeIsApplied'
  BY <1>1, <1>7 DEF ClientIInv, ProbeIsApplied
<1>13. FlightIsForAnother'
  <2> SUFFICES ASSUME tracker.applied # None, ~tracker.other, view = committed,
                      timeline.target = tracker.applied.time, host = tracker.applied.host
               PROVE  FALSE
    BY <1>1, <1>5, <1>6, <1>7 DEF FlightIsForAnother
  <2>1. tracker.applied \in ClientKeys
    BY <1>2 DEF ClientTyped
  <2>2. tracker.applied.view = view /\ tracker.applied.token = initial.token
    BY DEF ClientIInv, ProbeIsApplied, AppliedIsShown
  <2>3. tracker.applied = Client!Key
    BY <2>1, <2>2, <1>3 DEF ClientKeys, Client!Key
  <2> QED
    BY <1>1, <2>3
<1> QED
  BY <1>8, <1>9, <1>10, <1>11, <1>12, <1>13 DEF ClientIInv

LEMMA ApplyWindowsStep ==
    ASSUME ClientIInv, NEW request \in loads, Client!ApplyWindows(request)
    PROVE  ClientIInv'
<1> DEFINE s == [timeline EXCEPT !.applied = request.key.time, !.target = request.key.time,
                                 !.inFlight = FALSE]
<1>1. ClientTyped
  BY DEF ClientIInv
<1>2. /\ tracker.active = request
      /\ loads' = loads \ {request} /\ shown' = request.key
      /\ probe' = request.key.view /\ committed' = request.key.view
      /\ tracker' = [tracker EXCEPT !.active = None, !.applied = request.key, !.other = FALSE]
      /\ Client!Change(s)
      /\ initial' = [initial EXCEPT !.error = FALSE, !.applied = TRUE]
      /\ UNCHANGED <<view, host, seen>>
  BY DEF Client!ApplyWindows, Client!IsCurrent
<1>3. request \in ClientRequests /\ request # None /\ request.key \in ClientKeys
      /\ request.key.time \in Nat
  BY <1>1, ClientAssumption DEF ClientTyped, ClientRequests, ClientKeys
<1>4. s \in ClientTimes /\ ~s.inFlight
  BY <1>1, <1>3 DEF ClientTyped, ClientTimes
<1> HIDE DEF s
<1>5. timeline' = s /\ (timer' = None \/ timer' \in [from : Nat, to : Nat, fresh : BOOLEAN])
  BY <1>1, <1>2, <1>4, ChangeTyped
<1>6. /\ tracker' \in [active : ClientRequests \cup {None}, applied : ClientKeys \cup {None},
                       failed : ClientKeys \cup {None}, other : BOOLEAN]
      /\ tracker'.active = None /\ tracker'.applied = request.key
      /\ initial' \in [error : BOOLEAN, token : Nat, applied : BOOLEAN]
      /\ ~initial'.error /\ initial'.applied /\ initial'.token = initial.token
  BY <1>1, <1>2, <1>3 DEF ClientTyped
<1>7. ClientTyped'
  BY <1>1, <1>2, <1>4, <1>5, <1>6 DEF ClientTyped
<1>8. /\ seen # None /\ request.key = seen.key
      /\ request.key.token = initial.token /\ request.key.host <= host
  BY <1>2, <1>3 DEF ClientIInv, ActiveIsSeen
<1>9. SeenIsAnswered' /\ ActiveIsSeen' /\ AppliedIsShown' /\ ProbeIsApplied'
  BY <1>2, <1>6, <1>8 DEF SeenIsAnswered, ActiveIsSeen, AppliedIsShown, ProbeIsApplied
<1>10. FlightIsForAnother'
  BY <1>4, <1>5 DEF FlightIsForAnother
<1> QED
  BY <1>7, <1>9, <1>10 DEF ClientIInv

LEMMA FailRequestStep ==
    ASSUME ClientIInv, NEW request \in loads, Client!FailRequest(request)
    PROVE  ClientIInv'
<1> DEFINE s == [timeline EXCEPT !.inFlight = FALSE, !.playing = FALSE]
<1>1. ClientTyped
  BY DEF ClientIInv
<1>2. /\ tracker.active = request
      /\ loads' = loads \ {request} /\ shown' \in {shown, Torn}
      /\ tracker' = [tracker EXCEPT !.active = None, !.failed = request.key]
      /\ Client!Change(s)
      /\ initial' = [initial EXCEPT !.error = @ \/ ~initial.applied]
      /\ UNCHANGED <<view, host, seen, committed, probe>>
  BY DEF Client!FailRequest, Client!IsCurrent
<1>3. request \in ClientRequests /\ request # None /\ request.key \in ClientKeys
  BY <1>1, ClientAssumption DEF ClientTyped, ClientRequests
<1>4. s \in ClientTimes /\ ~s.inFlight
  BY <1>1 DEF ClientTyped, ClientTimes
<1> HIDE DEF s
<1>5. timeline' = s /\ (timer' = None \/ timer' \in [from : Nat, to : Nat, fresh : BOOLEAN])
  BY <1>1, <1>2, <1>4, ChangeTyped
<1>6. /\ tracker' \in [active : ClientRequests \cup {None}, applied : ClientKeys \cup {None},
                       failed : ClientKeys \cup {None}, other : BOOLEAN]
      /\ tracker'.active = None /\ tracker'.applied = tracker.applied
      /\ tracker'.failed = request.key /\ tracker'.other = tracker.other
  BY <1>1, <1>2, <1>3 DEF ClientTyped
<1>7. /\ initial' \in [error : BOOLEAN, token : Nat, applied : BOOLEAN]
      /\ initial'.applied = initial.applied /\ initial'.token = initial.token
      /\ initial.applied /\ ~initial.error => ~initial'.error
  BY <1>1, <1>2 DEF ClientTyped
<1>8. ClientTyped'
  BY <1>1, <1>2, <1>4, <1>5, <1>6, <1>7 DEF ClientTyped
<1>9. seen # None /\ request.key = seen.key
  BY <1>2, <1>3 DEF ClientIInv, ActiveIsSeen
<1>10. SeenIsAnswered' /\ ActiveIsSeen'
  BY <1>2, <1>6, <1>9 DEF SeenIsAnswered, ActiveIsSeen
<1>11. AppliedIsShown' /\ ProbeIsApplied'
  BY <1>2, <1>6, <1>7 DEF ClientIInv, AppliedIsShown, ProbeIsApplied
<1>12. FlightIsForAnother'
  BY <1>4, <1>5 DEF FlightIsForAnother
<1> QED
  BY <1>8, <1>10, <1>11, <1>12 DEF ClientIInv

LEMMA DropLoadStep ==
    ASSUME ClientIInv, NEW request \in loads, Client!DropLoad(request)
    PROVE  ClientIInv'
<1>1. /\ loads' \subseteq loads
      /\ UNCHANGED <<timeline, timer, view, host, initial, seen, tracker, committed, shown, probe>>
  BY DEF Client!DropLoad
<1>2. ClientTyped'
  BY <1>1 DEF ClientIInv, ClientTyped
<1> QED
  BY <1>1, <1>2 DEF ClientIInv, SeenIsAnswered, ActiveIsSeen, AppliedIsShown, ProbeIsApplied,
     FlightIsForAnother, Client!Misclaimed

LEMMA ClientInitIInv == Client!Init => ClientIInv
<1> SUFFICES ASSUME Client!Init PROVE ClientIInv
  OBVIOUS
<1>1. PICK time \in Client!Times :
          timeline = [applied |-> time, target |-> time, inFlight |-> FALSE, playing |-> FALSE]
  BY DEF Client!Init
<1>2. ClientTyped
  BY <1>1, TimesAreNat DEF Client!Init, ClientTyped, ClientTimes
<1> QED
  BY <1>2 DEF Client!Init, ClientIInv, SeenIsAnswered, ActiveIsSeen, AppliedIsShown,
     ProbeIsApplied, FlightIsForAnother

LEMMA ClientNextIInv == ClientIInv /\ [Client!Next]_(Client!vars) => ClientIInv'
<1> SUFFICES ASSUME ClientIInv, [Client!Next]_(Client!vars) PROVE ClientIInv'
  OBVIOUS
<1>1. CASE UNCHANGED Client!vars
  BY <1>1 DEF Client!vars, ClientIInv, ClientTyped, SeenIsAnswered, ActiveIsSeen,
     AppliedIsShown, ProbeIsApplied, FlightIsForAnother, Client!Misclaimed
<1> QED
  BY <1>1, TimelineStep, SelectionStep, DisableStep, NothingStep, BeginRequestStep,
     DropLoadStep, ApplyWindowsStep, FailRequestStep DEF Client!Next

\* At rest what is asked for is what was applied last.
LEMMA RestIsApplied ==
    ASSUME ClientIInv, Client!AtRest
    PROVE  /\ tracker.applied = Client!Key /\ tracker.applied # None
           /\ tracker.applied.view = view /\ tracker.applied.time = timeline.target
           /\ tracker.applied.host = host
<1>1. /\ Client!Key # None /\ Client!Key.host = host /\ Client!Key.view = view
      /\ Client!Key.time = timeline.target /\ Client!Inputs # None
      /\ Client!Inputs.key = Client!Key /\ Client!Inputs.blocked = initial.error
  BY KeyTyped DEF ClientIInv
<1> QED
  BY <1>1 DEF Client!AtRest, ClientIInv, SeenIsAnswered

LEMMA ClientFollows == ClientIInv => Client!ShownIsAsked /\ Client!InFlightIsBacked
<1> SUFFICES ASSUME ClientIInv, Client!AtRest
             PROVE  /\ shown \in {Client!Key, Torn}
                    /\ timeline.applied = timeline.target \/ Client!Misclaimed
                    /\ probe = view \/ Client!Withdrawn
                    /\ timeline.inFlight => Client!Withdrawn \/ Client!Misclaimed
  BY DEF Client!ShownIsAsked, Client!InFlightIsBacked
<1> QED
  BY RestIsApplied DEF ClientIInv, AppliedIsShown, ProbeIsApplied, FlightIsForAnother,
     Client!Withdrawn, Client!Misclaimed

-----------------------------------------------------------------------------
\* ForecastSync: the theorems.

\* However seeks, ticks, views, hosts and loads fall: at rest the host shows what the timeline
\* and the selection ask for, unless an apply threw half way, and the probes have the frame of
\* the view unless a view was withdrawn (useRequestRunner.ts:45-144, requestTracker.ts:17-63).
THEOREM ClientShowsWhatIsAsked == Client!Spec => []Client!ShownIsAsked
  BY ClientInitIInv, ClientNextIInv, ClientFollows, PTL DEF Client!Spec

\* Playback does not wait for a request that is gone (state.ts:88-156).
THEOREM ClientFlightIsBacked == Client!Spec => []Client!InFlightIsBacked
  BY ClientInitIInv, ClientNextIInv, ClientFollows, PTL DEF Client!Spec

\* What the run that checks them states of the client, beside the other subjects.
LEMMA PeripheryClientIInv == PeripherySpec => [](subject = "client" => ClientIInv)
<1> DEFINE Inv == subject = "client" => ClientIInv
<1>1. PeripheryInit => Inv
  BY ClientInitIInv DEF PeripheryInit
<1>2. Inv /\ [PeripheryNext]_all => Inv'
  <2> SUFFICES ASSUME Inv, [PeripheryNext]_all, subject' = "client" PROVE ClientIInv'
    OBVIOUS
  <2>1. subject = "client" /\ [Client!Next]_(Client!vars)
    BY DEF PeripheryNext, all, clientVars, Client!vars
  <2> QED
    BY <2>1, ClientNextIInv
<1> QED
  BY <1>1, <1>2, PTL DEF PeripherySpec

\* At rest what is asked for is shown, in the run that checks it.
THEOREM PeripheryClientShowsWhatIsAsked == PeripherySpec => []ShownIsAsked
<1>1. (subject = "client" => ClientIInv) => ShownIsAsked
  BY ClientFollows DEF ShownIsAsked
<1> QED
  BY PeripheryClientIInv, <1>1, PTL

\* At rest the timeline waits for no request, in the run that checks it.
THEOREM PeripheryClientFlightIsBacked == PeripherySpec => []InFlightIsBacked
<1>1. (subject = "client" => ClientIInv) => InFlightIsBacked
  BY ClientFollows DEF InFlightIsBacked
<1> QED
  BY PeripheryClientIInv, <1>1, PTL
===============================================================================
