----------------------------- MODULE SourceCache -----------------------------
(* Acquiring the source files of one frame job: ICON (sources/icon/dwd.py),    *)
(* MRMS (sources/mrms/source.py) and GFS (sources/gfs/source.py).  Files are   *)
(* written beside their place and moved there; a file that is there is used    *)
(* again by the next job on the same disk.  A transfer may end early without    *)
(* an error; bzip2 and gzip notice that, GRIB files are not looked at.          *)
EXTENDS Naturals

CONSTANTS
    Params,         \* parameters or products a frame needs
    PreviousParams, \* those an ICON frame also needs of the hour before
    Hours,          \* frames, as lead hours
    MaxJobs,        \* bound: jobs
    None

VARIABLES
    disk,           \* file -> "absent", "broken" (ends early) or "whole"
    job,            \* the job under way
    jobs            \* jobs so far

vars == <<disk, job, jobs>>

Kinds == {"icon", "mrms", "gfs"}
Stages == {"compressed", "plain", "regridded"}
Keys == [kind : Kinds, param : Params, hour : Hours]
File(key, stage) == [key |-> key, stage |-> stage]
SourceFiles == {File(key, stage) : key \in Keys, stage \in Stages}
NoJob == [keys |-> {}, writing |-> None, content |-> None, state |-> "idle"]

Is(key, stage, content) == disk[File(key, stage)] = content
Missing(key, stage) == Is(key, stage, "absent")

Of(kind, params, hour) == {[kind |-> kind, param |-> p, hour |-> hour] : p \in params}

\* required_icon_params and, from the hour before, required_previous_icon_params.
IconKeys(hour) ==
    Of("icon", Params, hour) \cup
        (IF hour > 1 /\ hour - 1 \in Hours THEN Of("icon", PreviousParams, hour - 1) ELSE {})

\* required_mrms_products
MrmsKeys(hour) == Of("mrms", Params, hour)

\* One filtered file has all the parameters of a GFS frame.
GfsKeys(hour) == Of("gfs", {CHOOSE p \in Params : TRUE}, hour)

\* MRMS files live in the temporary directory of the job.
Temporary(d) == [f \in SourceFiles |-> IF f.key.kind = "mrms" THEN "absent" ELSE d[f]]

Begin(keys) ==
    /\ job.state = "idle" /\ jobs < MaxJobs
    /\ job' = [NoJob EXCEPT !.keys = keys, !.state = "running"]
    /\ jobs' = jobs + 1
    /\ disk' = Temporary(disk)

Working(key) == job.state = "running" /\ job.writing = None /\ key \in job.keys

\* A transfer or a tool has begun to write: beside the file, as name.tmp.
StartedInPlace(file) == [disk EXCEPT ![file] = "broken"]
Started(file) == disk

StartWriting(key, stage, content) ==
    /\ job' = [job EXCEPT !.writing = File(key, stage), !.content = content]
    /\ disk' = Started(File(key, stage))
    /\ UNCHANGED jobs

\* tmp_path.replace(out_path)
Replace ==
    /\ job.writing # None
    /\ disk' = [disk EXCEPT ![job.writing] = job.content]
    /\ job' = [job EXCEPT !.writing = None, !.content = None]
    /\ UNCHANGED jobs

\* An error: HTTP status, timeout, deadline, tool, disk.  The temporary file is removed.
GiveUp ==
    /\ job.state = "running"
    /\ job' = NoJob
    /\ UNCHANGED <<disk, jobs>>

\* A response that ends early is not an error of urllib or of the store.
Transferred == {"whole", "broken"}

\* _download_if_needed, which looks at the compressed file even when what is made of it is
\* there.  A response that is too small counts as not ready and is tried again.
MustFetchIcon(key) == key.kind = "icon" /\ Missing(key, "compressed")
FetchIcon(key) ==
    /\ Working(key) /\ MustFetchIcon(key)
    /\ \E content \in Transferred : StartWriting(key, "compressed", content)

\* _prepare_collection_product, _copy_uri_if_needed: nothing is copied for a file that is there.
FetchMrms(key) ==
    /\ Working(key) /\ key.kind = "mrms" /\ Missing(key, "plain") /\ Missing(key, "compressed")
    /\ \E content \in Transferred : StartWriting(key, "compressed", content)

\* nomads.download_if_needed: what came is the result.
FetchGfs(key) ==
    /\ Working(key) /\ key.kind = "gfs" /\ Missing(key, "plain")
    /\ \E content \in Transferred : StartWriting(key, "plain", content)

MustDecompress(key) ==
    key.kind # "gfs" /\ ~Missing(key, "compressed") /\ Missing(key, "plain")

Decompress(key) ==
    /\ Working(key) /\ MustDecompress(key) /\ Is(key, "compressed", "whole")
    /\ StartWriting(key, "plain", "whole")

\* A stream that ends early: ICON removes all that was made of it and starts again with the
\* download.
DiscardIcon(key) ==
    /\ Working(key) /\ MustDecompress(key) /\ Is(key, "compressed", "broken")
    /\ key.kind = "icon"
    /\ disk' = [f \in SourceFiles |-> IF f.key = key THEN "absent" ELSE disk[f]]
    /\ UNCHANGED <<job, jobs>>

\* MRMS removes it and ends the job.
DiscardMrms(key) ==
    /\ Working(key) /\ MustDecompress(key) /\ Is(key, "compressed", "broken")
    /\ key.kind = "mrms"
    /\ disk' = [disk EXCEPT ![File(key, "compressed")] = "absent"]
    /\ job' = NoJob
    /\ UNCHANGED jobs

\* cdo, which takes the grid from what it is given.
Regrid(key) ==
    /\ Working(key) /\ key.kind = "icon"
    /\ ~Missing(key, "compressed") /\ ~Missing(key, "plain") /\ Missing(key, "regridded")
    /\ StartWriting(key, "regridded", disk[File(key, "plain")])

Result(kind) == IF kind = "icon" THEN "regridded" ELSE "plain"

Take(key) ==
    /\ Working(key) /\ ~MustFetchIcon(key) /\ ~Missing(key, Result(key.kind))
    /\ job' = [job EXCEPT !.keys = @ \ {key},
                          !.state = IF job.keys = {key} THEN "idle" ELSE "running"]
    /\ UNCHANGED <<disk, jobs>>

\* The process is killed; Batch starts the next attempt on an empty disk, a local user on
\* the same one.
Crash ==
    /\ job.state = "running"
    /\ job' = NoJob
    /\ disk' \in {disk, [f \in SourceFiles |-> "absent"]}
    /\ UNCHANGED jobs

Init ==
    /\ disk = [f \in SourceFiles |-> "absent"]
    /\ job = NoJob /\ jobs = 0

Next ==
    \/ \E hour \in Hours : Begin(IconKeys(hour)) \/ Begin(MrmsKeys(hour)) \/ Begin(GfsKeys(hour))
    \/ \E key \in Keys :
          \/ FetchIcon(key) \/ FetchMrms(key) \/ FetchGfs(key)
          \/ Decompress(key) \/ DiscardIcon(key) \/ DiscardMrms(key)
          \/ Regrid(key) \/ Take(key)
    \/ Replace \/ GiveUp \/ Crash

Spec == Init /\ [][Next]_vars

-----------------------------------------------------------------------------
\* What ICON and MRMS hand to processing was made of a whole download (dwd.py:110-221,
\* 247-272; source.py:307-370): no transfer that ended early, no killed process and no
\* later job on the same disk leaves anything else where a finished file belongs.
CachedFilesAreWhole ==
    \A key \in Keys : key.kind # "gfs" =>
        /\ ~Is(key, Result(key.kind), "broken") /\ ~Is(key, "plain", "broken")
        /\ key.kind = "icon" /\ ~Missing(key, "regridded") => ~Missing(key, "plain")
=============================================================================
