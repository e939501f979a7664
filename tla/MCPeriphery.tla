---------------------------- MODULE MCPeriphery ----------------------------
(* What runs beside the pipeline, for TLC: status inspection, artifact sync,   *)
(* source acquisition, and the client's sync and payload cache.  They share no *)
(* state: a behaviour is one of Inspection, ArtifactSync, SourceCache,         *)
(* ForecastSync or PayloadCache, and subject says which.                       *)
EXTENDS Inspection, TLC

CONSTANTS before, after, Datasets, MaxRun, MaxExpiries, Params, PreviousParams, Hours, MaxJobs,
          LastTime, Views, MaxHost, MaxLoads, MaxEvents, Torn,
          Scopes, Files, Readers, MemoryLimit, StoredLimit, MaxReads, MaxFaults

\* What a page keeps is finite.
ASSUME CacheAssumption ==
    /\ None \notin Scopes /\ IsFiniteSet(Scopes) /\ IsFiniteSet(Files)
    /\ StoredLimit \in Nat

\* None is none of the client's keys, requests and inputs of the request effect.
ClientKeys == [host : Nat, view : Views \cup {None}, time : Nat, token : Nat]
ClientRequests == [id : Nat, key : ClientKeys]
ClientInputs == [key : ClientKeys, blocked : BOOLEAN]
ASSUME ClientAssumption ==
    /\ LastTime \in Nat /\ MaxLoads \in Nat
    /\ None \notin ClientKeys /\ None \notin ClientRequests /\ None \notin ClientInputs

FramesOfWorkload == before :> {1} @@ after :> {1, 2}

VARIABLES
    subject,
    remoteLatest, remoteIndex, expired, localIndex, localLatest, payloads, sync,
    disk, job, jobs,
    timeline, timer, view, host, initial, seen, tracker, loads, committed, shown, probe, events,
    scope, memory, pending, queued, drain, stored, metas, readers, fetching, torn, missed,
    reads, faults

Sync == INSTANCE ArtifactSync WITH index <- localIndex, latest <- localLatest
Source == INSTANCE SourceCache
Client == INSTANCE ForecastSync
Cache == INSTANCE PayloadCache WITH payloads <- stored

syncVars == <<remoteLatest, remoteIndex, expired, localIndex, localLatest, payloads, sync>>
sourceVars == <<disk, job, jobs>>
clientVars == <<timeline, timer, view, host, initial, seen, tracker, loads, committed, shown,
                probe, events>>
cacheVars == <<scope, memory, pending, queued, drain, stored, metas, readers, fetching, torn,
               missed, reads, faults>>
all == <<subject, vars, syncVars, sourceVars, clientVars, cacheVars>>

\* The subjects that do not run have no state; the inspection rests where it begins.
NoStatus == Init /\ publishedAt[FirstCycle] = Min(FirstHours)
NoSync ==
    /\ remoteLatest = None /\ remoteIndex = None /\ expired = None /\ localIndex = None
    /\ localLatest = None /\ payloads = None /\ sync = None
NoSource ==
    /\ disk = None /\ job = None /\ jobs = None
NoClient ==
    /\ timeline = None /\ timer = None /\ view = None /\ host = None
    /\ initial = None /\ seen = None /\ tracker = None /\ loads = None
    /\ committed = None /\ shown = None /\ probe = None /\ events = None
NoCache ==
    /\ scope = None /\ memory = None /\ pending = None /\ queued = None
    /\ drain = None /\ stored = None /\ metas = None /\ readers = None
    /\ fetching = None /\ torn = None /\ missed = None /\ reads = None /\ faults = None

PeripheryInit ==
    \/ subject = "status" /\ Init /\ NoSync /\ NoSource /\ NoClient /\ NoCache
    \/ subject = "sync" /\ Sync!Init /\ NoStatus /\ NoSource /\ NoClient /\ NoCache
    \/ subject = "source" /\ Source!Init /\ NoStatus /\ NoSync /\ NoClient /\ NoCache
    \/ subject = "client" /\ Client!Init /\ NoStatus /\ NoSync /\ NoSource /\ NoCache
    \/ subject = "cache" /\ Cache!Init /\ NoStatus /\ NoSync /\ NoSource /\ NoClient

PeripheryNext ==
    \/ subject = "status" /\ Next
       /\ UNCHANGED <<subject, syncVars, sourceVars, clientVars, cacheVars>>
    \/ subject = "sync" /\ Sync!Next
       /\ UNCHANGED <<subject, vars, sourceVars, clientVars, cacheVars>>
    \/ subject = "source" /\ Source!Next
       /\ UNCHANGED <<subject, vars, syncVars, clientVars, cacheVars>>
    \/ subject = "client" /\ Client!Next
       /\ UNCHANGED <<subject, vars, syncVars, sourceVars, cacheVars>>
    \/ subject = "cache" /\ Cache!Next
       /\ UNCHANGED <<subject, vars, syncVars, sourceVars, clientVars>>

PeripherySpec == PeripheryInit /\ [][PeripheryNext]_all

\* Once the stores of the browser may contradict each other nothing is claimed of them any
\* more: TLC goes no further.
StoresAreWhole == subject = "cache" => ~torn

\* The properties of ArtifactSync (etl-sync-artifacts.py:304-351), SourceCache
\* (dwd.py:110-221), ForecastSync (useRequestRunner.ts:45-144, state.ts:88-156) and
\* PayloadCache (payloadCache.ts:106-237): a finished sync is served, cached files come from
\* whole downloads, what is shown is what is asked for, a timeline in flight has a request,
\* and only the active run stays in the browser.
SyncedIndexIsServed == subject = "sync" => Sync!SyncedIndexIsServed
CachedFilesAreWhole == subject = "source" => Source!CachedFilesAreWhole
ShownIsAsked == subject = "client" => Client!ShownIsAsked
InFlightIsBacked == subject = "client" => Client!InFlightIsBacked
PersistedIsOfTheScope == subject = "cache" => Cache!PersistedIsOfTheScope
=============================================================================
