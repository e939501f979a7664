---------------------------- MODULE PayloadCache ----------------------------
(* The cache of the frame payloads in the browser (cache/*.ts, artifacts/payload.ts *)
(* and payloadCache.ts): memory before IndexedDB, which has the payloads in one store *)
(* and what it knows of them in another.  The cache is of one run at a time, its    *)
(* scope.  Every await is a step boundary; the transactions on the two stores are   *)
(* two transactions.  The database may not open, a read of it may fail, and other   *)
(* tabs write to it: nobody is told.  Payloads have one size, and which of them is  *)
(* evicted is left open.                                                            *)
EXTENDS Naturals, FiniteSets

CONSTANTS
    Scopes,         \* runs
    Files,          \* payload paths of a run
    Readers,        \* callers of readArtifactPayload
    MemoryLimit,    \* memoryBytes, in payloads
    StoredLimit,    \* persistedBytes, in payloads
    MaxReads,       \* bound: calls
    MaxFaults,      \* bound: failures, closed pages and turns of other tabs
    None

VARIABLES
    scope,          \* activeScopeKey
    memory,         \* keys in memory
    pending,        \* updates in the buffer
    queued,         \* queuedPruneScopeKey
    drain,          \* the drain under way
    payloads,       \* keys in the payload store
    metas,          \* key -> scope in the metadata store
    readers,        \* what each caller waits for
    fetching,       \* keys being fetched, for whoever still waits
    torn,           \* the stores may contradict each other
    missed,         \* history: payloads of other runs may have been left, or put there
    reads, faults

flaws == <<torn, missed>>
vars == <<scope, memory, pending, queued, drain, payloads, metas, readers, fetching, flaws, reads, faults>>

Keys == [run : Scopes, file : Files]
Stores == {"payloads", "metas"}
Stored == {key \in Keys : metas[key] # None}
Waiting(phase, key) == [phase |-> phase, key |-> key]
Away == Waiting("away", None)
NoDrain == [phase |-> "idle", prune |-> None, updates |-> {}, keys |-> {}, todo |-> {}]

\* selectByteLruEvictionKeys, in any order of use: what is left of these keys.
Within(keys, limit) ==
    {kept \in SUBSET keys :
        Cardinality(kept) = IF Cardinality(keys) > limit THEN limit ELSE Cardinality(keys)}

\* enqueue: a payload that waits for its turn stays with the newer metadata.
Enqueued(key, run, payload) ==
    {update \in pending : update.key # key} \cup
        {[key |-> key, run |-> run,
          payload |-> payload \/ \E update \in pending : update.key = key /\ update.payload]}

-----------------------------------------------------------------------------
\* The drain takes all there is, up to its next await.

OfScope(updates, run) == {update \in updates : update.run = run}

Turn(prune, updates, run) ==
    IF prune = None /\ OfScope(updates, run) = {}
    THEN NoDrain
    ELSE [NoDrain EXCEPT !.phase = IF prune = None THEN "write" ELSE "list",
                         !.prune = prune, !.updates = OfScope(updates, run),
                         !.todo = IF prune = None THEN Stores ELSE {}]

\* startDrain
Drain(prune, updates, run) ==
    IF drain = NoDrain
    THEN drain' = Turn(prune, updates, run) /\ queued' = None /\ pending' = {}
    ELSE queued' = prune /\ pending' = updates /\ UNCHANGED drain

\* The loop goes on, or its promise is kept.
NextTurn ==
    /\ drain' = Turn(queued, pending, scope)
    /\ queued' = None /\ pending' = {}
    /\ readers' = [r \in Readers |->
                      IF drain' = NoDrain /\ readers[r].phase = "scope"
                      THEN Waiting("lookup", readers[r].key) ELSE readers[r]]

\* Something fails: a call of IndexedDB that resolves with a fallback.
Fault(fails) ==
    /\ fails => faults < MaxFaults
    /\ faults' = IF fails THEN faults + 1 ELSE faults

\* pruneScope: a cursor that fails ends the list, and a database that does not open has an
\* empty one.  Metadata that was made up is then written beside what contradicts it.
ListStale ==
    LET stale == {key \in Stored : metas[key] # drain.prune} IN
    /\ drain.phase = "list"
    /\ \E listed \in SUBSET stale :
          /\ Fault(listed # stale)
          /\ drain' = [drain EXCEPT !.phase = "prune", !.todo = Stores, !.keys = listed]
          /\ missed' = (listed # stale)
          /\ torn' = (torn \/ \E u \in drain.updates : u.key \in stale \ listed)
    /\ UNCHANGED <<scope, memory, pending, queued, payloads, metas, readers, fetching, reads>>

\* listMetadata, in the same way: what is not listed is not evicted.
ListMetadata ==
    /\ drain.phase = "scan"
    /\ \E listed \in SUBSET Stored :
          /\ Fault(listed # Stored)
          /\ \E kept \in Within(listed, StoredLimit) :
                drain' = [drain EXCEPT !.phase = "evict", !.todo = Stores, !.keys = listed \ kept]
    /\ UNCHANGED <<scope, memory, pending, queued, payloads, metas, readers, fetching, flaws, reads>>

\* A transaction on one of the stores is done.
Commit(store) ==
    /\ store \in drain.todo
    /\ drain' = [drain EXCEPT !.todo = @ \ {store}]
    /\ IF store = "payloads"
       THEN /\ payloads' = (payloads \ drain.keys) \cup
                               IF drain.phase = "write"
                               THEN {u.key : u \in {u \in drain.updates : u.payload}} ELSE {}
            /\ UNCHANGED metas
       ELSE /\ metas' = [key \in Keys |->
                            IF key \in drain.keys THEN None
                            ELSE IF drain.phase = "write" /\ \E u \in drain.updates : u.key = key
                                 THEN (CHOOSE u \in drain.updates : u.key = key).run
                                 ELSE metas[key]]
            /\ UNCHANGED payloads
    /\ UNCHANGED <<scope, memory, pending, queued, readers, fetching, flaws, reads, faults>>

\* Aborted, for want of space: nobody is told.
Lose(store) ==
    /\ store \in drain.todo /\ faults < MaxFaults
    /\ drain' = [drain EXCEPT !.todo = @ \ {store}]
    /\ torn' = TRUE /\ faults' = faults + 1
    /\ UNCHANGED <<scope, memory, pending, queued, payloads, metas, readers, fetching, missed, reads>>

\* The database does not open: neither store is written to.
Unopened ==
    /\ drain.phase \in {"write", "evict"} /\ drain.todo = Stores
    /\ Fault(TRUE)
    /\ drain' = [drain EXCEPT !.todo = {}]
    /\ UNCHANGED <<scope, memory, pending, queued, payloads, metas, readers, fetching, flaws, reads>>

Finished(phase) == drain.phase = phase /\ drain.todo = {}

Continue ==
    /\ \/ /\ Finished("prune") /\ drain.updates # {}
          /\ drain' = [drain EXCEPT !.phase = "write", !.todo = Stores, !.keys = {}]
          /\ UNCHANGED <<queued, pending, readers>>
       \/ /\ Finished("write") /\ \E update \in drain.updates : update.payload
          /\ drain' = [drain EXCEPT !.phase = "scan"]
          /\ UNCHANGED <<queued, pending, readers>>
       \/ Finished("prune") /\ drain.updates = {} /\ NextTurn
       \/ Finished("write") /\ ~(\E update \in drain.updates : update.payload) /\ NextTurn
       \/ Finished("evict") /\ NextTurn
    /\ UNCHANGED <<scope, memory, payloads, metas, fetching, flaws, reads, faults>>

-----------------------------------------------------------------------------
\* readArtifactPayload: the scope, the cache, the network.

Remember(key) == memory' \in Within(memory \cup {key}, MemoryLimit)

\* activateScope drops what other runs left in the database, earlier pages too.
PruneOfPage(run) == IF scope = None THEN None ELSE run
Prune(run) == run

Call(r, key) ==
    /\ readers[r] = Away /\ reads < MaxReads
    /\ reads' = reads + 1
    /\ IF scope = key.run
       THEN /\ readers' = [readers EXCEPT ![r] = Waiting("lookup", key)]
            /\ UNCHANGED <<scope, memory, pending, queued, drain>>
       ELSE /\ scope' = key.run /\ memory' = {}
            /\ Drain(Prune(key.run), {}, key.run)
            /\ readers' = [readers EXCEPT ![r] = Waiting("scope", key)]
    /\ UNCHANGED <<payloads, metas, fetching, flaws, faults>>

\* What is nowhere, or cannot be read, is fetched, once for all who ask.
Lookup(r) ==
    LET key == readers[r].key IN
    /\ readers[r].phase = "lookup"
    /\ \E found \in BOOLEAN :
          /\ found => key \in payloads
          /\ Fault(key \in payloads \ memory /\ ~found)
          /\ readers' = [readers EXCEPT ![r] =
                            IF key \notin memory /\ found THEN Waiting("meta", key) ELSE Away]
          /\ fetching' = IF key \in memory \/ found THEN fetching ELSE fetching \cup {key}
    /\ UNCHANGED <<scope, memory, pending, queued, drain, payloads, metas, flaws, reads>>

\* The payload was there; what is known of it is refreshed when it is old, made up when it
\* is not there, or cannot be read, for the run that is active by now.
ReadMeta(r) ==
    LET key == readers[r].key IN
    /\ readers[r].phase = "meta"
    /\ Remember(key)
    /\ \E known \in {metas[key], None} :
          /\ Fault(known # metas[key])
          /\ torn' = (torn \/ (known # metas[key] /\ metas[key] # scope))
          /\ \/ known # None /\ UNCHANGED <<pending, queued, drain>>
             \/ Drain(queued, Enqueued(key, IF known = None THEN scope ELSE known, FALSE), scope)
    /\ readers' = [readers EXCEPT ![r] = Away]
    /\ UNCHANGED <<scope, payloads, metas, fetching, missed, reads>>

\* The response, written if its run is still the active one.
Fetched(key) ==
    /\ key \in fetching
    /\ fetching' = fetching \ {key}
    /\ IF key.run = scope
       THEN Remember(key) /\ Drain(queued, Enqueued(key, key.run, TRUE), scope)
       ELSE UNCHANGED <<memory, pending, queued, drain>>
    /\ UNCHANGED <<scope, payloads, metas, readers, flaws, reads, faults>>

FetchFails(key) ==
    /\ key \in fetching
    /\ fetching' = fetching \ {key}
    /\ UNCHANGED <<scope, memory, pending, queued, drain, payloads, metas, readers, flaws, reads, faults>>

\* The page is closed and opened again.
Reload ==
    /\ faults < MaxFaults /\ scope # None
    /\ faults' = faults + 1
    /\ scope' = None /\ memory' = {} /\ pending' = {} /\ queued' = None /\ drain' = NoDrain
    /\ readers' = [r \in Readers |-> Away] /\ fetching' = {}
    /\ torn' = (torn \/ Cardinality(drain.todo) = 1)
    /\ UNCHANGED <<payloads, metas, missed, reads>>

\* Another tab, perhaps of another run, has one of its turns: it removes what is not of its
\* run and writes a payload, all of it at once or on one store first.
OtherTab(key, done) ==
    LET stale == {k \in Stored : metas[k] # key.run} IN
    /\ Fault(TRUE)
    /\ payloads' = IF "payloads" \in done THEN (payloads \ stale) \cup {key} ELSE payloads
    /\ metas' = [k \in Keys |-> IF "metas" \notin done THEN metas[k]
                               ELSE IF k = key THEN key.run
                               ELSE IF k \in stale THEN None ELSE metas[k]]
    /\ missed' = TRUE
    /\ torn' = (torn \/ done # Stores \/ drain # NoDrain)
    /\ UNCHANGED <<scope, memory, pending, queued, drain, readers, fetching, reads>>

\* An earlier page may have left payloads of its run.
Init ==
    /\ \E run \in Scopes, files \in {fs \in SUBSET Files : Cardinality(fs) <= StoredLimit} :
          /\ payloads = {[run |-> run, file |-> file] : file \in files}
          /\ metas = [key \in Keys |-> IF key \in payloads THEN run ELSE None]
    /\ scope = None /\ memory = {} /\ pending = {} /\ queued = None /\ drain = NoDrain
    /\ readers = [r \in Readers |-> Away] /\ fetching = {}
    /\ torn = FALSE /\ missed = FALSE /\ reads = 0 /\ faults = 0

Next ==
    \/ \E r \in Readers : Lookup(r) \/ ReadMeta(r) \/ \E key \in Keys : Call(r, key)
    \/ \E key \in Keys : Fetched(key) \/ FetchFails(key)
    \/ ListStale \/ ListMetadata \/ Unopened \/ Continue \/ Reload
    \/ \E key \in Keys, done \in (SUBSET Stores) \ {{}} : OtherTab(key, done)
    \/ \E store \in Stores : Commit(store) \/ Lose(store)

Spec == Init /\ [][Next]_vars

-----------------------------------------------------------------------------
\* Whatever is read, fetched, drained and switched meanwhile (payloadCache.ts:106-237,
\* payloadIndexedDb.ts:175-245): once the drain is done, IndexedDB has payloads and
\* metadata of the active run only, and each payload has its metadata, unless the stores were
\* torn apart: a payload without metadata is neither pruned nor counted.  What a failed list
\* or another tab has left goes with the next prune that lists it.  They are within the limit
\* if nothing has failed.
PersistedIsOfTheScope ==
    drain = NoDrain /\ scope # None /\ ~torn /\ ~missed =>
        /\ \A key \in Keys : metas[key] \in {None, scope}
        /\ payloads \subseteq Stored /\ \A key \in payloads : key.run = scope
        /\ faults = 0 => Cardinality(payloads) <= StoredLimit
=============================================================================
