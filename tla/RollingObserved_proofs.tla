------------------------ MODULE RollingObserved_proofs ------------------------
(* Theorems about the rolling view of an observed dataset, for any number of  *)
(* publishers, frames, artifacts, configurations, windows and faults.         *)
EXTENDS RollingObserved, FiniteSetTheorems, WellFoundedInduction, TLAPS

USE SizeAssumption, ConfigAssumption, WindowAssumption, BoundsAssumption, NothingAssumption

-----------------------------------------------------------------------------
\* Newest and oldest frames exist.

\* A chain of frames has an end: with Before a strict order that only looks at the sets of
\* frames beyond each frame, a smallest such set exists in a finite set of frames.
LEMMA LeastBeyond ==
    ASSUME NEW F \in SUBSET Frames, F # {},
           NEW G \in [F -> SUBSET F]
    PROVE  \E m \in F : \A n \in F : ~ (G[n] \subseteq G[m] /\ G[n] # G[m])
<1> DEFINE T == {G[x] : x \in F}
<1>1. FiniteSubsetsOf(F) = SUBSET F
  <2>1. IsFiniteSet(Frames)
    BY FS_Interval DEF Frames
  <2> QED
    BY <2>1, FS_Subset, FS_FiniteSubsetsOfFinite
<1>2. IsWellFoundedOn(StrictSubsetOrdering(F), FiniteSubsetsOf(F))
  BY FS_StrictSubsetOrderingWellFounded
<1>3. T \subseteq FiniteSubsetsOf(F) /\ T # {}
  BY <1>1
<1>4. \E X \in T : \A Y \in T : ~ (<<Y, X>> \in StrictSubsetOrdering(F))
  <2> HIDE DEF T
  <2> QED
    BY <1>2, <1>3, WFMin
<1>5. PICK m \in F : \A n \in F : ~ (<<G[n], G[m]>> \in StrictSubsetOrdering(F))
  BY <1>4
<1>6. \A n \in F : G[n] \in SUBSET F
  OBVIOUS
<1> QED
  BY <1>5, <1>6 DEF StrictSubsetOrdering

\* The largest frame of a set is one of them, and none is larger.
LEMMA NewestFrame ==
    ASSUME NEW F \in SUBSET Frames, F # {}
    PROVE  Max(F) \in F /\ \A n \in F : n <= Max(F)
<1> DEFINE G == [x \in F |-> {y \in F : y >= x}]
<1>1. G \in [F -> SUBSET F]
  OBVIOUS
<1>2. PICK m \in F : \A n \in F : ~ (G[n] \subseteq G[m] /\ G[n] # G[m])
  <2> HIDE DEF G
  <2> QED
    BY <1>1, LeastBeyond
<1>3. ASSUME NEW n \in F, ~ (n <= m) PROVE FALSE
  <2>1. m \in G[m] /\ m \notin G[n]
    BY <1>3 DEF Frames
  <2>2. G[n] \subseteq G[m]
    <3>1. ASSUME NEW y \in F, y >= n PROVE y >= m
      BY <1>3, <3>1 DEF Frames
    <3>2. G[n] = {y \in F : y >= n} /\ G[m] = {y \in F : y >= m}
      BY <1>3
    <3> HIDE DEF G
    <3> QED
      BY <3>1, <3>2
  <2> HIDE DEF G
  <2> QED
    BY <1>2, <2>1, <2>2
<1>5. \A n \in F : m >= n
  BY <1>3 DEF Frames
<1> QED
  BY <1>5 DEF Max, Frames

\* The smallest frame of a set is one of them.
LEMMA OldestFrame ==
    ASSUME NEW F \in SUBSET Frames, F # {}
    PROVE  Min(F) \in F
<1> DEFINE G == [x \in F |-> {y \in F : y <= x}]
<1>1. G \in [F -> SUBSET F]
  OBVIOUS
<1>2. PICK m \in F : \A n \in F : ~ (G[n] \subseteq G[m] /\ G[n] # G[m])
  <2> HIDE DEF G
  <2> QED
    BY <1>1, LeastBeyond
<1>3. ASSUME NEW n \in F, ~ (m <= n) PROVE FALSE
  <2>1. m \in G[m] /\ m \notin G[n]
    BY <1>3 DEF Frames
  <2>2. G[n] \subseteq G[m]
    <3>1. ASSUME NEW y \in F, y <= n PROVE y <= m
      BY <1>3, <3>1 DEF Frames
    <3>2. G[n] = {y \in F : y <= n} /\ G[m] = {y \in F : y <= m}
      BY <1>3
    <3> HIDE DEF G
    <3> QED
      BY <3>1, <3>2
  <2> HIDE DEF G
  <2> QED
    BY <1>2, <2>1, <2>2
<1>4. \A n \in F : m <= n
  BY <1>3
<1> QED
  BY <1>4 DEF Min, Frames

-----------------------------------------------------------------------------
\* What a merge gives.

\* The window of some frames: frames of theirs, the newest one among them.
LEMMA WindowFacts ==
    ASSUME NEW F \in SUBSET Frames, F # {}
    PROVE  Window(F) \in SUBSET F /\ Window(F) # {}
<1>1. Max(F) \in F /\ Max(F) \in Nat
  <2>1. Max(F) \in F
    BY NewestFrame
  <2>2. Frames \subseteq Nat
    BY DEF Frames
  <2> QED
    BY <2>1, <2>2
<1>2. Max(F) + DisplayWindow >= Max(F)
  <2> DEFINE newest == Max(F)
  <2>1. newest \in Nat
    BY <1>1
  <2> HIDE DEF newest
  <2>2. newest + DisplayWindow >= newest
    BY <2>1
  <2> QED
    BY <2>2 DEF newest
<1>3. Max(F) \in Window(F)
  BY <1>1, <1>2 DEF Window
<1> QED
  BY <1>3 DEF Window

\* The merge of published runs is a manifest under the rolling root.
LEMMA RollingManifestType ==
    ASSUME TypeOK, NEW F \in SUBSET Published, F # {}
    PROVE  RollingManifest(F) \in Manifest /\ RollingManifest(F).root = Rolling
<1>1. F \in SUBSET Frames
  BY DEF Published
<1>2. Window(F) \in SUBSET F /\ Window(F) # {}
  BY <1>1, WindowFacts
<1>3. Min(Window(F)) \in Window(F)
  BY <1>1, <1>2, OldestFrame
<1>4. Baseline(F) \in Configs
  BY <1>2, <1>3 DEF Baseline, Published, TypeOK
<1>5. ArtifactsOf[Baseline(F)] \in SUBSET Artifacts
  BY <1>4
<1>6. Window(F) \in (SUBSET Frames) \ {{}}
  BY <1>1, <1>2
<1> HIDE ConfigAssumption
<1> QED
  BY <1>5, <1>6 DEF RollingManifest, Manifest, Root

\* The newest frame of a manifest is a frame.
LEMMA NewestIsFrame ==
    ASSUME NEW m \in Manifest
    PROVE  Newest(m) \in Frames
<1>1. m.frames \in SUBSET Frames /\ m.frames # {}
  BY DEF Manifest
<1> QED
  BY <1>1, NewestFrame DEF Newest

\* The payloads of a rolling manifest have paths under the rolling root.
LEMMA RollingPaths ==
    ASSUME NEW m \in Manifest, m.root = Rolling
    PROVE  Paths(m) \subseteq Path /\ \A path \in Paths(m) : path.root = Rolling
  BY DEF Manifest, Paths, Path, Root

-----------------------------------------------------------------------------
\* The inductive invariant.

\* A publisher has seen published runs only.
SeenIsPublished == \A p \in Publishers : seen[p] \subseteq Published

\* What it builds is a rolling manifest, and what it copies belongs to it.
BuildingIsRolling ==
    \A p \in Publishers : building[p] # Nothing =>
        building[p].root = Rolling /\ todo[p] \subseteq Paths(building[p])

\* What it has copied so far is as described.
CopiedSoFar ==
    \A p \in Publishers : pc[p] = "copying" =>
        \A path \in Paths(building[p]) \ todo[p] : store[path] = "described"

\* It goes on only with a manifest that the latest it has read does not supersede.
FoundIsNotNewer ==
    \A p \in Publishers : pc[p] = "copying" =>
        found[p] = Nothing \/ ~ (Newest(found[p]) > Newest(building[p]))

\* There is something to copy only while it copies.
TodoWhileCopying == \A p \in Publishers : pc[p] # "copying" => todo[p] = {}

PromisesAreRolling == \A path \in promised : path.root = Rolling

IInv ==
    /\ TypeOK
    /\ SeenIsPublished
    /\ BuildingIsRolling
    /\ CopiedSoFar
    /\ FoundIsNotNewer
    /\ TodoWhileCopying
    /\ PromisesAreRolling
    /\ PromisesAreKept

LEMMA InitIInv == Init => IInv
<1> SUFFICES ASSUME Init PROVE IInv
  OBVIOUS
<1>1. now \in Frames
  BY DEF Init, Frames
<1>2. TypeOK
  BY <1>1 DEF Init, TypeOK, Phases, Bytes
<1> QED
  BY <1>2 DEF Init, IInv, SeenIsPublished, BuildingIsRolling, CopiedSoFar, FoundIsNotNewer,
     TodoWhileCopying, PromisesAreRolling, PromisesAreKept

\* The publisher that ends its pass holds nothing that an invariant speaks of.
LEMMA EndStep ==
    ASSUME IInv, NEW p \in Publishers, End(p),
           UNCHANGED <<sources, store, promised>>,
           now' \in Frames, config' \in Configs, latest' \in Manifest \cup {Nothing},
           deploys' \in 0..MaxDeploys, rewrites' \in 0..MaxRewrites,
           crashes' \in 0..MaxCrashes
    PROVE  IInv'
<1>1. TypeOK'
  BY DEF IInv, TypeOK, End, Phases, Bytes
<1>2. SeenIsPublished'
  BY DEF IInv, TypeOK, SeenIsPublished, End, Published
<1>3. BuildingIsRolling'
  BY DEF IInv, TypeOK, BuildingIsRolling, End, Paths
<1>4. CopiedSoFar'
  BY DEF IInv, TypeOK, CopiedSoFar, End, Paths
<1>5. FoundIsNotNewer'
  BY DEF IInv, TypeOK, FoundIsNotNewer, End, Newest
<1>6. PromisesAreRolling' /\ PromisesAreKept'
  BY DEF IInv, PromisesAreRolling, PromisesAreKept
<1>7. TodoWhileCopying'
  BY DEF IInv, TypeOK, TodoWhileCopying, End
<1> QED
  BY <1>1, <1>2, <1>3, <1>4, <1>5, <1>6, <1>7 DEF IInv

LEMMA BeginStep ==
    ASSUME IInv, NEW p \in Publishers, Begin(p)
    PROVE  IInv'
<1>1. TypeOK'
  BY DEF IInv, TypeOK, Begin, Phases, InScan, Published, environment, counters
<1>2. SeenIsPublished'
  BY DEF IInv, TypeOK, SeenIsPublished, Begin, InScan, Published, environment
<1>3. CopiedSoFar' /\ FoundIsNotNewer' /\ BuildingIsRolling'
  BY DEF IInv, TypeOK, CopiedSoFar, FoundIsNotNewer, BuildingIsRolling, Begin, Paths, Newest
<1>4. PromisesAreRolling' /\ PromisesAreKept' /\ TodoWhileCopying'
  BY DEF IInv, TypeOK, PromisesAreRolling, PromisesAreKept, TodoWhileCopying, Begin
<1> QED
  BY <1>1, <1>2, <1>3, <1>4 DEF IInv

LEMMA ReadSourcesStep ==
    ASSUME IInv, NEW p \in Publishers, ReadSources(p)
    PROVE  IInv'
<1>1. PICK F \in SUBSET InScan(Published) :
        LET read == seen[p] \cup F IN
        IF Mergeable(read)
        THEN /\ pc' = [pc EXCEPT ![p] = "comparing"]
             /\ building' = [building EXCEPT ![p] = RollingManifest(read)]
             /\ seen' = [seen EXCEPT ![p] = {}]
             /\ UNCHANGED <<todo, found>>
        ELSE End(p)
  BY DEF ReadSources
<1> DEFINE read == seen[p] \cup F
<1>2. pc[p] = "reading" /\ seen[p] # {} /\ building[p] = Nothing
  BY DEF ReadSources, IInv, TypeOK, Phases
<1>3. read \in SUBSET Published /\ read # {}
  BY <1>2 DEF IInv, SeenIsPublished, InScan
<1>4. UNCHANGED <<now, config, sources, store, latest, promised, deploys, rewrites, crashes>>
  BY DEF ReadSources, environment, counters
<1>5. CASE ~ Mergeable(read)
  <2>1. End(p)
    BY <1>1, <1>5
  <2>2. now' \in Frames /\ config' \in Configs /\ latest' \in Manifest \cup {Nothing}
        /\ deploys' \in 0..MaxDeploys /\ rewrites' \in 0..MaxRewrites
        /\ crashes' \in 0..MaxCrashes
    BY <1>4 DEF IInv, TypeOK
  <2> QED
    BY <1>4, <2>1, <2>2, EndStep
<1>6. CASE Mergeable(read)
  <2> DEFINE m == RollingManifest(read)
  <2>1. m \in Manifest /\ m.root = Rolling
    <3> HIDE DEF read
    <3> QED
      BY <1>3, RollingManifestType DEF IInv
  <2>2. /\ pc' = [pc EXCEPT ![p] = "comparing"]
        /\ building' = [building EXCEPT ![p] = m]
        /\ seen' = [seen EXCEPT ![p] = {}]
        /\ UNCHANGED <<todo, found>>
    BY <1>1, <1>6
  <2> HIDE DEF m
  <2>3. TypeOK'
    BY <1>4, <2>1, <2>2 DEF IInv, TypeOK, Phases
  <2>4. SeenIsPublished'
    BY <1>4, <2>2 DEF IInv, TypeOK, SeenIsPublished, Published
  <2>5. todo[p] = {}
    BY <1>2 DEF IInv, TodoWhileCopying, TypeOK
  <2>6. BuildingIsRolling'
    BY <2>1, <2>2, <2>5 DEF IInv, TypeOK, BuildingIsRolling
  <2>7. CopiedSoFar' /\ FoundIsNotNewer'
    BY <1>4, <2>2 DEF IInv, TypeOK, CopiedSoFar, FoundIsNotNewer, Paths, Newest
  <2>8. PromisesAreRolling' /\ PromisesAreKept'
    BY <1>4 DEF IInv, PromisesAreRolling, PromisesAreKept
  <2>9. TodoWhileCopying'
    BY <1>2, <2>2, <2>5 DEF IInv, TypeOK, TodoWhileCopying
  <2> QED
    BY <2>3, <2>4, <2>6, <2>7, <2>8, <2>9 DEF IInv
<1> QED
  BY <1>5, <1>6

\* The types that EndStep asks for, when an action leaves these variables alone.
LEMMA RestUnchanged ==
    ASSUME IInv, UNCHANGED <<environment, latest, counters>>
    PROVE  /\ now' \in Frames /\ config' \in Configs /\ latest' \in Manifest \cup {Nothing}
           /\ deploys' \in 0..MaxDeploys /\ rewrites' \in 0..MaxRewrites
           /\ crashes' \in 0..MaxCrashes /\ UNCHANGED sources
  BY DEF IInv, TypeOK, environment, counters

LEMMA ReadLatestStep ==
    ASSUME IInv, NEW p \in Publishers, ReadLatest(p)
    PROVE  IInv'
<1>1. UNCHANGED <<environment, store, latest, promised, counters>>
  BY DEF ReadLatest
<1>2. CASE Superseded(building[p])
  <2>1. End(p)
    BY <1>2 DEF ReadLatest
  <2> QED
    BY <1>1, <2>1, RestUnchanged, EndStep
<1>3. CASE ~ Superseded(building[p])
  <2> DEFINE m == building[p]
  <2>1. m \in Manifest /\ m.root = Rolling /\ Paths(m) \subseteq Path
    <3>1. m \in Manifest /\ m # Nothing
      BY DEF ReadLatest, IInv, TypeOK
    <3>2. m.root = Rolling
      BY <3>1 DEF IInv, BuildingIsRolling
    <3> QED
      BY <3>1, <3>2, RollingPaths
  <2>2. /\ pc' = [pc EXCEPT ![p] = "copying"]
        /\ todo' = [todo EXCEPT ![p] = Paths(m)]
        /\ found' = [found EXCEPT ![p] = latest]
        /\ UNCHANGED <<seen, building>>
    BY <1>3 DEF ReadLatest, Copies
  <2>3. UNCHANGED <<now, config, sources, store, latest, promised, deploys, rewrites, crashes>>
    BY <1>1 DEF environment, counters
  <2>4. pc[p] = "comparing" /\ m # Nothing
    BY DEF ReadLatest, IInv, TypeOK
  <2>5. building[p] = m
    OBVIOUS
  <2>6. TypeOK'
    <3> HIDE DEF m
    <3> QED
      BY <2>1, <2>2, <2>3, <2>4 DEF IInv, TypeOK, Phases
  <2>7. SeenIsPublished' /\ BuildingIsRolling'
    <3> HIDE DEF m
    <3> QED
      BY <2>1, <2>2, <2>3, <2>5 DEF IInv, TypeOK, SeenIsPublished, BuildingIsRolling, Published
  <2>8. CopiedSoFar'
    <3> HIDE DEF m
    <3> QED
      BY <2>2, <2>3, <2>5 DEF IInv, TypeOK, CopiedSoFar, Paths
  <2>9. FoundIsNotNewer'
    <3>1. latest = Nothing \/ ~ (Newest(latest) > Newest(m))
      BY <1>3 DEF Superseded
    <3> HIDE DEF m
    <3> QED
      BY <2>2, <2>5, <3>1 DEF IInv, TypeOK, FoundIsNotNewer, Newest
  <2>10. TodoWhileCopying' /\ PromisesAreRolling' /\ PromisesAreKept'
    BY <2>2, <2>3 DEF IInv, TypeOK, TodoWhileCopying, PromisesAreRolling, PromisesAreKept
  <2> QED
    BY <2>6, <2>7, <2>8, <2>9, <2>10 DEF IInv
<1> QED
  BY <1>2, <1>3

\* One payload: only rolling paths are written, and only with what is described.
LEMMA CopyPayloadStep ==
    ASSUME IInv, NEW p \in Publishers, CopyPayload(p)
    PROVE  IInv'
<1> DEFINE path == CHOOSE path \in todo[p] : TRUE
<1>1. pc[p] = "copying" /\ path \in todo[p]
  BY DEF CopyPayload
<1>2. building[p] \in Manifest /\ building[p] # Nothing
  BY <1>1 DEF IInv, TypeOK
<1>3. path \in Path /\ path \in Paths(building[p])
  <2> HIDE DEF path
  <2> QED
    BY <1>1, <1>2 DEF IInv, TypeOK, BuildingIsRolling
<1>4. UNCHANGED <<environment, latest, promised, counters>>
  BY DEF CopyPayload
<1>5. CASE ~ (Valid(store[path]) \/ Valid(store[SourcePath(path)]))
  <2>1. End(p) /\ UNCHANGED store
    BY <1>5 DEF CopyPayload
  <2> QED
    BY <1>4, <2>1, RestUnchanged, EndStep
<1>6. CASE Valid(store[path]) \/ Valid(store[SourcePath(path)])
  <2>1. /\ store' = IF Valid(store[path]) THEN store
                    ELSE [store EXCEPT ![path] = store[SourcePath(path)]]
        /\ todo' = [todo EXCEPT ![p] = @ \ {path}]
        /\ UNCHANGED <<pc, seen, building, found>>
    BY <1>6 DEF CopyPayload
  <2> HIDE DEF path
  <2>2. store' \in [Path -> Bytes] /\ store'[path] = "described"
        /\ \A other \in Path : store[other] = "described" => store'[other] = "described"
    BY <1>3, <1>6, <2>1 DEF IInv, TypeOK, Valid, Bytes
  <2>3. UNCHANGED <<now, config, sources, latest, promised, deploys, rewrites, crashes>>
    BY <1>4 DEF environment, counters
  <2>4. TypeOK'
    BY <2>1, <2>2, <2>3 DEF IInv, TypeOK
  <2>5. SeenIsPublished' /\ BuildingIsRolling' /\ TodoWhileCopying' /\ FoundIsNotNewer'
    BY <1>1, <2>1, <2>3
       DEF IInv, TypeOK, SeenIsPublished, Published, BuildingIsRolling, TodoWhileCopying, FoundIsNotNewer
  <2>6. CopiedSoFar'
    <3> SUFFICES ASSUME NEW q \in Publishers, pc[q] = "copying",
                        NEW other \in Paths(building[q]), other \notin todo'[q]
                 PROVE  store'[other] = "described"
      BY <2>1 DEF CopiedSoFar
    <3>1. other \in Path
      <4>1. building[q] \in Manifest /\ building[q].root = Rolling
        BY DEF IInv, TypeOK, BuildingIsRolling
      <4> QED
        BY <4>1, RollingPaths
    <3>2. CASE other = path
      BY <2>2, <3>2
    <3>3. CASE other # path
      <4>1. other \notin todo[q]
        BY <2>1, <3>3 DEF IInv, TypeOK
      <4> QED
        BY <2>2, <3>1, <4>1 DEF IInv, CopiedSoFar
    <3> QED
      BY <3>2, <3>3
  <2>7. PromisesAreRolling' /\ PromisesAreKept'
    BY <2>2, <2>3 DEF IInv, TypeOK, PromisesAreRolling, PromisesAreKept
  <2> QED
    BY <2>4, <2>5, <2>6, <2>7 DEF IInv
<1> QED
  BY <1>5, <1>6

LEMMA WriteLatestStep ==
    ASSUME IInv, NEW p \in Publishers, WriteLatest(p)
    PROVE  IInv'
<1>1. building[p] \in Manifest /\ building[p] # Nothing
  BY DEF WriteLatest, IInv, TypeOK
<1>2. Paths(building[p]) \subseteq Path /\ \A path \in Paths(building[p]) : path.root = Rolling
  BY <1>1, RollingPaths DEF IInv, BuildingIsRolling
<1>3. \A path \in Paths(building[p]) : store[path] = "described"
  BY DEF WriteLatest, IInv, CopiedSoFar
<1>4. UNCHANGED <<now, config, sources, store, deploys, rewrites, crashes>>
      /\ latest' = building[p] /\ promised' = promised \cup Paths(building[p])
      /\ End(p)
  BY DEF WriteLatest, environment, counters
<1>5. TypeOK'
  BY <1>1, <1>2, <1>4 DEF IInv, TypeOK, End, Phases, Bytes
<1>6. SeenIsPublished' /\ BuildingIsRolling' /\ CopiedSoFar'
  BY <1>4 DEF IInv, TypeOK, SeenIsPublished, BuildingIsRolling, CopiedSoFar, End, Published, Paths
<1>7. FoundIsNotNewer' /\ TodoWhileCopying'
  BY <1>4 DEF IInv, TypeOK, FoundIsNotNewer, TodoWhileCopying, End, Newest
<1>8. PromisesAreRolling' /\ PromisesAreKept'
  BY <1>2, <1>3, <1>4 DEF IInv, PromisesAreRolling, PromisesAreKept
<1> QED
  BY <1>5, <1>6, <1>7, <1>8 DEF IInv

LEMMA CrashStep ==
    ASSUME IInv, NEW p \in Publishers, Crash(p)
    PROVE  IInv'
<1>1. End(p) /\ UNCHANGED <<now, config, sources, store, latest, promised, deploys, rewrites>>
      /\ crashes' = crashes + 1 /\ crashes < MaxCrashes
  BY DEF Crash, environment
<1>2. now' \in Frames /\ config' \in Configs /\ latest' \in Manifest \cup {Nothing}
      /\ deploys' \in 0..MaxDeploys /\ rewrites' \in 0..MaxRewrites
      /\ crashes' \in 0..MaxCrashes
  BY <1>1 DEF IInv, TypeOK
<1> QED
  BY <1>1, <1>2, EndStep

\* What the environment may do: the store changes under the roots of runs only.
LEMMA EnvironmentStep ==
    ASSUME IInv, Environment
    PROVE  IInv'
<1>1. UNCHANGED <<latest, promised, pc, seen, building, todo, found, crashes>>
  BY DEF Environment, Tick, Deploy, PublishRun, RewritePayload, locals, environment, counters
<1>2. /\ now' \in Frames /\ config' \in Configs
      /\ deploys' \in 0..MaxDeploys /\ rewrites' \in 0..MaxRewrites
  <2>1. CASE Tick
    BY <2>1 DEF IInv, TypeOK, Tick, Frames, counters
  <2>2. CASE Deploy
    BY <2>2 DEF IInv, TypeOK, Deploy
  <2>3. ASSUME NEW f \in Frames, PublishRun(f) 
        PROVE
               /\ now' \in Frames /\ config' \in Configs
               /\ deploys' \in 0..MaxDeploys /\ rewrites' \in 0..MaxRewrites
    BY <2>3 DEF IInv, TypeOK, PublishRun, counters
  <2>4. ASSUME NEW f \in Frames, RewritePayload(f) 
        PROVE
               /\ now' \in Frames /\ config' \in Configs
               /\ deploys' \in 0..MaxDeploys /\ rewrites' \in 0..MaxRewrites
    BY <2>4 DEF IInv, TypeOK, RewritePayload, environment
  <2> QED
    BY <2>1, <2>2, <2>3, <2>4 DEF Environment
<1>3. sources' \in [Frames -> Configs \cup {Nothing}] /\ Published \subseteq Published'
  <2>1. CASE UNCHANGED sources
    BY <2>1 DEF IInv, TypeOK, Published
  <2>2. ASSUME NEW f \in Frames, PublishRun(f) 
        PROVE
               sources' \in [Frames -> Configs \cup {Nothing}] /\ Published \subseteq Published'
    BY <2>2 DEF IInv, TypeOK, PublishRun, Published
  <2>3. UNCHANGED sources \/ \E f \in Frames : PublishRun(f)
    BY DEF Environment, Tick, Deploy, RewritePayload, environment
  <2> QED
    BY <2>1, <2>2, <2>3
<1>4. store' \in [Path -> Bytes]
      /\ \A path \in Path : path.root = Rolling => store'[path] = store[path]
  <2>1. CASE UNCHANGED store
    BY <2>1 DEF IInv, TypeOK
  <2>2. ASSUME NEW f \in Frames, PublishRun(f) 
        PROVE
               /\ store' \in [Path -> Bytes]
               /\ \A path \in Path : path.root = Rolling => store'[path] = store[path]
    <3>1. f # Rolling
      BY DEF Frames, Rolling
    <3>2. store' = [path \in Path |->
                      IF path.root = f /\ path.artifact \in ArtifactsOf[config]
                      THEN "described" ELSE store[path]]
      BY <2>2 DEF PublishRun
    <3> QED
      BY <3>1, <3>2 DEF IInv, TypeOK, Bytes
  <2>3. ASSUME NEW f \in Frames, RewritePayload(f) 
        PROVE
               /\ store' \in [Path -> Bytes]
               /\ \A path \in Path : path.root = Rolling => store'[path] = store[path]
    <3>1. f # Rolling
      BY DEF Frames, Rolling
    <3>2. PICK a \in ArtifactsOf[sources[f]] :
            store' = [store EXCEPT ![[root |-> f, frame |-> f, artifact |-> a]] = "other"]
      BY <2>3 DEF RewritePayload
    <3> DEFINE changed == [root |-> f, frame |-> f, artifact |-> a]
    <3>3. changed.root = f
      OBVIOUS
    <3>4. store' = [store EXCEPT ![changed] = "other"]
      BY <3>2
    <3> HIDE DEF changed
    <3>5. \A path \in Path : path.root = Rolling => path # changed
      BY <3>1, <3>3
    <3> QED
      BY <3>4, <3>5 DEF IInv, TypeOK, Bytes
  <2> QED
    BY <2>1, <2>2, <2>3 DEF Environment, Tick, Deploy
<1>5. TypeOK'
  BY <1>1, <1>2, <1>3, <1>4 DEF IInv, TypeOK
<1>6. SeenIsPublished'
  BY <1>1, <1>3 DEF IInv, SeenIsPublished
<1>7. BuildingIsRolling' /\ FoundIsNotNewer' /\ TodoWhileCopying' /\ PromisesAreRolling'
  BY <1>1 DEF IInv, BuildingIsRolling, FoundIsNotNewer, TodoWhileCopying, PromisesAreRolling,
     Paths, Newest
<1>8. CopiedSoFar'
  <2> SUFFICES ASSUME NEW q \in Publishers, pc[q] = "copying",
                      NEW path \in Paths(building[q]), path \notin todo[q]
               PROVE  store'[path] = "described"
    BY <1>1 DEF CopiedSoFar
  <2>1. building[q] \in Manifest /\ building[q].root = Rolling
    BY DEF IInv, TypeOK, BuildingIsRolling
  <2>2. path \in Path /\ path.root = Rolling
    BY <2>1, RollingPaths
  <2> QED
    BY <1>4, <2>2 DEF IInv, CopiedSoFar
<1>9. PromisesAreKept'
  BY <1>1, <1>4 DEF IInv, TypeOK, PromisesAreKept, PromisesAreRolling
<1> QED
  BY <1>5, <1>6, <1>7, <1>8, <1>9 DEF IInv

LEMMA StutterStep ==
    ASSUME IInv, UNCHANGED vars
    PROVE  IInv'
  BY DEF vars, environment, locals, counters, IInv, TypeOK, SeenIsPublished, Published,
     BuildingIsRolling, CopiedSoFar, FoundIsNotNewer, TodoWhileCopying, PromisesAreRolling,
     PromisesAreKept, Paths, Newest

LEMMA NextIInv == IInv /\ [Next]_vars => IInv'
<1> SUFFICES ASSUME IInv, [Next]_vars PROVE IInv'
  OBVIOUS
<1>1. CASE UNCHANGED vars
  BY <1>1, StutterStep
<1>2. CASE Environment
  BY <1>2, EnvironmentStep
<1>3. ASSUME NEW p \in Publishers, Publish(p) PROVE IInv'
  BY <1>3, BeginStep, ReadSourcesStep, ReadLatestStep, CopyPayloadStep, WriteLatestStep
     DEF Publish
<1>4. ASSUME NEW p \in Publishers, Crash(p) PROVE IInv'
  BY <1>4, CrashStep
<1> QED
  BY <1>1, <1>2, <1>3, <1>4 DEF Next

-----------------------------------------------------------------------------
\* The theorems.

LEMMA Invariance == Spec => []IInv
  BY InitIInv, NextIInv, PTL DEF Spec

\* Type correctness of the rolling publisher: whatever passes overlap, a pass that is
\* building holds a manifest with a frame, and one that is not holds none.
THEOREM RollingTypes == Spec => []TypeOK
<1>1. IInv => TypeOK
  BY DEF IInv
<1> QED
  BY <1>1, Invariance, PTL

\* Whoever holds a rolling manifest that was ever the latest one finds all its payloads,
\* as it describes them (publish_rolling_observed_latest, materialize_rolling_payload).
THEOREM RollingPromisesAreKept == Spec => []PromisesAreKept
<1>1. IInv => PromisesAreKept
  BY DEF IInv
<1> QED
  BY <1>1, Invariance, PTL

\* A step that takes latest back to an older frame is the write of a publisher that has
\* missed the write of another one.
LEMMA RegressionStep ==
    ASSUME IInv, [Next]_vars, latest # Nothing, latest' # latest,
           Newest(latest') < Newest(latest)
    PROVE  \E p \in Publishers : building[p] = latest' /\ found[p] # latest
<1>1. PICK p \in Publishers : WriteLatest(p)
  BY DEF Next, Publish, Begin, ReadSources, ReadLatest, CopyPayload, Crash, Environment, Tick,
     Deploy, PublishRun, RewritePayload, environment, vars
<1>2. pc[p] = "copying" /\ latest' = building[p] /\ building[p] # Nothing
  BY <1>1 DEF WriteLatest, IInv, TypeOK
<1>3. ASSUME found[p] = latest PROVE FALSE
  <2>1. ~ (Newest(latest) > Newest(building[p]))
    BY <1>2, <1>3 DEF IInv, FoundIsNotNewer
  <2>2. latest \in Manifest /\ building[p] \in Manifest
    BY <1>2 DEF IInv, TypeOK
  <2>3. Newest(latest) \in Nat /\ Newest(building[p]) \in Nat
    BY <2>2, NewestIsFrame DEF Frames
  <2> QED
    BY <1>2, <2>1, <2>3
<1> QED
  BY <1>2, <1>3

\* Latest goes back only by a lost update (rolling_observed.py:97-125).
THEOREM RollingRegressionsAreLostUpdates == Spec => RegressesByLostUpdate
<1>1. IInv /\ [Next]_vars =>
        [latest # Nothing /\ latest' # latest /\ Newest(latest') < Newest(latest)
            => \E p \in Publishers : building[p] = latest' /\ found[p] # latest]_vars
  BY RegressionStep
<1>2. Spec => [][latest # Nothing /\ latest' # latest /\ Newest(latest') < Newest(latest)
            => \E p \in Publishers : building[p] = latest' /\ found[p] # latest]_vars
  BY <1>1, Invariance, PTL DEF Spec
<1> QED
  BY <1>2 DEF RegressesByLostUpdate
=============================================================================
