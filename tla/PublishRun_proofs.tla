-------------------------- MODULE PublishRun_proofs --------------------------
(***************************************************************************)
(* Type correctness of PublishRun, the safety of what it publishes, the     *)
(* finality of a published run and the refinement of WriteOnce, for any     *)
(* number of publishers, markers, payloads, grids, writes and crashes.      *)
(***************************************************************************)
EXTENDS PublishRun, TLAPS

\* Every manifest, stored or held by a publisher, was built by some publisher ...
ManifestsBuilt ==
    /\ run_manifest \in built \cup {NoManifest}
    /\ public_manifest \in built \cup {NoManifest}
    /\ \A p \in Publishers : manifest[p] \in built \cup {NoManifest}

\* ... and a build compares the grids.
BuiltConsistent == \A m \in built : Consistent(m.content)

\* The markers that a publisher reads exist: they are never removed.
ReadsPresent == \A p \in Publishers : pc[p] = "read" => Present(markers)

\* A publisher holds a manifest exactly from the build on, and starts without a goal.
Starting == AtRest \cup {"report", "write_report", "gate"}
Committing == {"write_run", "check_public", "write_public", "write_publication"}
HoldsManifest ==
    \A p \in Publishers :
        /\ pc[p] \in Starting \cup {"list", "read"} => manifest[p] = NoManifest
        /\ pc[p] \in Starting => goal[p] = "validate"
        /\ pc[p] \in {"list", "read"} => goal[p] # "verify"
        /\ pc[p] \in Committing => manifest[p] # NoManifest

\* The documents before the current one are in place.
EarlierExist ==
    \A p \in Publishers :
        /\ pc[p] \in Committing \ {"write_run"} => run_manifest # NoManifest
        /\ pc[p] = "write_publication" => public_manifest # NoManifest

\* Two manifests have met where there is a conflict.
ConflictOfTwo ==
    \A p \in Publishers : pc[p] = "conflict" => \E a, b \in built : a # b

Locals == ReadsPresent /\ HoldsManifest /\ EarlierExist /\ ConflictOfTwo
IInv == TypeOK /\ ManifestsBuilt /\ BuiltConsistent /\ PublicationIsLast /\ Locals

-----------------------------------------------------------------------------
LEMMA InitIInv == Init => IInv
  BY SizeAssumption, BoundsAssumption
     DEF Init, IInv, TypeOK, StoreOK, LocalsOK, WorldOK, ManifestsBuilt, BuiltConsistent,
         PublicationIsLast, Locals, ReadsPresent, HoldsManifest, EarlierExist, ConflictOfTwo,
         NothingTaken, Phases, AtRest, Modes, Goals, Starting, Committing, Markers

\* The end of a publisher, whether it wrote something or not.
LEMMA EndIInv ==
  ASSUME IInv, NEW p \in Publishers, NEW phase \in AtRest, End(p, phase),
         phase = "conflict" => \E a, b \in built : a # b,
         report' \in {"none", "failed", "passed"},
         public_manifest' \in {public_manifest, manifest[p]}, public_manifest # NoManifest => public_manifest' # NoManifest,
         publication' \in MarkerSet \cup {NoRevision},
         publication' # NoRevision => run_manifest # NoManifest /\ public_manifest' # NoManifest,
         crashes' \in 0..MaxCrashes,
         UNCHANGED <<markers, run_manifest, built, clock, writes>>
  PROVE  IInv'
<1>1. StoreOK' /\ WorldOK' /\ ManifestsBuilt' /\ BuiltConsistent' /\ PublicationIsLast'
  BY DEF IInv, TypeOK, StoreOK, LocalsOK, WorldOK, ManifestsBuilt, BuiltConsistent,
         PublicationIsLast, End
<1>2. LocalsOK'
  BY BoundsAssumption DEF IInv, TypeOK, LocalsOK, End, Goto, Modes, Goals, Phases, AtRest, NothingTaken
<1>3. ReadsPresent' /\ ConflictOfTwo'
  BY DEF IInv, TypeOK, LocalsOK, Locals, ReadsPresent, ConflictOfTwo, Present, End, Goto, AtRest
<1>4. HoldsManifest' /\ EarlierExist'
  BY DEF IInv, TypeOK, LocalsOK, Locals, HoldsManifest, EarlierExist, End, Goto, AtRest, Starting,
         Committing
<1> QED
  BY <1>1, <1>2, <1>3, <1>4 DEF IInv, TypeOK, Locals

\* A step that changes the local state of one publisher only.
LEMMA LocalIInv ==
  ASSUME IInv, NEW p \in Publishers, NEW phase \in Phases, Goto(p, phase), LocalsOK',
         UNCHANGED <<markers, store, built, world>>,
         \A q \in Publishers \ {p} : manifest'[q] = manifest[q] /\ goal'[q] = goal[q],
         manifest'[p] \in built \cup {NoManifest},
         phase = "read" => Present(markers),
         phase \in Starting \cup {"list", "read"} => manifest'[p] = NoManifest,
         phase \in Starting => goal'[p] = "validate",
         phase \in {"list", "read"} => goal'[p] # "verify",
         phase \in Committing => manifest'[p] # NoManifest,
         phase \in Committing \ {"write_run"} => run_manifest # NoManifest,
         phase = "write_publication" => public_manifest # NoManifest,
         phase # "conflict"
  PROVE  IInv'
<1>1. StoreOK' /\ WorldOK' /\ BuiltConsistent' /\ PublicationIsLast'
  BY DEF IInv, TypeOK, StoreOK, WorldOK, BuiltConsistent, PublicationIsLast, store, world
<1>2. ManifestsBuilt'
  BY DEF IInv, TypeOK, LocalsOK, ManifestsBuilt, store
<1>3. ReadsPresent' /\ ConflictOfTwo'
  BY DEF IInv, TypeOK, LocalsOK, Locals, ReadsPresent, ConflictOfTwo, Present, Goto
<1>4. HoldsManifest' /\ EarlierExist'
  BY DEF IInv, TypeOK, LocalsOK, Locals, HoldsManifest, EarlierExist, Goto, store
<1> QED
  BY <1>1, <1>2, <1>3, <1>4 DEF IInv, TypeOK, Locals

-----------------------------------------------------------------------------
\* Each action preserves the invariant.

LEMMA BeginIInv ==
  ASSUME IInv, NEW p \in Publishers, NEW m \in Modes, NEW phase \in {"report", "gate", "list"},
         Begin(p, m, phase)
  PROVE  IInv'
<1>1. LocalsOK'
  BY DEF IInv, TypeOK, LocalsOK, Begin, Goto, Phases
<1>2. manifest[p] = NoManifest /\ goal[p] = "validate"
  BY DEF IInv, Locals, HoldsManifest, Begin, Starting
<1> QED
  BY <1>1, <1>2, LocalIInv DEF Begin, Phases, Committing, IInv, ManifestsBuilt

LEMMA CollectIInv ==
  ASSUME IInv, NEW p \in Publishers, NEW g \in {"validate", "publish"}, Collect(p, g), manifest[p] = NoManifest,
         UNCHANGED <<markers, store, built, world>>
  PROVE  IInv'
<1>1. LocalsOK'
  BY DEF IInv, TypeOK, LocalsOK, Collect, Goto, Phases, Goals
<1>2. /\ \A q \in Publishers \ {p} : manifest'[q] = manifest[q] /\ goal'[q] = goal[q]
      /\ goal'[p] = g
  BY DEF IInv, TypeOK, LocalsOK, Collect
<1> QED
  BY <1>1, <1>2, LocalIInv
     DEF Collect, Phases, AtRest, Starting, Committing, IInv, ManifestsBuilt

\* The publisher goes on to another phase, and nothing else changes.
LEMMA GotoIInv ==
  ASSUME IInv, NEW p \in Publishers, NEW phase \in Phases, Goto(p, phase), UNCHANGED locals,
         UNCHANGED <<markers, store, built, world>>,
         phase = "read" => Present(markers),
         phase \in Starting \cup {"list", "read"} => manifest[p] = NoManifest,
         phase \in Starting => goal[p] = "validate",
         phase \in {"list", "read"} => goal[p] # "verify",
         phase \in Committing => manifest[p] # NoManifest,
         phase \in Committing \ {"write_run"} => run_manifest # NoManifest,
         phase = "write_publication" => public_manifest # NoManifest,
         phase # "conflict"
  PROVE  IInv'
<1>1. LocalsOK'
  BY DEF IInv, TypeOK, LocalsOK, locals, Goto
<1>2. \A q \in Publishers : manifest'[q] = manifest[q] /\ goal'[q] = goal[q]
  BY DEF locals
<1>3. manifest[p] \in built \cup {NoManifest}
  BY DEF IInv, ManifestsBuilt
<1> QED
  BY <1>1, <1>2, <1>3, LocalIInv

LEMMA ReadReportIInv ==
  ASSUME IInv, NEW p \in Publishers, ReadReport(p)
  PROVE  IInv'
<1>1. manifest[p] = NoManifest /\ goal[p] = "validate"
  BY DEF IInv, Locals, HoldsManifest, ReadReport, Starting
<1>2. CASE report = "passed"
  BY <1>1, <1>2, GotoIInv DEF ReadReport, Phases, Committing
<1>3. CASE report # "passed"
  BY <1>1, <1>3, CollectIInv DEF ReadReport
<1> QED
  BY <1>2, <1>3

\* A publisher that ends without having written anything.
LEMMA StopIInv ==
  ASSUME IInv, NEW p \in Publishers, End(p, "idle"), UNCHANGED <<markers, store, built, world>>
  PROVE  IInv'
<1>1. /\ report \in {"none", "failed", "passed"}
      /\ publication \in MarkerSet \cup {NoRevision}
      /\ crashes \in 0..MaxCrashes
      /\ PublicationIsLast
  BY DEF IInv, TypeOK, StoreOK, WorldOK
<1> QED
  BY <1>1, EndIInv DEF AtRest, store, world, PublicationIsLast

LEMMA ListMarkersIInv ==
  ASSUME IInv, NEW p \in Publishers, ListMarkers(p)
  PROVE  IInv'
<1>1. manifest[p] = NoManifest /\ goal[p] # "verify"
  BY DEF IInv, Locals, HoldsManifest, ListMarkers
<1>2. CASE Present(markers) /\ Goto(p, "read") /\ UNCHANGED locals
  BY <1>1, <1>2, GotoIInv DEF ListMarkers, Phases, AtRest, Starting, Committing
<1>3. CASE ~Present(markers) /\ goal[p] = "validate" /\ Goto(p, "write_report") /\ UNCHANGED locals
  BY <1>1, <1>3, GotoIInv DEF ListMarkers, Phases, Committing
<1>4. CASE ~Present(markers) /\ goal[p] = "publish" /\ End(p, "idle")
  BY <1>4, StopIInv DEF ListMarkers
<1> QED
  BY <1>2, <1>3, <1>4 DEF ListMarkers

LEMMA BuildIInv ==
  ASSUME IInv, NEW p \in Publishers, NEW ms \in MarkerSet, pc[p] = "read", goal[p] = "publish",
         Build(p, ms), UNCHANGED <<markers, store, world>>
  PROVE  IInv'
<1>1. CASE Consistent(ms)
  <2> DEFINE m == [content |-> ms, generated_at |-> now[p]]
  <2>1. m \in Manifest /\ m.content = ms
    BY DEF IInv, TypeOK, LocalsOK, Manifest
  <2>2. /\ pc' = [pc EXCEPT ![p] = "publication"]
        /\ manifest' = [manifest EXCEPT ![p] = m]
        /\ taken' = [taken EXCEPT ![p] = NothingTaken]
        /\ seen' = [seen EXCEPT ![p] = NoRevision]
        /\ built' = built \cup {m}
        /\ UNCHANGED <<mode, goal, now>>
    BY <1>1 DEF Build, Goto
  <2> HIDE DEF m
  <2>3. TypeOK'
    BY <2>1, <2>2 DEF IInv, TypeOK, StoreOK, LocalsOK, WorldOK, store, world, Phases, NothingTaken
  <2>4. ManifestsBuilt' /\ PublicationIsLast'
    BY <2>2 DEF IInv, TypeOK, LocalsOK, ManifestsBuilt, PublicationIsLast, store
  <2>5. BuiltConsistent'
    BY <1>1, <2>1, <2>2 DEF IInv, BuiltConsistent, Consistent
  <2>6. Locals'
    BY <2>2 DEF IInv, TypeOK, LocalsOK, Locals, ReadsPresent, Present, HoldsManifest, EarlierExist,
               ConflictOfTwo, store, Starting, Committing, AtRest
  <2> QED
    BY <2>3, <2>4, <2>5, <2>6 DEF IInv
<1>2. CASE ~Consistent(ms)
  BY <1>2, StopIInv DEF Build
<1> QED
  BY <1>1, <1>2

LEMMA ReadMarkerIInv ==
  ASSUME IInv, NEW p \in Publishers, NEW m \in Markers, ReadMarker(p, m)
  PROVE  IInv'
<1> DEFINE ms == [taken[p] EXCEPT ![m] = markers[m]]
<1>1. Present(markers) /\ manifest[p] = NoManifest
  BY DEF IInv, Locals, ReadsPresent, HoldsManifest, ReadMarker
<1>2. ms \in [Markers -> Marker \cup {NoMarker}]
  BY DEF IInv, TypeOK, StoreOK, LocalsOK
<1>3. CASE m = NumMarkers /\ goal[p] = "publish"
  <2>1. \A n \in Markers : ms[n] # NoMarker
    BY <1>1, <1>3, SizeAssumption
       DEF ReadMarker, Present, Markers, IInv, TypeOK, LocalsOK, StoreOK
  <2>2. ms \in MarkerSet
    BY <1>2, <2>1 DEF MarkerSet
  <2> QED
    BY <1>3, <2>2, BuildIInv DEF ReadMarker
<1>4. CASE ~(m = NumMarkers /\ goal[p] = "publish")
  <2> DEFINE phase == IF m = NumMarkers THEN "write_report" ELSE "read"
  <2>1. /\ Goto(p, phase)
        /\ taken' = [taken EXCEPT ![p] = ms]
        /\ UNCHANGED <<mode, goal, seen, now, manifest, built>>
        /\ UNCHANGED <<markers, store, world>>
    BY <1>4 DEF ReadMarker
  <2>2. goal[p] \in {"publish", "validate"}
    BY DEF IInv, TypeOK, LocalsOK, Goals, Locals, HoldsManifest, ReadMarker
  <2>3. LocalsOK'
    BY <1>2, <2>1 DEF IInv, TypeOK, LocalsOK, Goto, Phases
  <2> QED
    BY <1>1, <1>4, <2>1, <2>2, <2>3, LocalIInv
       DEF Phases, AtRest, Starting, Committing, IInv, ManifestsBuilt
<1> QED
  BY <1>3, <1>4

LEMMA WriteReportIInv ==
  ASSUME IInv, NEW p \in Publishers, WriteReport(p)
  PROVE  IInv'
<1>1. report' \in {"none", "failed", "passed"}
  BY DEF WriteReport
<1>2. manifest[p] = NoManifest /\ goal[p] = "validate"
  BY DEF IInv, Locals, HoldsManifest, WriteReport, Starting
<1>3. CASE End(p, "idle")
  BY <1>1, <1>3, EndIInv DEF WriteReport, AtRest, world, IInv, TypeOK, StoreOK, WorldOK, PublicationIsLast
<1>4. CASE Goto(p, "gate") /\ taken' = [taken EXCEPT ![p] = NothingTaken]
           /\ UNCHANGED <<mode, goal, seen, now, manifest>>
  <2>1. TypeOK'
    BY <1>1, <1>4
       DEF WriteReport, Goto, IInv, TypeOK, StoreOK, LocalsOK, WorldOK, world, Phases, NothingTaken
  <2>2. ManifestsBuilt' /\ BuiltConsistent' /\ PublicationIsLast'
    BY <1>4 DEF WriteReport, IInv, ManifestsBuilt, BuiltConsistent, PublicationIsLast
  <2>3. Locals'
    BY <1>2, <1>4 DEF WriteReport, Goto, IInv, TypeOK, LocalsOK, Locals, ReadsPresent, Present,
                      HoldsManifest, EarlierExist, ConflictOfTwo, Starting, Committing, AtRest
  <2> QED
    BY <2>1, <2>2, <2>3 DEF IInv
<1> QED
  BY <1>3, <1>4 DEF WriteReport

LEMMA GateIInv ==
  ASSUME IInv, NEW p \in Publishers, Gate(p)
  PROVE  IInv'
<1>1. manifest[p] = NoManifest
  BY DEF IInv, Locals, HoldsManifest, Gate, Starting
<1>2. CASE report = "passed"
  <2>1. LocalsOK'
    BY <1>2 DEF Gate, Goto, IInv, TypeOK, LocalsOK, WorldOK, Phases
  <2> QED
    BY <1>1, <1>2, <2>1, LocalIInv DEF Gate, Phases, AtRest, Starting, Committing
<1>3. CASE report # "passed"
  BY <1>3, StopIInv DEF Gate
<1> QED
  BY <1>2, <1>3

LEMMA NotPublishedIInv ==
  ASSUME IInv, NEW p \in Publishers, NotPublished(p), UNCHANGED <<markers, store, built, world>>
  PROVE  IInv'
<1>1. CASE manifest[p] = NoManifest
  BY <1>1, CollectIInv DEF NotPublished
<1>2. CASE manifest[p] # NoManifest
  BY <1>2, GotoIInv DEF NotPublished, Phases, AtRest, Starting, Committing
<1> QED
  BY <1>1, <1>2

LEMMA ReadPublicationIInv ==
  ASSUME IInv, NEW p \in Publishers, ReadPublication(p)
  PROVE  IInv'
<1>1. CASE publication = NoRevision
  BY <1>1, NotPublishedIInv DEF ReadPublication
<1>2. CASE publication # NoRevision
  <2>1. LocalsOK'
    BY <1>2 DEF ReadPublication, Goto, IInv, TypeOK, StoreOK, LocalsOK, Phases
  <2> QED
    BY <1>2, <2>1, LocalIInv
       DEF ReadPublication, Phases, AtRest, Starting, Committing, IInv, ManifestsBuilt
<1> QED
  BY <1>1, <1>2

LEMMA ReadRunManifestIInv ==
  ASSUME IInv, NEW p \in Publishers, ReadRunManifest(p)
  PROVE  IInv'
<1>1. CASE Usable(p)
  <2>1. run_manifest # NoManifest /\ run_manifest \in built \cup {NoManifest}
    BY <1>1 DEF Usable, IInv, ManifestsBuilt
  <2>2. LocalsOK'
    BY <1>1 DEF ReadRunManifest, Goto, IInv, TypeOK, StoreOK, LocalsOK, Phases, Goals
  <2>3. \A q \in Publishers \ {p} : manifest'[q] = manifest[q] /\ goal'[q] = goal[q]
    BY <1>1 DEF ReadRunManifest, IInv, TypeOK, LocalsOK
  <2>4. manifest'[p] = run_manifest
    BY <1>1 DEF ReadRunManifest, IInv, TypeOK, LocalsOK
  <2> QED
    BY <1>1, <2>1, <2>2, <2>3, <2>4, LocalIInv
       DEF ReadRunManifest, Phases, AtRest, Starting, Committing
<1>2. CASE ~Usable(p)
  BY <1>2, NotPublishedIInv DEF ReadRunManifest
<1> QED
  BY <1>1, <1>2

LEMMA WriteRunManifestIInv ==
  ASSUME IInv, NEW p \in Publishers, WriteRunManifest(p)
  PROVE  IInv'
<1>1. manifest[p] # NoManifest /\ manifest[p] \in built /\ built \subseteq Manifest
  BY DEF IInv, TypeOK, WorldOK, ManifestsBuilt, Locals, HoldsManifest, WriteRunManifest, Committing
<1>2. TypeOK'
  BY <1>1 DEF WriteRunManifest, Goto, locals, world, IInv, TypeOK, StoreOK, LocalsOK, WorldOK, Phases
<1>3. ManifestsBuilt' /\ BuiltConsistent' /\ PublicationIsLast'
  BY <1>1 DEF WriteRunManifest, locals, IInv, ManifestsBuilt, BuiltConsistent, PublicationIsLast
<1>4. Locals'
  BY <1>1, NothingAssumption
     DEF WriteRunManifest, Goto, locals, IInv, TypeOK, LocalsOK, Locals, ReadsPresent, Present,
         HoldsManifest, EarlierExist, ConflictOfTwo, Starting, Committing, AtRest
<1> QED
  BY <1>2, <1>3, <1>4 DEF IInv

LEMMA CheckPublicManifestIInv ==
  ASSUME IInv, NEW p \in Publishers, CheckPublicManifest(p)
  PROVE  IInv'
<1>1. manifest[p] # NoManifest /\ manifest[p] \in built /\ run_manifest # NoManifest
  BY DEF IInv, ManifestsBuilt, Locals, HoldsManifest, EarlierExist, CheckPublicManifest, Committing
<1>2. CASE public_manifest = NoManifest /\ Goto(p, "write_public") /\ UNCHANGED locals
  BY <1>1, <1>2, GotoIInv DEF CheckPublicManifest, Phases, AtRest, Starting
<1>3. CASE public_manifest = manifest[p] /\ AfterPublic(p)
  <2>1. CASE goal[p] = "verify"
    BY <1>3, <2>1, StopIInv DEF CheckPublicManifest, AfterPublic
  <2>2. CASE goal[p] # "verify"
    BY <1>1, <1>3, <2>2, GotoIInv DEF CheckPublicManifest, AfterPublic, Phases, AtRest, Starting
  <2> QED
    BY <2>1, <2>2
<1>4. CASE public_manifest \notin {NoManifest, manifest[p]} /\ End(p, "conflict")
  <2>1. \E a, b \in built : a # b
    BY <1>1, <1>4 DEF IInv, ManifestsBuilt
  <2> QED
    BY <1>4, <2>1, EndIInv
       DEF CheckPublicManifest, AtRest, store, world, IInv, TypeOK, StoreOK, WorldOK, PublicationIsLast
<1> QED
  BY <1>2, <1>3, <1>4 DEF CheckPublicManifest

LEMMA WritePublicManifestIInv ==
  ASSUME IInv, NEW p \in Publishers, WritePublicManifest(p)
  PROVE  IInv'
<1>1. /\ manifest[p] # NoManifest /\ manifest[p] \in built /\ built \subseteq Manifest
      /\ run_manifest # NoManifest
  BY DEF IInv, TypeOK, WorldOK, ManifestsBuilt, Locals, HoldsManifest, EarlierExist,
         WritePublicManifest, Committing
<1>2. CASE goal[p] = "verify"
  BY <1>1, <1>2, EndIInv
     DEF WritePublicManifest, AfterPublic, AtRest, world, IInv, TypeOK, StoreOK, WorldOK,
         PublicationIsLast
<1>3. CASE goal[p] # "verify"
  <2>1. pc' = [pc EXCEPT ![p] = "write_publication"] /\ UNCHANGED locals
    BY <1>3 DEF WritePublicManifest, AfterPublic, Goto
  <2>2. TypeOK'
    BY <1>1, <2>1 DEF WritePublicManifest, locals, world, IInv, TypeOK, StoreOK, LocalsOK,
                      WorldOK, Phases
  <2>3. ManifestsBuilt' /\ BuiltConsistent' /\ PublicationIsLast'
    BY <1>1, <2>1 DEF WritePublicManifest, locals, IInv, ManifestsBuilt, BuiltConsistent,
                      PublicationIsLast
  <2>4. Locals'
    BY <1>1, <2>1
       DEF WritePublicManifest, locals, IInv, TypeOK, LocalsOK, Locals, ReadsPresent, Present,
           HoldsManifest, EarlierExist, ConflictOfTwo, Starting, Committing, AtRest
  <2> QED
    BY <2>2, <2>3, <2>4 DEF IInv
<1> QED
  BY <1>2, <1>3

LEMMA WritePublicationIInv ==
  ASSUME IInv, NEW p \in Publishers, WritePublication(p)
  PROVE  IInv'
<1>1. /\ manifest[p] # NoManifest /\ manifest[p] \in Manifest
      /\ run_manifest # NoManifest /\ public_manifest # NoManifest
  BY DEF IInv, TypeOK, WorldOK, ManifestsBuilt, Locals, HoldsManifest, EarlierExist,
         WritePublication, Committing
<1>2. publication' \in MarkerSet \cup {NoRevision}
  BY <1>1 DEF WritePublication, Revision, Manifest
<1> QED
  BY <1>1, <1>2, EndIInv DEF WritePublication, AtRest, world, IInv, TypeOK, StoreOK, WorldOK

LEMMA EnvironmentIInv ==
  ASSUME IInv, (\E m \in Markers : WriteMarker(m)) \/ Second
  PROVE  IInv'
<1>1. UNCHANGED <<store, pc, locals, built, crashes>>
  BY DEF WriteMarker, Second
<1>2. /\ markers' \in [Markers -> Marker \cup {NoMarker}]
      /\ Present(markers) => Present(markers')
  BY NothingAssumption DEF IInv, TypeOK, StoreOK, WriteMarker, Second, Present
<1>3. clock' \in 0..MaxSeconds /\ writes' \in 0..MaxWrites
  BY BoundsAssumption DEF IInv, TypeOK, WorldOK, WriteMarker, Second
<1>4. TypeOK'
  BY <1>1, <1>2, <1>3 DEF IInv, TypeOK, StoreOK, LocalsOK, WorldOK, store, locals
<1>5. ManifestsBuilt' /\ BuiltConsistent' /\ PublicationIsLast'
  BY <1>1 DEF IInv, ManifestsBuilt, BuiltConsistent, PublicationIsLast, store, locals
<1>6. ReadsPresent'
  BY <1>1, <1>2 DEF IInv, Locals, ReadsPresent, Present
<1>7. HoldsManifest' /\ EarlierExist' /\ ConflictOfTwo'
  BY <1>1 DEF IInv, Locals, HoldsManifest, EarlierExist, ConflictOfTwo, store, locals
<1> QED
  BY <1>4, <1>5, <1>6, <1>7 DEF IInv, Locals

LEMMA CrashIInv ==
  ASSUME IInv, NEW p \in Publishers, Crash(p)
  PROVE  IInv'
<1>1. crashes' \in 0..MaxCrashes
  BY BoundsAssumption DEF IInv, TypeOK, WorldOK, Crash
<1> QED
  BY <1>1, EndIInv DEF Crash, AtRest, store, IInv, TypeOK, StoreOK, PublicationIsLast

LEMMA NextIInv == IInv /\ [Next]_vars => IInv'
<1> SUFFICES ASSUME IInv, [Next]_vars PROVE IInv'
  OBVIOUS
<1>1. ASSUME NEW p \in Publishers, BeginCandidate(p) \/ BeginPublish(p) \/ BeginValidate(p)
      PROVE  IInv'
  BY <1>1, BeginIInv DEF BeginCandidate, BeginPublish, BeginValidate, Modes
<1>2. ASSUME NEW p \in Publishers, Step(p)
      PROVE  IInv'
  BY <1>2, ReadReportIInv, ListMarkersIInv, ReadMarkerIInv, WriteReportIInv, GateIInv,
     ReadPublicationIInv, ReadRunManifestIInv, WriteRunManifestIInv, CheckPublicManifestIInv,
     WritePublicManifestIInv, WritePublicationIInv
     DEF Step
<1>3. ASSUME NEW p \in Publishers, Crash(p)
      PROVE  IInv'
  BY <1>3, CrashIInv
<1>4. CASE (\E m \in Markers : WriteMarker(m)) \/ Second
  BY <1>4, EnvironmentIInv
<1>5. CASE UNCHANGED vars
  BY <1>5 DEF vars, store, locals, world, IInv, TypeOK, StoreOK, LocalsOK, WorldOK,
         ManifestsBuilt, BuiltConsistent, PublicationIsLast, Locals, ReadsPresent, Present,
         HoldsManifest, EarlierExist, ConflictOfTwo
<1> QED
  BY <1>1, <1>2, <1>3, <1>4, <1>5 DEF Next

LEMMA SpecIInv == Spec => []IInv
  BY InitIInv, NextIInv, PTL DEF Spec

-----------------------------------------------------------------------------
\* The variables of the module always have their types.
THEOREM PublishRunTypes == Spec => []TypeOK
<1>1. IInv => TypeOK
  BY DEF IInv
<1> QED
  BY <1>1, SpecIInv, PTL

\* The publication marker is written when both manifests of the run are in place.
THEOREM PublicationCommits == Spec => []PublicationIsLast
<1>1. IInv => PublicationIsLast
  BY DEF IInv
<1> QED
  BY <1>1, SpecIInv, PTL

\* All frames of a stored manifest lie on one grid, whatever is rewritten meanwhile.
THEOREM StoredManifestsAreServable == Spec => []ManifestsServable
<1>1. IInv => ManifestsServable
  BY DEF IInv, ManifestsBuilt, BuiltConsistent, ManifestsServable
<1> QED
  BY <1>1, SpecIInv, PTL

\* A conflict needs two manifests: passes that build the same one never meet it.
THEOREM ConflictsNeedTwoManifests == Spec => []OneManifestNeverConflicts
<1>1. IInv => OneManifestNeverConflicts
  BY DEF IInv, Locals, ConflictOfTwo, OneManifestNeverConflicts, OneManifest
<1> QED
  BY <1>1, SpecIInv, PTL

-----------------------------------------------------------------------------
\* Finality.  In a final state every publisher is harmless, and stays so.

documents == <<run_manifest, public_manifest, publication>>

\* One publisher moves to a harmless place, and no document changes.
LEMMA FinalStays ==
  ASSUME IInv, Final, NEW p \in Publishers, UNCHANGED documents, Harmless(p)',
         \A q \in Publishers \ {p} : /\ pc'[q] = pc[q] /\ goal'[q] = goal[q]
                                     /\ seen'[q] = seen[q] /\ manifest'[q] = manifest[q]
  PROVE  Final'
<1>1. Published'
  BY DEF Final, Published, documents, Revision
<1>2. ASSUME NEW q \in Publishers PROVE Harmless(q)'
  BY DEF Final, Harmless, documents, AtRest
<1> QED
  BY <1>1, <1>2 DEF Final

LEMMA EndFinal ==
  ASSUME IInv, Final, NEW p \in Publishers, NEW phase \in AtRest, End(p, phase), UNCHANGED documents
  PROVE  Final'
<1>1. Harmless(p)'
  BY DEF IInv, TypeOK, LocalsOK, End, Goto, Harmless
<1>2. \A q \in Publishers \ {p} : /\ pc'[q] = pc[q] /\ goal'[q] = goal[q]
                                  /\ seen'[q] = seen[q] /\ manifest'[q] = manifest[q]
  BY DEF IInv, TypeOK, LocalsOK, End, Goto
<1> QED
  BY <1>1, <1>2, FinalStays

\* A step of p to another phase that is harmless.
LEMMA GotoFinal ==
  ASSUME IInv, Final, NEW p \in Publishers, NEW phase \in Phases, Goto(p, phase), UNCHANGED documents,
         \A q \in Publishers \ {p} : /\ goal'[q] = goal[q] /\ seen'[q] = seen[q]
                                     /\ manifest'[q] = manifest[q],
         \/ phase \in {"report", "write_report", "gate"}
         \/ phase \in {"list", "read"} /\ goal'[p] = "validate"
         \/ phase = "publication" /\ manifest'[p] = NoManifest
         \/ phase = "run_manifest" /\ manifest'[p] = NoManifest /\ seen'[p] = publication
         \/ phase = "check_public" /\ goal'[p] = "verify" /\ manifest'[p] = run_manifest
  PROVE  Final'
<1>1. pc'[p] = phase /\ \A q \in Publishers \ {p} : pc'[q] = pc[q]
  BY DEF IInv, TypeOK, LocalsOK, Goto
<1>2. Harmless(p)'
  BY <1>1 DEF Harmless, documents
<1> QED
  BY <1>1, <1>2, FinalStays

LEMMA CollectFinal ==
  ASSUME IInv, Final, NEW p \in Publishers, Collect(p, "validate"), UNCHANGED documents
  PROVE  Final'
  BY GotoFinal DEF Collect, IInv, TypeOK, LocalsOK, Phases

\* What is known of a publisher that works on a final run.
LEMMA WorkOnFinal ==
  ASSUME IInv, Final, NEW p \in Publishers
  PROVE  /\ pc[p] \in {"list", "read"} => goal[p] = "validate"
         /\ pc[p] \in {"publication", "run_manifest", "report", "gate", "list", "read"}
                => manifest[p] = NoManifest
         /\ pc[p] \in {"report", "write_report", "gate"} => goal[p] = "validate"
         /\ pc[p] = "run_manifest" => Usable(p)
         /\ pc[p] = "check_public" => goal[p] = "verify" /\ manifest[p] = public_manifest
         /\ pc[p] \notin {"write_run", "write_public", "write_publication"}
         /\ public_manifest # NoManifest /\ publication # NoRevision
  BY DEF Final, Published, Harmless, Usable, AtRest, IInv, Locals, HoldsManifest, Starting

\* Validation on a final run ends, or goes on to the gate.
LEMMA ValidationFinal ==
  ASSUME IInv, Final, NEW p \in Publishers,
         \/ ReadReport(p) \/ ListMarkers(p) \/ (\E m \in Markers : ReadMarker(p, m)) \/ WriteReport(p)
  PROVE  Final' /\ UNCHANGED documents
<1>1. CASE ReadReport(p)
  <2>1. UNCHANGED documents
    BY <1>1 DEF ReadReport, store, documents
  <2>2. CASE report = "passed"
    BY <1>1, <2>1, <2>2, GotoFinal DEF ReadReport, locals, Phases
  <2>3. CASE report # "passed"
    BY <1>1, <2>1, <2>3, CollectFinal DEF ReadReport
  <2> QED
    BY <2>1, <2>2, <2>3
<1>2. CASE ListMarkers(p)
  <2>1. UNCHANGED documents /\ goal[p] = "validate"
    BY <1>2, WorkOnFinal DEF ListMarkers, store, documents
  <2>2. CASE Goto(p, "read") /\ UNCHANGED locals
    BY <2>1, <2>2, GotoFinal DEF locals, Phases
  <2>3. CASE Goto(p, "write_report") /\ UNCHANGED locals
    BY <2>1, <2>3, GotoFinal DEF locals, Phases
  <2> QED
    BY <1>2, <2>1, <2>2, <2>3 DEF ListMarkers
<1>3. ASSUME NEW m \in Markers, ReadMarker(p, m) PROVE Final' /\ UNCHANGED documents
  <2>1. UNCHANGED documents /\ goal[p] = "validate"
    BY <1>3, WorkOnFinal DEF ReadMarker, store, documents
  <2>2. /\ Goto(p, IF m = NumMarkers THEN "write_report" ELSE "read")
        /\ UNCHANGED <<goal, seen, manifest>>
    BY <1>3, <2>1 DEF ReadMarker
  <2> QED
    BY <2>1, <2>2, GotoFinal DEF Phases
<1>4. CASE WriteReport(p)
  <2>1. UNCHANGED documents
    BY <1>4 DEF WriteReport, documents
  <2>2. CASE Goto(p, "gate") /\ UNCHANGED <<goal, seen, manifest>>
    BY <2>1, <2>2, GotoFinal DEF Phases
  <2> QED
    BY <1>4, <2>1, <2>2, EndFinal DEF WriteReport, AtRest
<1> QED
  BY <1>1, <1>2, <1>3, <1>4

\* A pass finds a final run published, verifies it and ends.
LEMMA PublicationFinal ==
  ASSUME IInv, Final, NEW p \in Publishers,
         Gate(p) \/ ReadPublication(p) \/ ReadRunManifest(p) \/ CheckPublicManifest(p)
  PROVE  Final' /\ UNCHANGED documents
<1>0. UNCHANGED documents
  BY DEF Gate, ReadPublication, ReadRunManifest, CheckPublicManifest, store, documents
<1>1. CASE Gate(p)
  <2>1. manifest[p] = NoManifest
    BY <1>1, WorkOnFinal DEF Gate
  <2>2. CASE Goto(p, "publication") /\ UNCHANGED <<goal, seen, manifest>>
    BY <1>0, <2>1, <2>2, GotoFinal DEF Phases
  <2> QED
    BY <1>0, <1>1, <2>2, EndFinal DEF Gate, AtRest
<1>2. CASE ReadPublication(p)
  <2>1. manifest[p] = NoManifest /\ publication # NoRevision
    BY <1>2, WorkOnFinal DEF ReadPublication
  <2>2. /\ Goto(p, "run_manifest") /\ UNCHANGED <<goal, manifest>>
        /\ seen' = [seen EXCEPT ![p] = publication]
    BY <1>2, <2>1 DEF ReadPublication
  <2>3. seen'[p] = publication /\ \A q \in Publishers \ {p} : seen'[q] = seen[q]
    BY <2>2 DEF IInv, TypeOK, LocalsOK
  <2> QED
    BY <1>0, <2>1, <2>2, <2>3, GotoFinal DEF Phases
<1>3. CASE ReadRunManifest(p)
  <2>1. /\ Goto(p, "check_public") /\ UNCHANGED seen
        /\ goal' = [goal EXCEPT ![p] = "verify"]
        /\ manifest' = [manifest EXCEPT ![p] = run_manifest]
    BY <1>3, WorkOnFinal DEF ReadRunManifest
  <2>2. /\ goal'[p] = "verify" /\ manifest'[p] = run_manifest
        /\ \A q \in Publishers \ {p} : goal'[q] = goal[q] /\ manifest'[q] = manifest[q]
    BY <2>1 DEF IInv, TypeOK, LocalsOK
  <2> QED
    BY <1>0, <2>1, <2>2, GotoFinal DEF Phases
<1>4. CASE CheckPublicManifest(p)
  BY <1>0, <1>4, WorkOnFinal, EndFinal DEF CheckPublicManifest, AfterPublic, AtRest
<1> QED
  BY <1>0, <1>1, <1>2, <1>3, <1>4

LEMMA NextFinal == IInv /\ Final /\ [Next]_vars => Final' /\ UNCHANGED documents
<1> SUFFICES ASSUME IInv, Final, [Next]_vars PROVE Final' /\ UNCHANGED documents
  OBVIOUS
<1>1. ASSUME NEW p \in Publishers, BeginCandidate(p) \/ BeginPublish(p) \/ BeginValidate(p)
      PROVE  Final' /\ UNCHANGED documents
  <2>1. PICK m \in Modes, phase \in {"report", "gate", "list"} : Begin(p, m, phase)
    BY <1>1 DEF BeginCandidate, BeginPublish, BeginValidate, Modes
  <2>2. UNCHANGED documents /\ goal[p] = "validate"
    BY <2>1 DEF Begin, store, documents, IInv, Locals, HoldsManifest, Starting
  <2> QED
    BY <2>1, <2>2, GotoFinal DEF Begin, Phases
<1>2. ASSUME NEW p \in Publishers, Step(p)
      PROVE  Final' /\ UNCHANGED documents
  <2>1. ~WriteRunManifest(p) /\ ~WritePublicManifest(p) /\ ~WritePublication(p)
    BY WorkOnFinal DEF WriteRunManifest, WritePublicManifest, WritePublication
  <2> QED
    BY <1>2, <2>1, ValidationFinal, PublicationFinal DEF Step
<1>3. ASSUME NEW p \in Publishers, Crash(p)
      PROVE  Final' /\ UNCHANGED documents
  BY <1>3, EndFinal DEF Crash, AtRest, store, documents
<1>4. CASE (\E m \in Markers : WriteMarker(m)) \/ Second \/ UNCHANGED vars
  <2>1. UNCHANGED <<store, pc, locals>>
    BY <1>4 DEF WriteMarker, Second, vars
  <2> QED
    BY <2>1 DEF Final, Published, Harmless, Revision, store, locals, documents
<1> QED
  BY <1>1, <1>2, <1>3, <1>4 DEF Next

\* A published run that no publisher found unpublished keeps its documents for ever.
THEOREM PublishedRunsAreFinal == Spec => PublishedIsFinal
<1>1. IInv /\ [Next]_vars => [Final => Final' /\ UNCHANGED <<run_manifest, public_manifest,
                                                             publication>>]_vars
  BY NextFinal DEF documents
<1> QED
  BY <1>1, SpecIInv, PTL DEF Spec, PublishedIsFinal

\* What was built stays built.
LEMMA BuiltGrows == [Next]_vars => built \subseteq built'
  BY DEF Next, Step, BeginCandidate, BeginPublish, BeginValidate, Begin, ReadReport, ListMarkers,
         ReadMarker, Build, WriteReport, Gate, ReadPublication, ReadRunManifest, WriteRunManifest,
         CheckPublicManifest, WritePublicManifest, WritePublication, Crash, WriteMarker, Second,
         vars

\* The publication of a run implements WriteOnce: it settles on one manifest that some
\* publisher built.
THEOREM PublicationsSettleOnce == Spec => SettlesOnce
<1>1. Init => Register!Init
  BY DEF Init, Register!Init, Final, Published
<1>2. IInv /\ IInv' /\ [Next]_vars => [Register!Next]_(Register!vars)
  <2> SUFFICES ASSUME IInv, IInv', [Next]_vars PROVE Register!Next
    OBVIOUS
  <2>1. built \subseteq built'
    BY BuiltGrows
  <2>2. CASE Final
    BY <2>1, <2>2, NextFinal DEF documents, Register!Next, Register!Propose
  <2>3. CASE ~Final /\ ~Final'
    BY <2>1, <2>3 DEF Register!Next, Register!Propose
  <2>4. CASE ~Final /\ Final'
    <3>1. public_manifest' \in built'
      BY <2>4 DEF Final, Published, IInv, ManifestsBuilt
    <3> QED
      BY <2>1, <2>4, <3>1 DEF Register!Next, Register!Settle
  <2> QED
    BY <2>2, <2>3, <2>4
<1> QED
  BY <1>1, <1>2, SpecIInv, PTL DEF Spec, SettlesOnce, Register!Spec
=============================================================================
