-------------------------- MODULE PublicView_proofs --------------------------
(***************************************************************************)
(* Type correctness of PublicView, what its views may show, when the latest *)
(* manifest may go back, and the stability of settled views, for any number *)
(* of publishers, datasets, cycles, runs and faults.                        *)
(***************************************************************************)
EXTENDS PublicView, TLAPS

\* A manifest may be shown once its run is published and its cycle has a current one.
Shown(d, m) == m \in published[d] /\ current[d][m.cycle] \in published[d]

ViewsShown ==
    \A d \in Datasets : /\ latest[d] \in Manifest => Shown(d, latest[d])
                        /\ index[d] \in Manifest => Shown(d, index[d])

\* A publisher refreshes views for published runs only, the current manifest first.
AfterCurrent == {"read_latest", "write_latest", "read_index"}
TargetPublished(p) ==
    /\ pc[p] \in AfterCurrent \cup {"current"} => Content(at[p]) \in published[at[p].dataset]
    /\ pc[p] \in AfterCurrent => Shown(at[p].dataset, Content(at[p]))

\* It overwrites nothing newer than its target, as far as it has seen.
FoundNotNewer(p) == pc[p] = "write_latest" => ~Older(Content(at[p]), found[p])

\* Its index is complete when it is written, and holds what was latest.
EntriesRead(p) == pc[p] = "write_index" => \A d \in Datasets : entries[p][d] # Unread
EntriesShown(p) == \A d \in Datasets : entries[p][d] \in Manifest => Shown(d, entries[p][d])

LocalInv(p) == TargetPublished(p) /\ FoundNotNewer(p) /\ EntriesRead(p) /\ EntriesShown(p)

IInv == TypeOK /\ ViewsShown /\ \A p \in Publishers : LocalInv(p)

-----------------------------------------------------------------------------
\* Lemmas on the targets of a pass.

LEMMA TargetTypes == \A t \in Target : /\ Content(t) \in Manifest
                                       /\ ~IsLast(t) => After(t) \in Target
<1> SUFFICES ASSUME NEW t \in Target
             PROVE  Content(t) \in Manifest /\ (~IsLast(t) => After(t) \in Target)
  OBVIOUS
<1>1. Content(t) \in Manifest
  BY DEF Target, Content, Manifest
<1>2. ASSUME t.run < NumRuns PROVE After(t) \in Target
  BY <1>2, SizeAssumption DEF Target, After, Datasets, Cycles, Runs
<1>3. ASSUME ~(t.run < NumRuns), t.cycle > 1 PROVE After(t) \in Target
  <2>1. t.cycle - 1 \in Cycles /\ 1 \in Runs
    BY <1>3, SizeAssumption DEF Target, Cycles, Runs
  <2>2. After(t) = [t EXCEPT !.cycle = t.cycle - 1, !.run = 1]
    BY <1>3 DEF After
  <2> QED
    BY <2>1, <2>2 DEF Target
<1>4. ASSUME ~(t.run < NumRuns), ~(t.cycle > 1), ~IsLast(t) PROVE After(t) \in Target
  <2>1. t.run = NumRuns /\ t.cycle = 1 /\ t.dataset \in 1..NumDatasets
    BY <1>4, SizeAssumption DEF Target, Datasets, Cycles, Runs
  <2>2. t.dataset + 1 \in Datasets
    BY <2>1, <1>4, SizeAssumption DEF IsLast, Datasets
  <2> QED
    BY <2>1, <2>2, <1>4, SizeAssumption DEF Target, After, First, Datasets, Cycles, Runs
<1> QED
  BY <1>1, <1>2, <1>3, <1>4

LEMMA FirstTypes == First \in Target /\ NoEntries \in [Datasets -> Manifest \cup {Nothing, Unread}]
  BY SizeAssumption DEF First, NoEntries, Target, Datasets, Cycles, Runs

\* The local state of all publishers but p stays.
OthersStay(p) ==
    \A q \in Publishers \ {p} : /\ pc'[q] = pc[q] /\ at'[q] = at[q]
                                /\ found'[q] = found[q] /\ entries'[q] = entries[q]

\* A publisher that is done with its target keeps nothing of it.
LEMMA DoneLocals ==
  ASSUME TypeOK, NEW p \in Publishers, NextTarget(p) \/ End(p)
  PROVE  /\ LocalsOK' /\ OthersStay(p) /\ LocalInv(p)'
         /\ pc'[p] \in {"idle", "target"} /\ entries'[p] = NoEntries
<1>1. /\ pc' = [pc EXCEPT ![p] = "idle"] \/ pc' = [pc EXCEPT ![p] = "target"]
      /\ found' = [found EXCEPT ![p] = Nothing]
      /\ entries' = [entries EXCEPT ![p] = NoEntries]
  BY DEF NextTarget, End, Goto
<1>2. pc'[p] \in {"idle", "target"} /\ entries'[p] = NoEntries
  BY <1>1 DEF TypeOK, LocalsOK
<1>3. pc' \in [Publishers -> Phases] /\ found' \in [Publishers -> Manifest \cup {Nothing}]
  BY <1>1 DEF TypeOK, LocalsOK, Phases
<1>4. entries' \in [Publishers -> [Datasets -> Manifest \cup {Nothing, Unread}]]
  BY <1>1, FirstTypes DEF TypeOK, LocalsOK
<1>5. alone' \in [Publishers -> BOOLEAN]
  BY DEF TypeOK, LocalsOK, NextTarget, End
<1>6. at' \in [Publishers -> Target] /\ \A q \in Publishers \ {p} : at'[q] = at[q]
  <2>1. at[p] \in Target /\ at \in [Publishers -> Target]
    BY DEF TypeOK, LocalsOK
  <2>2. CASE End(p)
    BY <2>1, <2>2, FirstTypes DEF End
  <2>3. CASE ~End(p)
    <3>1. ~IsLast(at[p]) /\ at' = [at EXCEPT ![p] = After(at[p])]
      BY <2>3 DEF NextTarget
    <3> QED
      BY <2>1, <3>1, TargetTypes
  <2> QED
    BY <2>2, <2>3
<1>7. OthersStay(p)
  BY <1>1, <1>6 DEF TypeOK, LocalsOK, OthersStay
<1>8. LocalInv(p)'
  <2>1. \A d \in Datasets : entries'[p][d] = Unread
    BY <1>2 DEF NoEntries
  <2> QED
    BY <1>2, <2>1, NothingAssumption
       DEF LocalInv, TargetPublished, FoundNotNewer, EntriesRead, EntriesShown, AfterCurrent
<1> QED
  BY <1>2, <1>3, <1>4, <1>5, <1>6, <1>7, <1>8 DEF LocalsOK

-----------------------------------------------------------------------------
\* What a step may do to the rest of the invariant: published runs and current manifests
\* that are published stay so.
Grows ==
    \A d \in Datasets : /\ published[d] \subseteq published'[d]
                        /\ \A c \in Cycles : current[d][c] \in published[d]
                                            => current'[d][c] \in published'[d]

LEMMA ShownStays ==
  ASSUME Grows, NEW d \in Datasets, NEW m \in Manifest, Shown(d, m)
  PROVE  Shown(d, m)'
  BY DEF Grows, Shown, Manifest

LEMMA ViewsStay ==
  ASSUME ViewsShown, Grows, UNCHANGED <<latest, index>>
  PROVE  ViewsShown'
  BY ShownStays DEF ViewsShown

LEMMA OtherStays ==
  ASSUME TypeOK, Grows, NEW q \in Publishers, LocalInv(q),
         pc'[q] = pc[q], at'[q] = at[q], found'[q] = found[q], entries'[q] = entries[q]
  PROVE  LocalInv(q)'
<1>1. at[q] \in Target /\ at[q].dataset \in Datasets /\ Content(at[q]) \in Manifest
  BY TargetTypes DEF TypeOK, LocalsOK, Target
<1>2. TargetPublished(q)'
  <2>1. Content(at[q]) \in published[at[q].dataset] => Content(at[q]) \in published'[at[q].dataset]
    BY <1>1 DEF Grows
  <2>2. Shown(at[q].dataset, Content(at[q])) => Shown(at[q].dataset, Content(at[q]))'
    BY <1>1, ShownStays DEF Shown
  <2> QED
    BY <2>1, <2>2 DEF LocalInv, TargetPublished, Shown, Content
<1>3. FoundNotNewer(q)' /\ EntriesRead(q)'
  BY DEF LocalInv, FoundNotNewer, EntriesRead, Content
<1>4. EntriesShown(q)'
  BY ShownStays DEF LocalInv, EntriesShown, Shown
<1> QED
  BY <1>2, <1>3, <1>4 DEF LocalInv

\* A step of publisher p is shown to preserve the invariant by what it does to p and the views.
LEMMA StepOf ==
  ASSUME IInv, NEW p \in Publishers, Grows, OthersStay(p),
         TypeOK', ViewsShown', LocalInv(p)'
  PROVE  IInv'
<1>1. ASSUME NEW q \in Publishers \ {p} PROVE LocalInv(q)'
  BY OtherStays DEF OthersStay, IInv
<1> QED
  BY <1>1 DEF IInv

LEMMA InitIInv == Init => IInv
<1> SUFFICES ASSUME Init PROVE IInv
  OBVIOUS
<1>1. TypeOK
  BY FirstTypes, BoundsAssumption DEF Init, TypeOK, StoreOK, LocalsOK, Phases
<1>2. ViewsShown
  BY NothingAssumption DEF Init, ViewsShown
<1>3. ASSUME NEW p \in Publishers PROVE LocalInv(p)
  BY NothingAssumption DEF Init, LocalInv, TargetPublished, FoundNotNewer, EntriesRead, EntriesShown,
                           AfterCurrent, NoEntries
<1> QED
  BY <1>1, <1>2, <1>3 DEF IInv

-----------------------------------------------------------------------------
\* Every step preserves the invariant.

\* A step that leaves the store alone and does not end the work on a target.
LEMMA LocalIInv ==
  ASSUME IInv, NEW p \in Publishers, UNCHANGED <<published, view>>, faults' \in 0..MaxFaults,
         LocalsOK', OthersStay(p), LocalInv(p)'
  PROVE  IInv'
<1>1. Grows /\ TypeOK'
  BY DEF Grows, IInv, TypeOK, StoreOK, view
<1>2. ViewsShown'
  BY <1>1, ViewsStay DEF IInv, view
<1> QED
  BY <1>1, <1>2, StepOf

LEMMA DoneIInv ==
  ASSUME IInv, NEW p \in Publishers, NextTarget(p) \/ End(p),
         UNCHANGED <<published, view>>, faults' \in 0..MaxFaults
  PROVE  IInv'
  BY DoneLocals, LocalIInv DEF IInv

\* Publisher p goes on, in a phase that needs no more than it has.
LEMMA GotoIInv ==
  ASSUME IInv, NEW p \in Publishers, NEW phase \in Phases, Goto(p, phase),
         UNCHANGED <<published, view, locals, faults>>,
         phase \in AfterCurrent => pc[p] \in AfterCurrent,
         phase = "current" => Content(at[p]) \in published[at[p].dataset],
         phase \notin {"write_latest", "write_index"}
  PROVE  IInv'
<1>1. pc' = [pc EXCEPT ![p] = phase] /\ pc'[p] = phase
  BY DEF Goto, IInv, TypeOK, LocalsOK
<1>2. LocalsOK' /\ OthersStay(p) /\ faults' \in 0..MaxFaults
  BY <1>1 DEF IInv, TypeOK, LocalsOK, OthersStay, locals
<1>3. LocalInv(p)'
  <2>1. LocalInv(p)
    BY DEF IInv
  <2>2. TargetPublished(p)' /\ FoundNotNewer(p)' /\ EntriesRead(p)'
    BY <1>1, <2>1 DEF LocalInv, TargetPublished, FoundNotNewer, EntriesRead, Shown, view, locals,
                      Content, AfterCurrent
  <2>3. EntriesShown(p)'
    BY <2>1 DEF LocalInv, EntriesShown, Shown, view, locals
  <2> QED
    BY <2>2, <2>3 DEF LocalInv
<1> QED
  BY <1>2, <1>3, LocalIInv

LEMMA BeginIInv ==
  ASSUME IInv, NEW p \in Publishers, NEW t \in Target, NEW operator \in BOOLEAN,
         Begin(p, t, operator)
  PROVE  IInv'
<1>1. /\ pc' = [pc EXCEPT ![p] = "target"] /\ at' = [at EXCEPT ![p] = t]
      /\ alone' = [alone EXCEPT ![p] = operator]
      /\ UNCHANGED <<published, view, found, entries, faults>>
  BY DEF Begin, Goto
<1>2. LocalsOK' /\ OthersStay(p) /\ faults' \in 0..MaxFaults /\ pc'[p] = "target"
  BY <1>1 DEF IInv, TypeOK, LocalsOK, OthersStay, Phases
<1>3. LocalInv(p)'
  BY <1>1, <1>2 DEF IInv, LocalInv, TargetPublished, FoundNotNewer, EntriesRead, EntriesShown, Shown,
                    view, AfterCurrent
<1> QED
  BY <1>1, <1>2, <1>3, LocalIInv

LEMMA BeginRollingIInv ==
  ASSUME IInv, NEW p \in Publishers, BeginRolling(p) PROVE IInv'
<1>1. /\ pc' = [pc EXCEPT ![p] = "build"] /\ at' = [at EXCEPT ![p] = Last]
      /\ UNCHANGED <<published, view, alone, found, entries, faults>>
  BY DEF BeginRolling, Goto
<1>2. Last \in Target
  BY SizeAssumption DEF Last, Target, Datasets, Cycles, Runs
<1>3. LocalsOK' /\ OthersStay(p) /\ faults' \in 0..MaxFaults /\ pc'[p] = "build"
  BY <1>1, <1>2 DEF IInv, TypeOK, LocalsOK, OthersStay, Phases
<1>4. LocalInv(p)'
  BY <1>1, <1>3 DEF IInv, LocalInv, TargetPublished, FoundNotNewer, EntriesRead, EntriesShown, Shown,
                    view, AfterCurrent
<1> QED
  BY <1>1, <1>3, <1>4, LocalIInv

LEMMA VisitTargetIInv ==
  ASSUME IInv, NEW p \in Publishers, VisitTarget(p) PROVE IInv'
<1>1. UNCHANGED <<published, view, faults>> /\ faults' \in 0..MaxFaults
  BY DEF VisitTarget, IInv, TypeOK
<1>2. CASE Ready(at[p])
  BY <1>1, <1>2, GotoIInv DEF VisitTarget, Ready, Phases, AfterCurrent
<1>3. CASE ~Ready(at[p])
  BY <1>1, <1>3, DoneIInv DEF VisitTarget
<1> QED
  BY <1>2, <1>3

LEMMA WriteCurrentIInv ==
  ASSUME IInv, NEW p \in Publishers, WriteCurrent(p) PROVE IInv'
<1> DEFINE d == at[p].dataset
           c == at[p].cycle
           m == Content(at[p])
<1>1. at[p] \in Target /\ d \in Datasets /\ c \in Cycles /\ m \in Manifest /\ m.cycle = c
  BY TargetTypes DEF IInv, TypeOK, LocalsOK, Target, Content
<1>2. pc[p] = "current" /\ m \in published[d]
  BY DEF WriteCurrent, IInv, LocalInv, TargetPublished
<1>3. /\ current' = [current EXCEPT ![d][c] = m] /\ pc' = [pc EXCEPT ![p] = "read_latest"]
      /\ UNCHANGED <<published, latest, index, locals, faults>>
  BY DEF WriteCurrent, Goto
<1>4. TypeOK'
  BY <1>1, <1>3 DEF IInv, TypeOK, StoreOK, LocalsOK, Phases, locals
<1>5. \A e \in Datasets, b \in Cycles : current'[e][b] = IF e = d /\ b = c THEN m ELSE current[e][b]
  BY <1>1, <1>3 DEF IInv, TypeOK, StoreOK
<1>6. Grows
  BY <1>2, <1>3, <1>5 DEF Grows
<1>7. ViewsShown' /\ OthersStay(p) /\ pc'[p] = "read_latest"
  BY <1>3, <1>6, ViewsStay DEF IInv, TypeOK, LocalsOK, OthersStay, locals
<1>8. LocalInv(p)'
  <2>1. TargetPublished(p)'
    BY <1>1, <1>2, <1>3, <1>5 DEF TargetPublished, Shown, Content, locals
  <2>2. FoundNotNewer(p)' /\ EntriesRead(p)'
    BY <1>7 DEF FoundNotNewer, EntriesRead
  <2>3. EntriesShown(p)'
    BY <1>3, <1>6, ShownStays DEF IInv, LocalInv, EntriesShown, locals
  <2> QED
    BY <2>1, <2>2, <2>3 DEF LocalInv
<1> QED
  BY <1>4, <1>6, <1>7, <1>8, StepOf

LEMMA ReadLatestIInv ==
  ASSUME IInv, NEW p \in Publishers, ReadLatest(p) PROVE IInv'
<1> DEFINE m == Content(at[p])
           l == latest[at[p].dataset]
<1>1. /\ UNCHANGED <<published, view, faults>> /\ faults' \in 0..MaxFaults
      /\ pc[p] = "read_latest"
  BY DEF ReadLatest, IInv, TypeOK
<1>2. CASE NextTarget(p)
  BY <1>1, <1>2, DoneIInv
<1>3. CASE Goto(p, "read_index") /\ UNCHANGED locals
  BY <1>1, <1>3, GotoIInv DEF Phases, AfterCurrent
<1>4. CASE /\ ~Older(m, l) /\ Goto(p, "write_latest") /\ found' = [found EXCEPT ![p] = l]
           /\ UNCHANGED <<alone, at, entries>>
  <2>1. l \in Manifest \cup {Nothing}
    BY DEF IInv, TypeOK, StoreOK, LocalsOK, Target
  <2>2. LocalsOK' /\ OthersStay(p) /\ pc'[p] = "write_latest" /\ found'[p] = l
    BY <1>4, <2>1 DEF IInv, TypeOK, LocalsOK, OthersStay, Goto, Phases
  <2>3. LocalInv(p)'
    BY <1>1, <1>4, <2>2 DEF IInv, LocalInv, TargetPublished, FoundNotNewer, EntriesRead, EntriesShown,
                            Shown, AfterCurrent, Content, Older, view
  <2> QED
    BY <1>1, <2>2, <2>3, LocalIInv
<1> QED
  BY <1>2, <1>3, <1>4 DEF ReadLatest

LEMMA WriteLatestIInv ==
  ASSUME IInv, NEW p \in Publishers, WriteLatest(p) PROVE IInv'
<1> DEFINE d == at[p].dataset
           m == Content(at[p])
<1>1. at[p] \in Target /\ d \in Datasets /\ m \in Manifest
  BY TargetTypes DEF IInv, TypeOK, LocalsOK, Target
<1>2. /\ pc[p] = "write_latest" /\ pc' = [pc EXCEPT ![p] = "build"]
      /\ latest' = [latest EXCEPT ![d] = m] /\ found' = [found EXCEPT ![p] = Nothing]
      /\ UNCHANGED <<published, current, index, alone, at, entries, faults>>
  BY DEF WriteLatest, Goto
<1>3. TypeOK'
  BY <1>1, <1>2 DEF IInv, TypeOK, StoreOK, LocalsOK, Phases
<1>4. Grows /\ OthersStay(p) /\ pc'[p] = "build"
  BY <1>2 DEF Grows, OthersStay, IInv, TypeOK, LocalsOK
<1>5. Shown(d, m)
  BY <1>2 DEF IInv, LocalInv, TargetPublished, AfterCurrent
<1>6. ViewsShown'
  <2>1. \A e \in Datasets : latest'[e] = IF e = d THEN m ELSE latest[e]
    BY <1>1, <1>2 DEF IInv, TypeOK, StoreOK
  <2> QED
    BY <1>2, <1>5, <2>1 DEF IInv, ViewsShown, Shown
<1>7. LocalInv(p)'
  BY <1>2, <1>4 DEF IInv, LocalInv, TargetPublished, FoundNotNewer, EntriesRead, EntriesShown, Shown,
                    AfterCurrent, Content
<1> QED
  BY <1>3, <1>4, <1>6, <1>7, StepOf

LEMMA ReadIndexIInv ==
  ASSUME IInv, NEW p \in Publishers, ReadIndex(p) PROVE IInv'
<1>1. /\ UNCHANGED <<published, view, faults>> /\ faults' \in 0..MaxFaults
      /\ pc[p] = "read_index"
  BY DEF ReadIndex, IInv, TypeOK
<1>2. CASE NextTarget(p)
  BY <1>1, <1>2, DoneIInv
<1>3. CASE Goto(p, "build") /\ UNCHANGED locals
  BY <1>1, <1>3, GotoIInv DEF Phases, AfterCurrent
<1> QED
  BY <1>2, <1>3 DEF ReadIndex

\* What the read of one entry does; the last one completes the index.
LEMMA ReadEntryEntries ==
  ASSUME TypeOK, NEW p \in Publishers, NEW d \in Datasets, ReadEntry(p, d)
  PROVE  /\ LocalsOK' /\ OthersStay(p) /\ pc'[p] \in {"build", "write_index"}
         /\ \A e \in Datasets : entries'[p][e] = IF e = d THEN latest[d] ELSE entries[p][e]
         /\ EntriesRead(p)'
<1>1. /\ pc' = [pc EXCEPT ![p] = IF d = NumDatasets THEN "write_index" ELSE "build"]
      /\ entries' = [entries EXCEPT ![p][d] = latest[d]]
      /\ \A e \in Datasets : entries[p][e] = Unread <=> e >= d
      /\ UNCHANGED <<alone, at, found>>
  BY DEF ReadEntry, Goto
<1>2. latest[d] \in Manifest \cup {Nothing}
  BY DEF TypeOK, StoreOK
<1>3. entries' \in [Publishers -> [Datasets -> Manifest \cup {Nothing, Unread}]]
  BY <1>1, <1>2 DEF TypeOK, LocalsOK
<1>4. LocalsOK'
  BY <1>1, <1>3 DEF TypeOK, LocalsOK, Phases
<1>5. OthersStay(p) /\ pc'[p] = IF d = NumDatasets THEN "write_index" ELSE "build"
  BY <1>1 DEF TypeOK, LocalsOK, OthersStay
<1>6. \A e \in Datasets : entries'[p][e] = IF e = d THEN latest[d] ELSE entries[p][e]
  BY <1>1 DEF TypeOK, LocalsOK
<1>7. EntriesRead(p)'
  <2>1. ASSUME d = NumDatasets, NEW e \in Datasets PROVE entries'[p][e] # Unread
    <3>1. CASE e = d
      BY <1>2, <1>6, <3>1, NothingAssumption
    <3>2. CASE e # d
      BY <1>1, <1>6, <2>1, <3>2, SizeAssumption DEF Datasets
    <3> QED
      BY <3>1, <3>2
  <2> QED
    BY <1>5, <2>1 DEF EntriesRead
<1> QED
  BY <1>4, <1>5, <1>6, <1>7

LEMMA ReadEntryIInv ==
  ASSUME IInv, NEW p \in Publishers, NEW d \in Datasets, ReadEntry(p, d) PROVE IInv'
<1>1. /\ UNCHANGED <<published, view, at>> /\ faults' \in 0..MaxFaults /\ pc[p] = "build"
  BY DEF ReadEntry, IInv, TypeOK
<1>2. /\ LocalsOK' /\ OthersStay(p) /\ pc'[p] \in {"build", "write_index"}
      /\ \A e \in Datasets : entries'[p][e] = IF e = d THEN latest[d] ELSE entries[p][e]
      /\ EntriesRead(p)'
  BY ReadEntryEntries DEF IInv
<1>3. TargetPublished(p)' /\ FoundNotNewer(p)'
  BY <1>1, <1>2 DEF IInv, LocalInv, TargetPublished, FoundNotNewer, Shown, Content, AfterCurrent, view
<1>4. EntriesShown(p)'
  BY <1>1, <1>2 DEF IInv, LocalInv, EntriesShown, ViewsShown, Shown, view
<1> QED
  BY <1>1, <1>2, <1>3, <1>4, LocalIInv DEF LocalInv

LEMMA WriteIndexIInv ==
  ASSUME IInv, NEW p \in Publishers, WriteIndex(p) PROVE IInv'
<1>1. /\ pc[p] = "write_index" /\ index' = entries[p]
      /\ UNCHANGED <<published, current, latest, faults>>
  BY DEF WriteIndex
<1>2. LocalsOK' /\ OthersStay(p) /\ LocalInv(p)'
  BY DoneLocals DEF WriteIndex, IInv
<1>3. TypeOK'
  <2>1. \A d \in Datasets : entries[p][d] # Unread
    BY <1>1 DEF IInv, LocalInv, EntriesRead
  <2>2. entries[p] \in [Datasets -> Manifest \cup {Nothing}]
    BY <2>1 DEF IInv, TypeOK, LocalsOK
  <2> QED
    BY <1>1, <1>2, <2>2 DEF IInv, TypeOK, StoreOK
<1>4. Grows
  BY <1>1 DEF Grows
<1>5. ViewsShown'
  BY <1>1 DEF IInv, ViewsShown, LocalInv, EntriesShown, Shown
<1> QED
  BY <1>2, <1>3, <1>4, <1>5, StepOf

LEMMA PublishIInv ==
  ASSUME IInv, NEW d \in Datasets, Publish(d) PROVE IInv'
<1>1. PICK m \in Manifest : published' = [published EXCEPT ![d] = @ \cup {m}]
  BY DEF Publish
<1>2. UNCHANGED <<view, pc, locals, faults>>
  BY DEF Publish
<1>3. TypeOK'
  BY <1>1, <1>2 DEF IInv, TypeOK, StoreOK, LocalsOK, view, locals
<1>4. Grows
  BY <1>1, <1>2 DEF Grows, IInv, TypeOK, StoreOK, view
<1>5. ViewsShown'
  BY <1>2, <1>4, ViewsStay DEF IInv, view
<1>6. ASSUME NEW q \in Publishers PROVE LocalInv(q)'
  BY <1>2, <1>4, OtherStays DEF IInv, locals
<1> QED
  BY <1>3, <1>5, <1>6 DEF IInv

LEMMA StepIInv ==
  ASSUME IInv, NEW p \in Publishers,
         BeginPass(p) \/ BeginOperator(p) \/ BeginRolling(p) \/ Step(p) \/ Crash(p) \/ Fail(p)
  PROVE  IInv'
<1>1. CASE BeginPass(p)
  BY <1>1, BeginIInv, FirstTypes DEF BeginPass
<1>2. CASE BeginOperator(p)
  BY <1>2, BeginIInv DEF BeginOperator
<1>3. CASE Step(p)
  BY <1>3, VisitTargetIInv, WriteCurrentIInv, ReadLatestIInv, WriteLatestIInv, ReadIndexIInv,
     ReadEntryIInv, WriteIndexIInv DEF Step
<1>4. CASE Crash(p) \/ Fail(p)
  <2>1. /\ NextTarget(p) \/ End(p)
        /\ UNCHANGED <<published, view>> /\ faults < MaxFaults /\ faults' = faults + 1
    BY <1>4 DEF Crash, Fail
  <2>2. faults' \in 0..MaxFaults
    BY <2>1, BoundsAssumption DEF IInv, TypeOK
  <2> QED
    BY <2>1, <2>2, DoneIInv
<1>5. CASE BeginRolling(p)
  BY <1>5, BeginRollingIInv
<1> QED
  BY <1>1, <1>2, <1>3, <1>4, <1>5

LEMMA NextIInv == IInv /\ [Next]_vars => IInv'
<1>1. ASSUME IInv, UNCHANGED vars PROVE IInv'
  <2>1. Grows /\ TypeOK' /\ UNCHANGED <<latest, index, pc, at, found, entries>>
    BY <1>1 DEF vars, view, locals, Grows, IInv, TypeOK, StoreOK, LocalsOK
  <2>2. ASSUME NEW q \in Publishers PROVE LocalInv(q)'
    BY <1>1, <2>1, OtherStays DEF IInv
  <2> QED
    BY <1>1, <2>1, <2>2, ViewsStay DEF IInv
<1> QED
  BY <1>1, StepIInv, PublishIInv DEF Next

LEMMA SpecIInv == Spec => []IInv
  BY InitIInv, NextIInv, PTL DEF Spec

-----------------------------------------------------------------------------
\* The theorems on states.

\* Type correctness.
THEOREM PublicViewTypes == Spec => []TypeOK
  BY SpecIInv, PTL DEF IInv

LEMMA InvViews == IInv => ViewsArePublished
<1> SUFFICES ASSUME IInv, NEW d \in Datasets, NEW m \in Manifest, m \in Exposed(d)
             PROVE  m \in published[d] /\ current[d][m.cycle] \in published[d]
  BY DEF ViewsArePublished
<1>1. m = latest[d] \/ m = index[d]
  BY DEF Exposed
<1> QED
  BY <1>1 DEF IInv, ViewsShown, Shown

\* Clients are led to published runs only, and find the current manifest of their cycle.
THEOREM ViewsShowPublishedRuns == Spec => []ViewsArePublished
  BY SpecIInv, InvViews, PTL

-----------------------------------------------------------------------------
\* The latest manifest goes back by a lost update only.

Lost(d) == \E p \in Publishers : pc[p] = "write_latest" /\ at[p].dataset = d /\ found[p] # latest[d]

LEMMA NextLatest ==
  ASSUME IInv, [Next]_vars, NEW d \in Datasets, Older(latest'[d], latest[d])
  PROVE  Lost(d)
<1>1. latest[d] \in Manifest /\ ~Older(latest[d], latest[d])
  <2>1. latest[d] \in Manifest
    BY DEF IInv, TypeOK, StoreOK, Older
  <2>2. latest[d].cycle \in Nat
    BY <2>1, SizeAssumption DEF Manifest, Cycles
  <2> QED
    BY <2>1, <2>2 DEF Older
<1>2. latest' # latest
  BY <1>1
<1>3. PICK p \in Publishers : WriteLatest(p)
  BY <1>2 DEF Next, vars, view, BeginPass, BeginOperator, BeginRolling, Begin, Step, VisitTarget, WriteCurrent,
              ReadLatest, ReadIndex, ReadEntry, WriteIndex, Publish, Crash, Fail
<1>4. pc[p] = "write_latest" /\ latest' = [latest EXCEPT ![at[p].dataset] = Content(at[p])]
  BY <1>3 DEF WriteLatest
<1>5. at[p].dataset = d /\ latest'[d] = Content(at[p])
  BY <1>1, <1>4 DEF IInv, TypeOK, StoreOK
<1>6. ~Older(Content(at[p]), found[p])
  BY <1>4 DEF IInv, LocalInv, FoundNotNewer
<1> QED
  BY <1>4, <1>5, <1>6 DEF Lost

\* The latest manifest goes back to an older cycle only if its writer missed a write.
THEOREM LatestRegressionsAreLostUpdates == Spec => LatestRegressesByLostUpdate
<1>1. IInv /\ [Next]_vars =>
        [\A d \in Datasets : Older(latest'[d], latest[d]) =>
            \E p \in Publishers : pc[p] = "write_latest" /\ at[p].dataset = d
                                  /\ found[p] # latest[d]]_vars
  BY NextLatest DEF Lost
<1> QED
  BY <1>1, SpecIInv, PTL DEF Spec, LatestRegressesByLostUpdate

-----------------------------------------------------------------------------
\* Settled views stay.

Still == Settled' /\ UNCHANGED <<latest, index>>

\* A step of p that leaves latest and index, and with them the settled state.
LEMMA StillStep ==
  ASSUME IInv, Settled, NEW p \in Publishers, UNCHANGED <<published, latest, index>>, OthersStay(p),
         pc'[p] # "write_latest",
         \A d \in Datasets : entries'[p][d] \in {entries[p][d], latest[d], Unread}
  PROVE  Still
<1>1. OneRunPerCycle' /\ UpToDate'
  BY DEF Settled, OneRunPerCycle, UpToDate, IsNewest
<1>2. ASSUME NEW q \in Publishers PROVE Harmless(q)'
  <2>1. CASE q = p
    BY <2>1 DEF Settled, Harmless
  <2>2. CASE q # p
    BY <2>2 DEF Settled, Harmless, OthersStay, Content
  <2> QED
    BY <2>1, <2>2
<1> QED
  BY <1>1, <1>2 DEF Settled, Still

LEMMA DoneStill ==
  ASSUME IInv, Settled, NEW p \in Publishers, NextTarget(p) \/ End(p),
         UNCHANGED <<published, latest, index>>
  PROVE  Still
<1>1. OthersStay(p) /\ pc'[p] # "write_latest" /\ \A d \in Datasets : entries'[p][d] = Unread
  BY DoneLocals DEF IInv, NoEntries
<1> QED
  BY <1>1, StillStep

LEMMA GotoStill ==
  ASSUME IInv, Settled, NEW p \in Publishers, NEW phase \in Phases \ {"write_latest"}, Goto(p, phase),
         UNCHANGED <<published, latest, index, locals>>
  PROVE  Still
<1>1. OthersStay(p) /\ pc'[p] = phase /\ UNCHANGED entries
  BY DEF Goto, OthersStay, IInv, TypeOK, LocalsOK, locals
<1> QED
  BY <1>1, StillStep

\* A publisher of a published run finds it in latest, or something newer.
LEMMA ReadLatestStill ==
  ASSUME IInv, Settled, NEW p \in Publishers, ReadLatest(p) PROVE Still
<1> DEFINE d == at[p].dataset
           m == Content(at[p])
           l == latest[d]
<1>1. UNCHANGED <<published, latest, index>>
  BY DEF ReadLatest, view
<1>2. d \in Datasets /\ m \in Manifest /\ m \in published[d] /\ published[d] \subseteq Manifest
  BY TargetTypes DEF ReadLatest, IInv, TypeOK, StoreOK, LocalsOK, Target, LocalInv, TargetPublished,
                     AfterCurrent
<1>3. l \in published[d] /\ m.cycle <= l.cycle
  BY <1>2 DEF Settled, UpToDate, IsNewest
<1>4. m.cycle \in Nat /\ l.cycle \in Nat /\ l # Nothing /\ m # Nothing
  BY <1>2, <1>3, SizeAssumption, NothingAssumption DEF Manifest, Cycles
<1>5. Older(m, l) \/ l = m
  BY <1>2, <1>3, <1>4 DEF Older, Settled, OneRunPerCycle
<1>6. NextTarget(p) \/ (Goto(p, "read_index") /\ UNCHANGED locals)
  BY <1>5 DEF ReadLatest
<1> QED
  BY <1>1, <1>6, DoneStill, GotoStill DEF Phases

LEMMA WriteLatestStill ==
  ASSUME IInv, Settled, NEW p \in Publishers, WriteLatest(p) PROVE Still
<1>1. latest[at[p].dataset] = Content(at[p])
  BY DEF WriteLatest, Settled, Harmless
<1>2. UNCHANGED <<published, latest, index>>
  BY <1>1 DEF WriteLatest, IInv, TypeOK, StoreOK
<1>3. OthersStay(p) /\ pc'[p] = "build" /\ UNCHANGED entries
  BY DEF WriteLatest, Goto, OthersStay, IInv, TypeOK, LocalsOK
<1> QED
  BY <1>2, <1>3, StillStep

LEMMA ReadEntryStill ==
  ASSUME IInv, Settled, NEW p \in Publishers, NEW d \in Datasets, ReadEntry(p, d) PROVE Still
<1>1. UNCHANGED <<published, latest, index>>
  BY DEF ReadEntry, view
<1> QED
  BY <1>1, ReadEntryEntries, StillStep DEF IInv

LEMMA WriteIndexStill ==
  ASSUME IInv, Settled, NEW p \in Publishers, WriteIndex(p) PROVE Still
<1>1. /\ pc[p] = "write_index" /\ index' = entries[p]
      /\ UNCHANGED <<published, latest>> /\ NextTarget(p)
  BY DEF WriteIndex
<1>2. ASSUME NEW d \in Datasets PROVE entries[p][d] = index[d]
  BY <1>1 DEF IInv, LocalInv, EntriesRead, Settled, Harmless, UpToDate
<1>3. entries[p] = index
  BY <1>2 DEF IInv, TypeOK, StoreOK, LocalsOK
<1> QED
  BY <1>1, <1>3, DoneStill

LEMMA NextStill == IInv /\ Settled /\ [Next]_vars /\ UNCHANGED published => Still
<1> SUFFICES ASSUME IInv, Settled, [Next]_vars, UNCHANGED published PROVE Still
  OBVIOUS
<1>1. ASSUME NEW p \in Publishers, BeginPass(p) \/ BeginOperator(p) PROVE Still
  <2>1. PICK t \in Target, operator \in BOOLEAN : Begin(p, t, operator)
    BY <1>1, FirstTypes DEF BeginPass, BeginOperator
  <2>2. /\ OthersStay(p) /\ pc'[p] = "target"
        /\ UNCHANGED <<latest, index, entries>>
    BY <2>1 DEF Begin, Goto, OthersStay, IInv, TypeOK, LocalsOK, view
  <2> QED
    BY <2>2, StillStep
<1>6. ASSUME NEW p \in Publishers, BeginRolling(p) PROVE Still
  <2>1. /\ OthersStay(p) /\ pc'[p] = "build"
        /\ UNCHANGED <<published, latest, index, entries>>
    BY <1>6 DEF BeginRolling, Goto, OthersStay, IInv, TypeOK, LocalsOK, view
  <2> QED
    BY <2>1, StillStep
<1>2. ASSUME NEW p \in Publishers, VisitTarget(p) \/ WriteCurrent(p) \/ ReadIndex(p) PROVE Still
  BY <1>2, DoneStill, GotoStill DEF VisitTarget, WriteCurrent, ReadIndex, Phases, view
<1>3. ASSUME NEW p \in Publishers, Crash(p) \/ Fail(p) PROVE Still
  BY <1>3, DoneStill DEF Crash, Fail, view
<1>4. ASSUME NEW d \in Datasets PROVE ~Publish(d)
  BY DEF Publish, IInv, TypeOK, StoreOK
<1>5. CASE UNCHANGED vars
  BY <1>5 DEF vars, view, locals, Still, Settled, OneRunPerCycle, UpToDate, IsNewest, Harmless, Content
<1> QED
  BY <1>1, <1>2, <1>3, <1>4, <1>5, <1>6, ReadLatestStill, WriteLatestStill, ReadEntryStill, WriteIndexStill
     DEF Next, Step

\* Views that show the newest runs, with no stale publisher at work, stay as they are
\* until another run is published.
THEOREM SettledViewsAreFinal == Spec => SettledViewsStay
<1>1. IInv /\ [Next]_vars =>
        [Settled /\ UNCHANGED published => Settled' /\ UNCHANGED <<latest, index>>]_vars
  BY NextStill DEF Still
<1> QED
  BY <1>1, SpecIInv, PTL DEF Spec, SettledViewsStay
=============================================================================
