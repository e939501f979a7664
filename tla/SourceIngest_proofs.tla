-------------------------- MODULE SourceIngest_proofs --------------------------
(* Theorems about the submission of frames.  GFS: for any cycles, frames and   *)
(* configurations and any number of overlapping invocations.  MRMS: for any    *)
(* messages, batch size and number of receives as well.                        *)
EXTENDS MCSourceIngest, TLAPS

-----------------------------------------------------------------------------
\* GFS: the inductive invariant.

\* The run ids of a cycle are numbered; each but the first was fixed after an expiry.
RunsAreCounted ==
    \A c \in Cycles :
        /\ item[c] <= issued[c]
        /\ item[c] = NoRun => issued[c] <= expired[c]
        /\ item[c] # NoRun => issued[c] <= 1 + expired[c]

\* Invocations and snapshots have run ids that were fixed for their cycle.
RunsAreIssued ==
    /\ \A i \in Invocations :
        step[i] \notin {"idle", "coordinate"} => run[i] <= issued[object[i].cycle]
    /\ \A c \in Cycles, r \in RunIds : snapshot[c][r] # Nothing => r <= issued[c]

\* The configuration that a run has pinned asks for this frame.
Selected(w) ==
    /\ snapshot[w.cycle][w.run] # Nothing
    /\ Wanted(snapshot[w.cycle][w.run], w.frame)

AfterSnapshot == {"plan", "finish", "acquire", "submit", "record"}

\* An invocation past the snapshot works on a frame that is selected, and so is every job's.
WorkIsSelected ==
    /\ \A i \in Invocations : step[i] \in AfterSnapshot => Selected(Of(i))
    /\ \A w \in Work : running[w] > 0 \/ w \in done \cup failed => Selected(w)

\* A frame with a job, or that has had one, or that was left claimed.
Had(w) == running[w] > 0 \/ w \in done \cup failed \cup orphaned

InHand(w) == Had(w) \/ \E i \in Invocations : step[i] = "submit" /\ Of(i) = w

\* Who reports a frame next has seen it complete or submitted it; claimed frames are in hand,
\* and so are those that were reported.
ReportsAreTrue ==
    /\ \A i \in Invocations : step[i] \in {"finish", "record"} => Had(Of(i))
    /\ \A w \in Work : claim[w] = "claimed" => InHand(w)
    /\ \A w \in handled : InHand(w)

IInv == TypeOK /\ RunsAreCounted /\ RunsAreIssued /\ WorkIsSelected /\ ReportsAreTrue

-----------------------------------------------------------------------------
\* What an invocation works on.

LEMMA OfTyped ==
    ASSUME TypeOK, NEW i \in Invocations
    PROVE  /\ step[i] # "idle" => object[i] \in Object /\ object[i].cycle \in Cycles
                                    /\ object[i].frame \in Frames
           /\ step[i] \notin {"idle", "coordinate"} => run[i] \in RunIds /\ Of(i) \in Work
<1>1. step[i] # "idle" => object[i] \in Object
  BY DEF TypeOK
<1>2. step[i] \notin {"idle", "coordinate"} => run[i] \in RunIds
  BY DEF TypeOK
<1> QED
  BY <1>1, <1>2 DEF Object, Work, Of

LEMMA InitIInv == Init => IInv
<1> SUFFICES ASSUME Init PROVE IInv
  OBVIOUS
<1>1. TypeOK
  BY ConfigAssumption, BoundsAssumption, NothingAssumption DEF Init, TypeOK, Steps, RunIds, NoRun
<1>2. RunsAreCounted /\ RunsAreIssued
  BY BoundsAssumption DEF Init, RunsAreCounted, RunsAreIssued, NoRun
<1>3. WorkIsSelected /\ ReportsAreTrue
  BY DEF Init, WorkIsSelected, ReportsAreTrue, AfterSnapshot
<1> QED
  BY <1>1, <1>2, <1>3 DEF IInv

-----------------------------------------------------------------------------
\* The steps of invocations.

\* The run id that an invocation is given.
LEMMA CoordinatedRunBounds ==
    ASSUME IInv, NEW c \in Cycles
    PROVE  /\ CoordinatedRun(c) \in RunIds
           /\ CoordinatedRun(c) >= issued[c] \/ CoordinatedRun(c) = item[c]
           /\ (IF CoordinatedRun(c) > issued[c] THEN CoordinatedRun(c) ELSE issued[c])
                \in issued[c]..(1 + expired[c])
           /\ CoordinatedRun(c) <= (IF CoordinatedRun(c) > issued[c] THEN CoordinatedRun(c)
                                                                     ELSE issued[c])
  BY BoundsAssumption DEF IInv, TypeOK, RunsAreCounted, CoordinatedRun, RunIds, NoRun

LEMMA NotifyStep ==
    ASSUME IInv, NEW i \in Invocations, NEW o \in Object, Notify(i, o)
    PROVE  IInv'
<1> USE DEF coordinator, jobs, history
<1>1. /\ step[i] = "idle" /\ step' = [step EXCEPT ![i] = "coordinate"]
      /\ object' = [object EXCEPT ![i] = o] /\ attempt' = [attempt EXCEPT ![i] = 1]
      /\ notifications < MaxNotifications /\ notifications' = notifications + 1
      /\ UNCHANGED <<deployed, item, issued, expired, snapshot, claim, running, done, failed, run,
                     handled, orphaned, faults, deploys>>
  BY DEF Notify
<1>2. TypeOK'
  BY <1>1, NothingAssumption, BoundsAssumption DEF IInv, TypeOK, Steps, NoRun
<1>3. \A j \in Invocations : step'[j] \notin {"idle", "coordinate"} =>
        j # i /\ step'[j] = step[j] /\ Of(j)' = Of(j) /\ object'[j] = object[j]
  BY <1>1 DEF IInv, TypeOK, Of
<1>4. \A j \in Invocations : step[j] = "submit" => step'[j] = "submit" /\ Of(j)' = Of(j)
  BY <1>1 DEF IInv, TypeOK, Of
<1>5. RunsAreCounted' /\ RunsAreIssued'
  BY <1>1, <1>3 DEF IInv, RunsAreCounted, RunsAreIssued
<1>6. WorkIsSelected'
  BY <1>1, <1>3 DEF IInv, WorkIsSelected, AfterSnapshot, Selected
<1>7. ReportsAreTrue'
  BY <1>1, <1>3, <1>4 DEF IInv, ReportsAreTrue, Had, InHand
<1> QED
  BY <1>2, <1>5, <1>6, <1>7 DEF IInv

LEMMA CoordinateStep ==
    ASSUME IInv, NEW i \in Invocations, Coordinate(i)
    PROVE  IInv'
<1> USE DEF coordinator, jobs, history, bounds
<1> DEFINE c == object[i].cycle
           r == CoordinatedRun(c)
<1>1. /\ step[i] = "coordinate" /\ step' = [step EXCEPT ![i] = "snapshot"]
      /\ item' = [item EXCEPT ![c] = r]
      /\ issued' = [issued EXCEPT ![c] = IF r > @ THEN r ELSE @]
      /\ run' = [run EXCEPT ![i] = r]
      /\ UNCHANGED <<deployed, expired, snapshot, claim, running, done, failed, object, attempt,
                     handled, orphaned, notifications, faults, deploys>>
  BY DEF Coordinate
<1>2. c \in Cycles
  BY <1>1, OfTyped DEF IInv
<1>3. r \in RunIds /\ issued'[c] \in issued[c]..(1 + expired[c]) /\ r <= issued'[c]
      /\ issued'[c] \in RunIds
  <2>1. issued'[c] = IF r > issued[c] THEN r ELSE issued[c]
    BY <1>1, <1>2 DEF IInv, TypeOK
  <2>2. r \in RunIds /\ issued'[c] \in issued[c]..(1 + expired[c]) /\ r <= issued'[c]
    BY <2>1, <1>2, CoordinatedRunBounds
  <2>3. issued[c] \in RunIds \cup {NoRun} /\ expired[c] \in 0..MaxExpiries
    BY <1>2 DEF IInv, TypeOK
  <2> QED
    BY <2>1, <2>2, <2>3, BoundsAssumption DEF RunIds, NoRun
<1> HIDE DEF r, c
<1>4. TypeOK'
  <2>1. item' \in [Cycles -> RunIds \cup {NoRun}] /\ run' \in [Invocations -> RunIds \cup {NoRun}]
    BY <1>1, <1>3 DEF IInv, TypeOK
  <2>2. issued' \in [Cycles -> RunIds \cup {NoRun}]
    <3>1. issued' = [issued EXCEPT ![c] = issued'[c]]
      BY <1>1, <1>2 DEF IInv, TypeOK
    <3> QED
      BY <3>1, <1>3 DEF IInv, TypeOK
  <2>3. step' \in [Invocations -> Steps]
    BY <1>1 DEF IInv, TypeOK, Steps
  <2>4. \A j \in Invocations :
          /\ step'[j] = "idle" <=> object'[j] = Nothing
          /\ step'[j] \in {"idle", "coordinate"} <=> run'[j] = NoRun
    <3>1. run'[i] = r /\ step'[i] = "snapshot" /\ r # NoRun
      BY <1>1, <1>3 DEF IInv, TypeOK, RunIds, NoRun
    <3>2. \A j \in Invocations \ {i} : step'[j] = step[j] /\ run'[j] = run[j]
      BY <1>1 DEF IInv, TypeOK
    <3> QED
      BY <1>1, <3>1, <3>2 DEF IInv, TypeOK
  <2> QED
    BY <1>1, <2>1, <2>2, <2>3, <2>4 DEF IInv, TypeOK
<1>5. ASSUME NEW d \in Cycles PROVE issued[d] <= issued'[d]
  <2>1. issued[d] \in Nat /\ issued[c] \in Nat
    BY <1>2, BoundsAssumption DEF IInv, TypeOK, RunIds, NoRun
  <2>2. d # c => issued'[d] = issued[d]
    BY <1>1 DEF IInv, TypeOK
  <2> QED
    BY <1>3, <2>1, <2>2
<1>6. RunsAreCounted'
  <2>1. ASSUME NEW d \in Cycles, d # c
        PROVE  item'[d] = item[d] /\ issued'[d] = issued[d]
    BY <1>1, <2>1 DEF IInv, TypeOK
  <2>2. item'[c] = r /\ r # NoRun /\ issued'[c] <= 1 + expired[c]
    BY <1>1, <1>2, <1>3 DEF IInv, TypeOK, RunIds, NoRun
  <2> QED
    BY <1>1, <1>3, <2>1, <2>2 DEF IInv, RunsAreCounted
<1>7. RunsAreIssued'
  <2>1. run'[i] <= issued'[object'[i].cycle]
    BY <1>1, <1>3 DEF c, IInv, TypeOK
  <2>2. ASSUME NEW j \in Invocations \ {i}, step'[j] \notin {"idle", "coordinate"}
        PROVE  run'[j] <= issued'[object'[j].cycle]
    <3>1. step'[j] = step[j] /\ run'[j] = run[j] /\ object'[j] = object[j]
      BY <1>1 DEF IInv, TypeOK
    <3>2. object[j].cycle \in Cycles /\ run[j] \in RunIds
      BY <2>2, <3>1, OfTyped DEF IInv
    <3>3. issued[object[j].cycle] \in RunIds \cup {NoRun}
          /\ issued'[object[j].cycle] \in RunIds \cup {NoRun}
      BY <3>2, <1>4 DEF IInv, TypeOK
    <3>4. run[j] <= issued[object[j].cycle]
      BY <2>2, <3>1 DEF IInv, RunsAreIssued
    <3> QED
      BY <3>1, <3>2, <3>3, <3>4, <1>5 DEF RunIds, NoRun
  <2>3. ASSUME NEW d \in Cycles, NEW q \in RunIds, snapshot'[d][q] # Nothing
        PROVE  q <= issued'[d]
    <3>1. q <= issued[d]
      BY <1>1, <2>3 DEF IInv, RunsAreIssued
    <3>2. issued[d] \in RunIds \cup {NoRun} /\ issued'[d] \in RunIds \cup {NoRun}
      BY <1>4 DEF IInv, TypeOK
    <3> QED
      BY <3>1, <3>2, <1>5 DEF RunIds, NoRun
  <2> QED
    BY <2>1, <2>2, <2>3 DEF RunsAreIssued
<1>8. \A j \in Invocations : step'[j] \in AfterSnapshot \/ step[j] \in AfterSnapshot =>
        step'[j] = step[j] /\ Of(j)' = Of(j)
  BY <1>1 DEF IInv, TypeOK, Of, AfterSnapshot
<1>9. WorkIsSelected'
  BY <1>1, <1>8 DEF IInv, WorkIsSelected, Selected
<1>10. ReportsAreTrue'
  BY <1>1, <1>8 DEF IInv, ReportsAreTrue, Had, InHand, AfterSnapshot
<1> QED
  BY <1>4, <1>6, <1>7, <1>9, <1>10 DEF IInv

\* What holds of the invocations after one of them went on or ended.
Moved(i) ==
    /\ step' \in [Invocations -> Steps]
    /\ object' \in [Invocations -> Object \cup {Nothing}]
    /\ attempt' \in [Invocations -> 0..MaxAttempts]
    /\ run' \in [Invocations -> RunIds \cup {NoRun}]
    /\ \A j \in Invocations :
        /\ step'[j] = "idle" <=> object'[j] = Nothing
        /\ step'[j] \in {"idle", "coordinate"} <=> run'[j] = NoRun
        /\ step'[j] \notin {"idle", "coordinate"} =>
            /\ step[j] \notin {"idle", "coordinate"}
            /\ Of(j)' = Of(j) /\ object'[j] = object[j] /\ run'[j] = run[j]
        /\ j # i => step'[j] = step[j] /\ Of(j)' = Of(j)

LEMMA GoMoves ==
    ASSUME TypeOK, NEW i \in Invocations, NEW next \in AfterSnapshot, Go(i, next),
           step[i] \notin {"idle", "coordinate"}
    PROVE  Moved(i) /\ step'[i] = next /\ Of(i)' = Of(i)
<1>1. step' = [step EXCEPT ![i] = next] /\ object' = object /\ attempt' = attempt /\ run' = run
  BY DEF Go
<1>2. next \in Steps /\ next \notin {"idle", "coordinate"}
  BY DEF Steps, AfterSnapshot
<1>3. step' \in [Invocations -> Steps] /\ step'[i] = next
      /\ \A j \in Invocations \ {i} : step'[j] = step[j]
  BY <1>1, <1>2 DEF TypeOK
<1>4. \A j \in Invocations : Of(j)' = Of(j)
  BY <1>1 DEF Of
<1> QED
  BY <1>1, <1>2, <1>3, <1>4 DEF TypeOK, Moved

LEMMA EndMoves ==
    ASSUME TypeOK, NEW i \in Invocations, End(i)
    PROVE  Moved(i) /\ step'[i] = "idle"
<1>1. /\ step' = [step EXCEPT ![i] = "idle"] /\ object' = [object EXCEPT ![i] = Nothing]
      /\ attempt' = [attempt EXCEPT ![i] = 0] /\ run' = [run EXCEPT ![i] = NoRun]
  BY DEF End
<1>2. \A j \in Invocations \ {i} : step'[j] = step[j] /\ object'[j] = object[j] /\ run'[j] = run[j]
                                    /\ Of(j)' = Of(j)
  BY <1>1 DEF TypeOK, Of
<1>3. step'[i] = "idle" /\ object'[i] = Nothing /\ run'[i] = NoRun
  BY <1>1 DEF TypeOK
<1> QED
  BY <1>1, <1>2, <1>3, BoundsAssumption DEF TypeOK, Moved, Steps

\* A step of an invocation that leaves the coordinator, the snapshots and the ended jobs as they
\* are, and claims and reports only what is in hand or will be.
Move(i) ==
    /\ Moved(i)
    /\ step[i] \in AfterSnapshot
    /\ UNCHANGED <<deployed, item, issued, expired, snapshot, done, failed, orphaned,
                   notifications, faults, deploys>>
    /\ claim' \in [Work -> {"none", "claimed", "expired", "complete"}]
    /\ \A w \in Work : claim'[w] = "claimed" =>
        claim[w] = "claimed" \/ (w = Of(i) /\ step'[i] = "submit")
    /\ running' \in [Work -> Nat]
    /\ \A w \in Work : running'[w] >= running[w] /\ (running'[w] # running[w] => w = Of(i))
    /\ handled' = handled \/ (handled' = handled \cup {Of(i)} /\ InHand(Of(i)))
    /\ step[i] = "submit" => running'[Of(i)] > 0
    /\ step'[i] \in {"finish", "record"} => Had(Of(i)) \/ running'[Of(i)] > 0

LEMMA MoveStep ==
    ASSUME IInv, NEW i \in Invocations, Move(i)
    PROVE  IInv'
<1> USE DEF Move
<1>1. step[i] \notin {"idle", "coordinate"} /\ Of(i) \in Work
  BY OfTyped DEF AfterSnapshot, IInv
<1>2. TypeOK'
  <2>1. handled' \subseteq Work
    BY <1>1 DEF IInv, TypeOK
  <2> QED
    BY <2>1 DEF IInv, TypeOK, Moved
<1>3. RunsAreCounted' /\ RunsAreIssued'
  BY DEF IInv, RunsAreCounted, RunsAreIssued, Moved
<1>4. \A w \in Work : running[w] \in Nat /\ running'[w] \in Nat
  BY DEF IInv, TypeOK
<1>5. \A w : Selected(w) => Selected(w)'
  BY DEF Selected
<1>6. WorkIsSelected'
  <2>1. ASSUME NEW j \in Invocations, step'[j] \in AfterSnapshot
        PROVE  Selected(Of(j))'
    <3>1. j = i \/ step[j] \in AfterSnapshot
      BY <2>1 DEF Moved
    <3>2. Selected(Of(j)) /\ Of(j)' = Of(j)
      BY <2>1, <3>1 DEF Moved, AfterSnapshot, IInv, WorkIsSelected
    <3> QED
      BY <3>2 DEF Selected
  <2>2. Selected(Of(i))
    BY DEF IInv, WorkIsSelected
  <2>3. ASSUME NEW w \in Work, running'[w] > 0 \/ w \in (done \cup failed)'
        PROVE  Selected(w)'
    <3>1. running[w] > 0 \/ w \in done \cup failed \/ w = Of(i)
      BY <2>3
    <3>2. Selected(w)
      BY <2>2, <3>1 DEF IInv, WorkIsSelected
    <3> QED
      BY <1>5, <3>2
  <2> QED
    BY <2>1, <2>3 DEF WorkIsSelected
<1>7. \A w \in Work : Had(w) => Had(w)'
  BY <1>4 DEF Had
<1>8. \A w \in Work : InHand(w) => InHand(w)'
  <2> SUFFICES ASSUME NEW w \in Work, InHand(w), ~Had(w) PROVE InHand(w)'
    BY <1>7 DEF InHand
  <2>1. PICK j \in Invocations : step[j] = "submit" /\ Of(j) = w
    BY DEF InHand
  <2>2. CASE j = i
    BY <2>1, <2>2 DEF InHand, Had
  <2>3. CASE j # i
    <3>1. step'[j] = "submit" /\ Of(j)' = w
      BY <2>1, <2>3 DEF Moved
    <3> QED
      BY <3>1 DEF InHand
  <2> QED
    BY <2>2, <2>3
<1>9. ReportsAreTrue'
  <2>1. ASSUME NEW j \in Invocations, step'[j] \in {"finish", "record"}
        PROVE  Had(Of(j))'
    <3>1. CASE j = i
      <4>1. Of(i)' = Of(i)
        BY <2>1, <3>1 DEF Moved
      <4>2. Had(Of(i)) \/ running'[Of(i)] > 0
        BY <2>1, <3>1
      <4>3. CASE running'[Of(i)] > 0
        BY <3>1, <4>1, <4>3 DEF Had
      <4>4. CASE Had(Of(i))
        BY <1>1, <1>7, <3>1, <4>1, <4>4 DEF Had
      <4> QED
        BY <4>2, <4>3, <4>4
    <3>2. CASE j # i
      <4>1. step[j] = step'[j] /\ Of(j)' = Of(j)
        BY <3>2 DEF Moved
      <4>2. Had(Of(j)) /\ Of(j) \in Work
        BY <2>1, <4>1, OfTyped DEF IInv, ReportsAreTrue
      <4> QED
        BY <1>7, <4>1, <4>2 DEF Had
    <3> QED
      BY <3>1, <3>2
  <2>2. ASSUME NEW w \in Work, claim'[w] = "claimed"
        PROVE  InHand(w)'
    <3>1. CASE claim[w] = "claimed"
      BY <1>8, <3>1 DEF IInv, ReportsAreTrue
    <3>2. CASE w = Of(i) /\ step'[i] = "submit"
      <4>1. Of(i)' = Of(i)
        BY <3>2 DEF Moved
      <4> QED
        BY <3>2, <4>1 DEF InHand
    <3> QED
      BY <2>2, <3>1, <3>2
  <2>3. ASSUME NEW w \in handled'
        PROVE  InHand(w)'
    <3>1. CASE w \in handled
      BY <1>8, <3>1 DEF IInv, ReportsAreTrue, TypeOK
    <3>2. CASE w = Of(i) /\ InHand(Of(i))
      BY <1>1, <1>8, <3>2
    <3> QED
      BY <2>3, <3>1, <3>2
  <2> QED
    BY <2>1, <2>2, <2>3 DEF ReportsAreTrue
<1> QED
  BY <1>2, <1>3, <1>6, <1>9 DEF IInv

-----------------------------------------------------------------------------
\* The actions of an invocation past the coordinator.

LEMMA EnsureSnapshotStep ==
    ASSUME IInv, NEW i \in Invocations, EnsureSnapshot(i)
    PROVE  IInv'
<1> USE DEF coordinator, jobs, history, bounds
<1> DEFINE c == object[i].cycle
           r == run[i]
           cfg == Pinned(c, r)
<1>1. /\ step[i] = "snapshot"
      /\ snapshot' = IF snapshot[c][r] = Nothing
                     THEN [snapshot EXCEPT ![c][r] = deployed] ELSE snapshot
      /\ IF Wanted(cfg, object[i].frame) THEN Go(i, "plan") ELSE End(i)
      /\ UNCHANGED <<deployed, item, issued, expired, claim, running, done, failed, handled,
                     orphaned, notifications, faults, deploys>>
  BY DEF EnsureSnapshot
<1>2. c \in Cycles /\ r \in RunIds /\ object[i].frame \in Frames /\ Of(i) \in Work
  BY <1>1, OfTyped DEF IInv
<1>3. deployed \in Configs /\ deployed # Nothing
  BY ConfigAssumption DEF IInv, TypeOK
<1>4. snapshot' \in [Cycles -> [RunIds -> Configs \cup {Nothing}]] /\ snapshot'[c][r] = cfg
      /\ cfg # Nothing
  BY <1>1, <1>2, <1>3 DEF IInv, TypeOK, Pinned
<1>5. \A d \in Cycles, q \in RunIds : snapshot'[d][q] = snapshot[d][q]
        \/ (snapshot[d][q] = Nothing /\ d = c /\ q = r)
  BY <1>1, <1>2 DEF IInv, TypeOK
<1> HIDE DEF cfg
<1>6. Moved(i) /\ ((step'[i] = "plan" /\ Of(i)' = Of(i) /\ Wanted(cfg, object[i].frame))
                     \/ step'[i] = "idle")
  <2>1. CASE Wanted(cfg, object[i].frame)
    BY <1>1, <2>1, GoMoves DEF IInv, AfterSnapshot
  <2>2. CASE ~Wanted(cfg, object[i].frame)
    BY <1>1, <2>2, EndMoves DEF IInv
  <2> QED
    BY <2>1, <2>2
<1>7. TypeOK'
  BY <1>1, <1>4, <1>6 DEF IInv, TypeOK, Moved
<1>8. RunsAreCounted' /\ RunsAreIssued'
  <2>1. r <= issued[c]
    BY <1>1 DEF IInv, RunsAreIssued
  <2> QED
    BY <1>1, <1>5, <1>6, <2>1 DEF IInv, RunsAreCounted, RunsAreIssued, Moved
<1>9. \A w \in Work : Selected(w) => Selected(w)'
  BY <1>5 DEF Selected, Work
<1>10. WorkIsSelected'
  <2>1. ASSUME NEW j \in Invocations, step'[j] \in AfterSnapshot
        PROVE  Selected(Of(j))'
    <3>1. CASE j = i
      <4>1. Of(i)' = Of(i) /\ Wanted(cfg, object[i].frame)
        BY <1>6, <2>1, <3>1 DEF AfterSnapshot
      <4>2. Of(i).cycle = c /\ Of(i).run = r /\ Of(i).frame = object[i].frame
        BY DEF Of
      <4> QED
        BY <1>4, <3>1, <4>1, <4>2 DEF Selected
    <3>2. CASE j # i
      <4>1. step[j] = step'[j] /\ Of(j)' = Of(j)
        BY <1>6, <3>2 DEF Moved
      <4>2. Selected(Of(j)) /\ Of(j) \in Work
        BY <2>1, <4>1, OfTyped DEF IInv, WorkIsSelected, AfterSnapshot
      <4> QED
        BY <1>9, <4>1, <4>2 DEF Selected
    <3> QED
      BY <3>1, <3>2
  <2>2. \A w \in Work : running'[w] > 0 \/ w \in (done \cup failed)' => Selected(w)'
    BY <1>1, <1>9 DEF IInv, WorkIsSelected
  <2> QED
    BY <2>1, <2>2 DEF WorkIsSelected
<1>11. ReportsAreTrue'
  <2>1. \A j \in Invocations : step[j] \in {"submit", "finish", "record"}
                                 \/ step'[j] \in {"submit", "finish", "record"}
          => step'[j] = step[j] /\ Of(j)' = Of(j)
    BY <1>1, <1>6 DEF Moved
  <2> QED
    BY <1>1, <2>1 DEF IInv, ReportsAreTrue, Had, InHand
<1> QED
  BY <1>7, <1>8, <1>10, <1>11 DEF IInv

LEMMA PlanStep ==
    ASSUME IInv, NEW i \in Invocations, Plan(i)
    PROVE  IInv'
<1> USE DEF coordinator, jobs, history, bounds
<1>1. /\ step[i] = "plan"
      /\ UNCHANGED <<deployed, coordinator, snapshot, claim, running, done, failed, bounds>>
      /\ \/ Of(i) \in done /\ Go(i, "finish") /\ UNCHANGED history
         \/ claim[Of(i)] = "claimed" /\ Report(i)
         \/ Go(i, "acquire") /\ UNCHANGED history
  BY DEF Plan
<1>2. Of(i) \in Work
  BY <1>1, OfTyped DEF IInv
<1>3. running' \in [Work -> Nat] /\ \A w \in Work : running'[w] = running[w]
    /\ running'[w] >= running[w]
  BY <1>1 DEF IInv, TypeOK
<1>4. claim' \in [Work -> {"none", "claimed", "expired", "complete"}]
  BY <1>1 DEF IInv, TypeOK
<1>5. CASE Of(i) \in done /\ Go(i, "finish") /\ UNCHANGED history
  <2>1. Moved(i) /\ Had(Of(i))
    BY <1>1, <1>5, GoMoves DEF IInv, AfterSnapshot, Had
  <2> QED
    BY <1>1, <1>3, <1>4, <1>5, <2>1, MoveStep DEF Move, AfterSnapshot
<1>6. CASE claim[Of(i)] = "claimed" /\ Report(i)
  <2>1. Moved(i) /\ step'[i] = "idle"
    BY <1>6, EndMoves DEF IInv, Report
  <2>2. InHand(Of(i))
    BY <1>2, <1>6 DEF IInv, ReportsAreTrue
  <2> QED
    BY <1>1, <1>3, <1>4, <1>6, <2>1, <2>2, MoveStep DEF Move, AfterSnapshot, Report
<1>7. CASE Go(i, "acquire") /\ UNCHANGED history
  <2>1. Moved(i) /\ step'[i] = "acquire"
    BY <1>1, <1>7, GoMoves DEF IInv, AfterSnapshot
  <2> QED
    BY <1>1, <1>3, <1>4, <1>7, <2>1, MoveStep DEF Move, AfterSnapshot
<1> QED
  BY <1>1, <1>5, <1>6, <1>7

LEMMA RecordCompleteStep ==
    ASSUME IInv, NEW i \in Invocations, RecordComplete(i)
    PROVE  IInv'
<1> USE DEF coordinator, jobs, history, bounds
<1>1. /\ step[i] = "finish" /\ claim' = [claim EXCEPT ![Of(i)] = "complete"] /\ Report(i)
      /\ UNCHANGED <<deployed, coordinator, snapshot, running, done, failed, bounds>>
  BY DEF RecordComplete
<1>2. Moved(i) /\ step'[i] = "idle"
  BY <1>1, EndMoves DEF IInv, Report
<1>3. InHand(Of(i))
  BY <1>1 DEF IInv, ReportsAreTrue, InHand
<1>4. /\ claim' \in [Work -> {"none", "claimed", "expired", "complete"}]
      /\ \A w \in Work : claim'[w] = "claimed" => claim[w] = "claimed"
  BY <1>1 DEF IInv, TypeOK
<1>5. /\ running' \in [Work -> Nat]
      /\ \A w \in Work : running'[w] = running[w] /\ running'[w] >= running[w]
  BY <1>1 DEF IInv, TypeOK
<1> QED
  BY <1>1, <1>2, <1>3, <1>4, <1>5, MoveStep DEF Move, AfterSnapshot, Report

LEMMA AcquireStep ==
    ASSUME IInv, NEW i \in Invocations, Acquire(i)
    PROVE  IInv'
<1> USE DEF coordinator, jobs, history, bounds
<1>1. /\ step[i] = "acquire"
      /\ UNCHANGED <<deployed, coordinator, snapshot, running, done, failed, bounds>>
      /\ \/ claim' = [claim EXCEPT ![Of(i)] = "claimed"] /\ Go(i, "submit") /\ UNCHANGED history
         \/ claim[Of(i)] = "claimed" /\ Report(i) /\ UNCHANGED claim
  BY DEF Acquire
<1>2. Of(i) \in Work
  BY <1>1, OfTyped DEF IInv
<1>3. running' \in [Work -> Nat] /\ \A w \in Work : running'[w] = running[w]
    /\ running'[w] >= running[w]
  BY <1>1 DEF IInv, TypeOK
<1>4. CASE claim' = [claim EXCEPT ![Of(i)] = "claimed"] /\ Go(i, "submit") /\ UNCHANGED history
  <2>1. Moved(i) /\ step'[i] = "submit"
    BY <1>1, <1>4, GoMoves DEF IInv, AfterSnapshot
  <2>2. /\ claim' \in [Work -> {"none", "claimed", "expired", "complete"}]
        /\ \A w \in Work : claim'[w] = "claimed" => claim[w] = "claimed" \/ w = Of(i)
    BY <1>4 DEF IInv, TypeOK
  <2> QED
    BY <1>1, <1>3, <1>4, <2>1, <2>2, MoveStep DEF Move, AfterSnapshot
<1>5. CASE claim[Of(i)] = "claimed" /\ Report(i) /\ UNCHANGED claim
  <2>1. Moved(i) /\ step'[i] = "idle"
    BY <1>5, EndMoves DEF IInv, Report
  <2>2. InHand(Of(i))
    BY <1>2, <1>5 DEF IInv, ReportsAreTrue
  <2>3. claim' \in [Work -> {"none", "claimed", "expired", "complete"}]
    BY <1>5 DEF IInv, TypeOK
  <2> QED
    BY <1>1, <1>3, <1>5, <2>1, <2>2, <2>3, MoveStep DEF Move, AfterSnapshot, Report
<1> QED
  BY <1>1, <1>4, <1>5

LEMMA SubmitJobStep ==
    ASSUME IInv, NEW i \in Invocations, SubmitJob(i)
    PROVE  IInv'
<1> USE DEF coordinator, jobs, history, bounds
<1>1. /\ step[i] = "submit" /\ running' = [running EXCEPT ![Of(i)] = @ + 1] /\ Go(i, "record")
      /\ UNCHANGED <<deployed, coordinator, snapshot, claim, done, failed, handled, orphaned,
                     bounds>>
  BY DEF SubmitJob
<1>2. Of(i) \in Work
  BY <1>1, OfTyped DEF IInv
<1>3. Moved(i) /\ step'[i] = "record"
  BY <1>1, GoMoves DEF IInv, AfterSnapshot
<1>4. /\ running' \in [Work -> Nat] /\ running'[Of(i)] > 0
      /\ \A w \in Work : running'[w] >= running[w] /\ (running'[w] # running[w] => w = Of(i))
  BY <1>1, <1>2 DEF IInv, TypeOK
<1>5. claim' \in [Work -> {"none", "claimed", "expired", "complete"}]
  BY <1>1 DEF IInv, TypeOK
<1> QED
  BY <1>1, <1>3, <1>4, <1>5, MoveStep DEF Move, AfterSnapshot

LEMMA RecordSubmissionStep ==
    ASSUME IInv, NEW i \in Invocations, RecordSubmission(i)
    PROVE  IInv'
<1> USE DEF coordinator, jobs, history, bounds
<1>1. /\ step[i] = "record" /\ Report(i)
      /\ UNCHANGED <<deployed, coordinator, snapshot, claim, running, done, failed, bounds>>
  BY DEF RecordSubmission
<1>2. Moved(i) /\ step'[i] = "idle"
  BY <1>1, EndMoves DEF IInv, Report
<1>3. InHand(Of(i))
  BY <1>1 DEF IInv, ReportsAreTrue, InHand
<1>4. /\ claim' \in [Work -> {"none", "claimed", "expired", "complete"}]
      /\ running' \in [Work -> Nat]
      /\ \A w \in Work : running'[w] = running[w] /\ running'[w] >= running[w]
  BY <1>1 DEF IInv, TypeOK
<1> QED
  BY <1>1, <1>2, <1>3, <1>4, MoveStep DEF Move, AfterSnapshot, Report

\* A fault: the invocation starts again with its object, or is dropped.
LEMMA FailStep ==
    ASSUME IInv, NEW i \in Invocations, Fail(i)
    PROVE  IInv'
<1> USE DEF coordinator, jobs
<1>1. /\ step[i] # "idle" /\ faults < MaxFaults /\ faults' = faults + 1
      /\ \/ /\ step' = [step EXCEPT ![i] = "coordinate"]
            /\ attempt[i] < MaxAttempts /\ attempt' = [attempt EXCEPT ![i] = @ + 1]
            /\ run' = [run EXCEPT ![i] = NoRun] /\ object' = object
         \/ End(i)
      /\ orphaned' = IF step[i] = "submit" THEN orphaned \cup {Of(i)} ELSE orphaned
      /\ UNCHANGED <<deployed, item, issued, expired, snapshot, claim, running, done, failed,
                     handled, notifications, deploys>>
  BY DEF Fail
<1>2. Moved(i) /\ step'[i] \in {"idle", "coordinate"}
  <2>1. CASE End(i)
    BY <2>1, EndMoves DEF IInv
  <2>2. CASE /\ step' = [step EXCEPT ![i] = "coordinate"]
             /\ attempt[i] < MaxAttempts /\ attempt' = [attempt EXCEPT ![i] = @ + 1]
             /\ run' = [run EXCEPT ![i] = NoRun] /\ object' = object
    <3>1. /\ step' \in [Invocations -> Steps] /\ step'[i] = "coordinate"
          /\ run' \in [Invocations -> RunIds \cup {NoRun}] /\ run'[i] = NoRun
          /\ \A j \in Invocations \ {i} : step'[j] = step[j] /\ run'[j] = run[j]
                                           /\ Of(j)' = Of(j)
      BY <2>2 DEF IInv, TypeOK, Steps, Of
    <3>2. attempt' \in [Invocations -> 0..MaxAttempts]
      BY <2>2, BoundsAssumption DEF IInv, TypeOK
    <3>3. object[i] # Nothing
      BY <1>1 DEF IInv, TypeOK
    <3> QED
      BY <2>2, <3>1, <3>2, <3>3 DEF IInv, TypeOK, Moved
  <2> QED
    BY <1>1, <2>1, <2>2
<1>3. orphaned' \subseteq Work /\ orphaned \subseteq orphaned'
  BY <1>1, OfTyped DEF IInv, TypeOK
<1>4. TypeOK'
  BY <1>1, <1>2, <1>3, BoundsAssumption DEF IInv, TypeOK, Moved
<1>5. RunsAreCounted' /\ RunsAreIssued'
  BY <1>1, <1>2 DEF IInv, RunsAreCounted, RunsAreIssued, Moved
<1>6. WorkIsSelected'
  <2>1. \A w : Selected(w) => Selected(w)'
    BY <1>1 DEF Selected
  <2>2. \A j \in Invocations : step'[j] \in AfterSnapshot =>
          step[j] \in AfterSnapshot /\ Of(j)' = Of(j)
    BY <1>2 DEF Moved, AfterSnapshot
  <2>3. \A j \in Invocations : step'[j] \in AfterSnapshot => Selected(Of(j))'
    BY <1>1, <2>2 DEF IInv, WorkIsSelected, Selected
  <2> QED
    BY <1>1, <2>1, <2>3 DEF IInv, WorkIsSelected
<1>7. \A w \in Work : Had(w) => Had(w)'
  BY <1>1, <1>3 DEF Had
<1>8. ASSUME NEW w \in Work, InHand(w)
      PROVE  InHand(w)'
  <2>1. CASE Had(w)
    BY <1>7, <2>1 DEF InHand
  <2>2. ASSUME NEW j \in Invocations, step[j] = "submit", Of(j) = w
        PROVE  InHand(w)'
    <3>1. CASE j = i
      BY <1>1, <2>2, <3>1 DEF InHand, Had
    <3>2. CASE j # i
      <4>1. step'[j] = "submit" /\ Of(j)' = w
        BY <1>2, <2>2, <3>2 DEF Moved
      <4> QED
        BY <4>1 DEF InHand
    <3> QED
      BY <3>1, <3>2
  <2> QED
    BY <1>8, <2>1, <2>2 DEF InHand
<1>9. ReportsAreTrue'
  <2>1. ASSUME NEW j \in Invocations, step'[j] \in {"finish", "record"}
        PROVE  Had(Of(j))'
    <3>1. step[j] = step'[j] /\ Of(j)' = Of(j)
      BY <1>2, <2>1 DEF Moved
    <3>2. Had(Of(j)) /\ Of(j) \in Work
      BY <2>1, <3>1, OfTyped DEF IInv, ReportsAreTrue
    <3> QED
      BY <1>7, <3>1, <3>2 DEF Had
  <2>2. \A w \in Work : claim'[w] = "claimed" => InHand(w)'
    BY <1>1, <1>8 DEF IInv, ReportsAreTrue
  <2>3. \A w \in handled' : InHand(w)'
    BY <1>1, <1>8 DEF IInv, ReportsAreTrue, TypeOK
  <2> QED
    BY <2>1, <2>2, <2>3 DEF ReportsAreTrue
<1> QED
  BY <1>4, <1>5, <1>6, <1>9 DEF IInv

-----------------------------------------------------------------------------
\* The environment.

\* A step that leaves invocations and snapshots alone and takes nothing from what was had.
LEMMA OutsideStep ==
    ASSUME IInv, TypeOK', RunsAreCounted',
           UNCHANGED <<invocation, snapshot, issued, history>>,
           \A w \in Work : running'[w] > 0 \/ w \in (done \cup failed)' =>
               running[w] > 0 \/ w \in done \cup failed,
           \A w \in Work : Had(w) => Had(w)',
           \A w \in Work : claim'[w] = "claimed" => claim[w] = "claimed"
    PROVE  IInv'
<1> USE DEF invocation, history
<1>1. \A i \in Invocations : Of(i)' = Of(i)
  BY DEF Of
<1>2. RunsAreIssued'
  BY DEF IInv, RunsAreIssued
<1>3. WorkIsSelected'
  BY <1>1 DEF IInv, WorkIsSelected, Selected
<1>4. \A w \in Work : InHand(w) => InHand(w)'
  BY <1>1 DEF InHand
<1>5. ReportsAreTrue'
  <2>1. ASSUME NEW i \in Invocations, step'[i] \in {"finish", "record"}
        PROVE  Had(Of(i))'
    <3>1. Had(Of(i)) /\ Of(i) \in Work
      BY <2>1, OfTyped DEF IInv, ReportsAreTrue
    <3> QED
      BY <1>1, <3>1 DEF Had
  <2>2. \A w \in Work : claim'[w] = "claimed" => InHand(w)'
    BY <1>4 DEF IInv, ReportsAreTrue
  <2>3. \A w \in handled' : InHand(w)'
    BY <1>4 DEF IInv, ReportsAreTrue, TypeOK
  <2> QED
    BY <2>1, <2>2, <2>3 DEF ReportsAreTrue
<1> QED
  BY <1>2, <1>3, <1>5 DEF IInv

LEMMA JobStep ==
    ASSUME IInv, NEW w \in Work, JobSucceeds(w) \/ JobFails(w)
    PROVE  IInv'
<1> USE DEF coordinator, jobs, invocation, history, bounds
<1>1. /\ running[w] > 0 /\ running' = [running EXCEPT ![w] = @ - 1]
      /\ \/ done' = done \cup {w} /\ failed' = failed
         \/ failed' = failed \cup {w} /\ done' = done
      /\ UNCHANGED <<deployed, coordinator, snapshot, claim, invocation, history, bounds>>
  BY DEF JobSucceeds, JobFails
<1>2. /\ running' \in [Work -> Nat]
      /\ \A v \in Work : running'[v] > 0 => running[v] > 0
      /\ \A v \in Work : v # w => running'[v] = running[v]
  BY <1>1 DEF IInv, TypeOK
<1>3. TypeOK'
  BY <1>1, <1>2 DEF IInv, TypeOK
<1>4. RunsAreCounted'
  BY <1>1 DEF IInv, RunsAreCounted
<1>5. \A v \in Work : Had(v) => Had(v)'
  BY <1>1, <1>2 DEF Had
<1>6. \A v \in Work : running'[v] > 0 \/ v \in (done \cup failed)' =>
        running[v] > 0 \/ v \in done \cup failed
  BY <1>1, <1>2
<1> QED
  BY <1>1, <1>3, <1>4, <1>5, <1>6, OutsideStep

LEMMA ClockStep ==
    ASSUME IInv, (\E w \in Work : ClaimExpires(w)) \/ (\E c \in Cycles : ItemExpires(c)) \/ Deploy
    PROVE  IInv'
<1> USE DEF coordinator, jobs, invocation, history, bounds
<1>1. /\ UNCHANGED <<invocation, snapshot, issued, history, running, done, failed>>
      /\ TypeOK' /\ RunsAreCounted'
      /\ \A w \in Work : claim'[w] = "claimed" => claim[w] = "claimed"
  <2>1. ASSUME NEW w \in Work, ClaimExpires(w)
        PROVE  /\ UNCHANGED <<invocation, snapshot, issued, history, running, done, failed>>
               /\ TypeOK' /\ RunsAreCounted'
               /\ \A v \in Work : claim'[v] = "claimed" => claim[v] = "claimed"
    BY <2>1 DEF ClaimExpires, IInv, TypeOK, RunsAreCounted
  <2>2. ASSUME NEW c \in Cycles, ItemExpires(c)
        PROVE  /\ UNCHANGED <<invocation, snapshot, issued, history, running, done, failed>>
               /\ TypeOK' /\ RunsAreCounted'
               /\ \A v \in Work : claim'[v] = "claimed" => claim[v] = "claimed"
    <3>1. /\ item[c] # NoRun /\ expired[c] < MaxExpiries
          /\ expired' = [expired EXCEPT ![c] = @ + 1] /\ item' = [item EXCEPT ![c] = NoRun]
          /\ UNCHANGED <<deployed, issued, snapshot, claim, jobs, invocation, history, bounds>>
      BY <2>2 DEF ItemExpires
    <3>2. expired' \in [Cycles -> 0..MaxExpiries] /\ item' \in [Cycles -> RunIds \cup {NoRun}]
      BY <3>1, BoundsAssumption DEF IInv, TypeOK
    <3>3. TypeOK'
      BY <3>1, <3>2 DEF IInv, TypeOK
    <3>4. RunsAreCounted'
      <4> SUFFICES ASSUME NEW d \in Cycles
                   PROVE  /\ item'[d] <= issued'[d]
                          /\ item'[d] = NoRun => issued'[d] <= expired'[d]
                          /\ item'[d] # NoRun => issued'[d] <= 1 + expired'[d]
        BY DEF RunsAreCounted
      <4>1. issued[d] \in Nat /\ expired[d] \in Nat /\ issued'[d] = issued[d]
        BY <3>1, BoundsAssumption DEF IInv, TypeOK, RunIds, NoRun
      <4>2. issued[d] <= 1 + expired[d]
        BY <4>1 DEF IInv, RunsAreCounted
      <4>3. CASE d = c
        <5>1. item'[d] = NoRun /\ expired'[d] = expired[d] + 1
          BY <3>1, <4>3 DEF IInv, TypeOK
        <5> QED
          BY <4>1, <4>2, <5>1 DEF NoRun
      <4>4. CASE d # c
        <5>1. item'[d] = item[d] /\ expired'[d] = expired[d]
          BY <3>1, <4>4 DEF IInv, TypeOK
        <5> QED
          BY <4>1, <5>1 DEF IInv, RunsAreCounted
      <4> QED
        BY <4>3, <4>4
    <3> QED
      BY <3>1, <3>3, <3>4
  <2>3. CASE Deploy
    BY <2>3, BoundsAssumption DEF Deploy, IInv, TypeOK, RunsAreCounted
  <2> QED
    BY <2>1, <2>2, <2>3
<1>2. \A w \in Work : Had(w) => Had(w)'
  BY <1>1 DEF Had
<1> QED
  BY <1>1, <1>2, OutsideStep

LEMMA NextIInv == IInv /\ [Next]_vars => IInv'
<1> SUFFICES ASSUME IInv, [Next]_vars PROVE IInv'
  OBVIOUS
<1>1. ASSUME NEW i \in Invocations, Handle(i)
      PROVE  IInv'
  BY <1>1, CoordinateStep, EnsureSnapshotStep, PlanStep, RecordCompleteStep, AcquireStep,
     SubmitJobStep, RecordSubmissionStep DEF Handle
<1>2. ASSUME NEW i \in Invocations, Fail(i) \/ \E o \in Object : Notify(i, o)
      PROVE  IInv'
  BY <1>2, FailStep, NotifyStep
<1>3. CASE Job
  BY <1>3, JobStep DEF Job
<1>4. CASE (\E w \in Work : ClaimExpires(w)) \/ (\E c \in Cycles : ItemExpires(c)) \/ Deploy
  BY <1>4, ClockStep
<1>5. CASE UNCHANGED vars
  <2> USE <1>5 DEF vars, coordinator, jobs, invocation, history, bounds
  <2>1. TypeOK' /\ RunsAreCounted'
    BY DEF IInv, TypeOK, RunsAreCounted
  <2>2. \A w \in Work : Had(w) => Had(w)'
    BY DEF Had
  <2> QED
    BY <2>1, <2>2, OutsideStep
<1> QED
  BY <1>1, <1>2, <1>3, <1>4, <1>5 DEF Next

LEMMA Invariance == Spec => []IInv
  BY InitIInv, NextIInv, PTL DEF Spec

-----------------------------------------------------------------------------
\* GFS: the results.

\* Every variable keeps its type.
THEOREM TypeCorrect == Spec => []TypeOK
<1>1. IInv => TypeOK
  BY DEF IInv
<1> QED
  BY Invariance, <1>1, PTL

\* However many notifications of a cycle overlap, are repeated or fail half way, a cycle has one
\* run, and one more for each time its item in the coordinator expired (dynamo_coordinator.py).
THEOREM CyclesHaveOneRun == Spec => []OneRunPerCycle
<1>1. IInv => OneRunPerCycle
  <2> SUFFICES ASSUME IInv, NEW c \in Cycles, NEW r \in RunIds, snapshot[c][r] # Nothing
               PROVE  r <= 1 + expired[c]
    BY DEF OneRunPerCycle
  <2>1. r <= issued[c]
    BY DEF IInv, RunsAreIssued
  <2>2. issued[c] \in Nat /\ expired[c] \in Nat /\ r \in Nat
    BY BoundsAssumption DEF IInv, TypeOK, RunIds, NoRun
  <2>3. issued[c] <= 1 + expired[c]
    BY <2>2 DEF IInv, RunsAreCounted
  <2> QED
    BY <2>1, <2>2, <2>3
<1> QED
  BY Invariance, <1>1, PTL

\* Jobs are for frames that the configuration pinned for their run selects, whatever is deployed
\* between the notification and the job (submit_gfs_source.py:72-108).
THEOREM JobsArePinned == Spec => []PinnedSelection
<1>1. IInv => PinnedSelection
  BY DEF IInv, WorkIsSelected, Selected, PinnedSelection
<1> QED
  BY Invariance, <1>1, PTL

\* A frame that was reported as in hand has a job, had one, is about to get one, or its claim was
\* left by an invocation that died before it submitted.
THEOREM NothingIsLost == Spec => []NoSilentLoss
<1>1. IInv => NoSilentLoss
  BY DEF IInv, ReportsAreTrue, InHand, Had, NoSilentLoss
<1> QED
  BY Invariance, <1>1, PTL

-----------------------------------------------------------------------------
\* MRMS: the inductive invariant.

MrmsWorking == {"snapshot", "plan", "finish", "acquire", "submit", "record"}

\* What an invocation works on is one of the messages it still has, with a configuration.
MrmsInvocationsTyped ==
    /\ mBatch \in [Invocations -> SUBSET MrmsMessage]
    /\ mTodo \in [Invocations -> SUBSET MrmsMessage]
    /\ mStep \in [Invocations -> MrmsWorking \cup {"idle", "next"}]
    /\ DOMAIN mAt = Invocations /\ DOMAIN mCfg = Invocations
    /\ \A i \in Invocations : mStep[i] \in MrmsWorking => mAt[i] \in MrmsMessage
        /\ mCfg[i] \in Configs

MrmsStateTyped ==
    /\ mDeployed \in Configs
    /\ mPlace \in [MrmsMessage -> {"source", "visible", "taken", "deleted", "dead"}]
    /\ mSnapshot \in [MrmsFrames -> Configs \cup {Nothing}]
    /\ DOMAIN mClaim = MrmsFrames
    /\ mRunning \in [MrmsFrames -> Nat]

MrmsHad(f) == mRunning[f] > 0 \/ f \in mDone \cup mFailed \cup mOrphaned

MrmsInHand(f) == MrmsHad(f) \/ \E i \in Invocations : mStep[i] = "submit" /\ mAt[i].frame = f

\* The frame is not wanted, or in hand.
MrmsSettled(f) == (mSnapshot[f] # Nothing /\ ~HasMrmsWork[mSnapshot[f]]) \/ MrmsInHand(f)

\* Claims are held for frames in hand, and who finishes a frame has seen or submitted its job.
MrmsClaimsAreTrue ==
    /\ \A f \in MrmsFrames : mClaim[f] = "claimed" => MrmsInHand(f)
    /\ \A i \in Invocations : mStep[i] \in {"finish", "record"} => MrmsHad(mAt[i].frame)

\* The messages an invocation is through with are settled, and so are the deleted ones.
MrmsMessagesAreSettled ==
    /\ \A i \in Invocations : \A m \in mBatch[i] \ mTodo[i] : MrmsSettled(m.frame)
    /\ \A m \in MrmsMessage : mPlace[m] = "deleted" => MrmsSettled(m.frame)

MrmsIInv ==
    MrmsInvocationsTyped /\ MrmsStateTyped /\ MrmsClaimsAreTrue /\ MrmsMessagesAreSettled

LEMMA MrmsInitIInv == Mrms!Init => MrmsIInv
<1> SUFFICES ASSUME Mrms!Init PROVE MrmsIInv
  OBVIOUS
<1>1. MrmsInvocationsTyped
  BY DEF Mrms!Init, MrmsInvocationsTyped, MrmsWorking
<1>2. MrmsStateTyped
  BY ConfigAssumption DEF Mrms!Init, MrmsStateTyped
<1>3. MrmsClaimsAreTrue /\ MrmsMessagesAreSettled
  BY DEF Mrms!Init, MrmsClaimsAreTrue, MrmsMessagesAreSettled
<1> QED
  BY <1>1, <1>2, <1>3 DEF MrmsIInv

-----------------------------------------------------------------------------
\* MRMS: what a step may do.

\* Nothing that was had is lost, a snapshot stays, and whoever was about to submit is, or did.
MrmsKeeps ==
    /\ \A f \in MrmsFrames : MrmsHad(f) => MrmsHad(f)'
    /\ \A f \in MrmsFrames : mSnapshot[f] # Nothing => mSnapshot'[f] = mSnapshot[f]
    /\ \A i \in Invocations : mStep[i] = "submit" =>
        \/ mStep'[i] = "submit" /\ mAt'[i] = mAt[i]
        \/ mRunning'[mAt[i].frame] > 0
        \/ mAt[i].frame \in mOrphaned'

LEMMA MrmsKeepsSettled ==
    ASSUME MrmsIInv, MrmsKeeps, NEW f \in MrmsFrames
    PROVE  (MrmsInHand(f) => MrmsInHand(f)') /\ (MrmsSettled(f) => MrmsSettled(f)')
<1>1. ASSUME MrmsInHand(f) PROVE MrmsInHand(f)'
  <2>1. CASE MrmsHad(f)
    BY <2>1 DEF MrmsKeeps, MrmsInHand
  <2>2. ASSUME NEW i \in Invocations, mStep[i] = "submit", mAt[i].frame = f
        PROVE  MrmsInHand(f)'
    BY <2>2 DEF MrmsKeeps, MrmsInHand, MrmsHad
  <2> QED
    BY <1>1, <2>1, <2>2 DEF MrmsInHand
<1>2. ASSUME mSnapshot[f] # Nothing, ~HasMrmsWork[mSnapshot[f]] PROVE MrmsSettled(f)'
  BY <1>2 DEF MrmsKeeps, MrmsSettled
<1> QED
  BY <1>1, <1>2 DEF MrmsSettled

\* A step that keeps what there is and only adds messages that are settled, claims of frames in
\* hand, and invocations that finish a frame they had.
LEMMA MrmsKeepsIInv ==
    ASSUME MrmsIInv, MrmsKeeps, MrmsInvocationsTyped', MrmsStateTyped',
           \A f \in MrmsFrames : mClaim'[f] = "claimed" => mClaim[f] = "claimed" \/ MrmsInHand(f)',
           \A i \in Invocations : mStep'[i] \in {"finish", "record"} => MrmsHad(mAt[i].frame)'
                                    \/ (mStep[i] = mStep'[i] /\ mAt'[i] = mAt[i]),
           \A i \in Invocations : \A m \in (mBatch[i] \ mTodo[i])' :
               m \in mBatch[i] \ mTodo[i] \/ MrmsSettled(m.frame)',
           \A m \in MrmsMessage : mPlace'[m] = "deleted"
               => mPlace[m] = "deleted" \/ MrmsSettled(m.frame)'
    PROVE  MrmsIInv'
<1>2. \A m \in MrmsMessage : m.frame \in MrmsFrames
  BY MrmsAssumption
<1>3. MrmsClaimsAreTrue'
  <2>1. \A f \in MrmsFrames : mClaim'[f] = "claimed" => MrmsInHand(f)'
    BY MrmsKeepsSettled DEF MrmsIInv, MrmsClaimsAreTrue
  <2>2. ASSUME NEW i \in Invocations, mStep'[i] \in {"finish", "record"},
               mStep[i] = mStep'[i], mAt'[i] = mAt[i]
        PROVE  MrmsHad(mAt[i].frame)'
    <3>1. PICK f : f = mAt[i].frame
      OBVIOUS
    <3>2. MrmsHad(f) /\ f \in MrmsFrames
      BY <1>2, <2>2, <3>1 DEF MrmsIInv, MrmsClaimsAreTrue, MrmsInvocationsTyped, MrmsWorking
    <3> QED
      BY <2>2, <3>1, <3>2 DEF MrmsKeeps, MrmsHad
  <2> QED
    BY <2>1, <2>2 DEF MrmsClaimsAreTrue
<1>4. MrmsMessagesAreSettled'
  <2>1. ASSUME NEW i \in Invocations, NEW m \in (mBatch[i] \ mTodo[i])'
        PROVE  MrmsSettled(m.frame)'
    <3>1. m \in MrmsMessage
      BY DEF MrmsInvocationsTyped
    <3>2. m \in mBatch[i] \ mTodo[i] => MrmsSettled(m.frame)'
      BY <1>2, <3>1, MrmsKeepsSettled DEF MrmsIInv, MrmsMessagesAreSettled
    <3> QED
      BY <2>1, <3>2
  <2>2. ASSUME NEW m \in MrmsMessage, mPlace'[m] = "deleted"
        PROVE  MrmsSettled(m.frame)'
    <3>1. mPlace[m] = "deleted" => MrmsSettled(m.frame)'
      BY <1>2, MrmsKeepsSettled DEF MrmsIInv, MrmsMessagesAreSettled
    <3> QED
      BY <2>2, <3>1
  <2> QED
    BY <2>1, <2>2 DEF MrmsMessagesAreSettled
<1> QED
  BY <1>3, <1>4 DEF MrmsIInv

-----------------------------------------------------------------------------
\* MRMS: how invocations move.

MrmsOthers(i) ==
    \A j \in Invocations \ {i} :
        mStep'[j] = mStep[j] /\ mAt'[j] = mAt[j] /\ mBatch'[j] = mBatch[j] /\ mTodo'[j] = mTodo[j]

LEMMA MrmsGoMoves ==
    ASSUME MrmsIInv, NEW i \in Invocations, NEW next \in MrmsWorking, Mrms!Go(i, next),
           mStep[i] \in MrmsWorking
    PROVE  /\ MrmsInvocationsTyped' /\ MrmsOthers(i)
           /\ mStep'[i] = next /\ mAt'[i] = mAt[i] /\ mBatch'[i] = mBatch[i] /\ mTodo'[i] = mTodo[i]
  BY DEF MrmsIInv, MrmsInvocationsTyped, Mrms!Go, MrmsOthers, MrmsWorking

LEMMA MrmsFinishMoves ==
    ASSUME MrmsIInv, NEW i \in Invocations, Mrms!Finish(i)
    PROVE  /\ MrmsInvocationsTyped' /\ MrmsOthers(i)
           /\ mStep'[i] = "next" /\ mBatch'[i] = mBatch[i] /\ mTodo'[i] = mTodo[i] \ {mAt[i]}
  BY DEF MrmsIInv, MrmsInvocationsTyped, Mrms!Finish, MrmsOthers, MrmsWorking

LEMMA MrmsLeaveMoves ==
    ASSUME MrmsIInv, NEW i \in Invocations, Mrms!Leave(i)
    PROVE  MrmsInvocationsTyped' /\ MrmsOthers(i) /\ mStep'[i] = "idle" /\ mBatch'[i] = {}
  BY DEF MrmsIInv, MrmsInvocationsTyped, Mrms!Leave, MrmsOthers, MrmsWorking

\* A step of an invocation that submits nothing it had claimed, unless it submits it now or
\* leaves it behind.
LEMMA MrmsInvocationKeeps ==
    ASSUME MrmsIInv, NEW i \in Invocations, MrmsOthers(i),
           \A f \in MrmsFrames : mRunning'[f] >= mRunning[f],
           mDone' = mDone, mFailed' = mFailed, mOrphaned \subseteq mOrphaned',
           \A f \in MrmsFrames : mSnapshot[f] # Nothing => mSnapshot'[f] = mSnapshot[f],
           mStep[i] = "submit" =>
               mRunning'[mAt[i].frame] > 0 \/ mAt[i].frame \in mOrphaned',
           \A f \in MrmsFrames : mRunning'[f] \in Nat
    PROVE  MrmsKeeps
<1>1. \A f \in MrmsFrames : MrmsHad(f) => MrmsHad(f)'
  BY DEF MrmsIInv, MrmsStateTyped, MrmsHad
<1> QED
  BY <1>1 DEF MrmsKeeps, MrmsOthers

LEMMA MrmsAtFrame ==
    ASSUME MrmsIInv, NEW i \in Invocations, mStep[i] \in MrmsWorking
    PROVE  mAt[i] \in MrmsMessage /\ mAt[i].frame \in MrmsFrames /\ mCfg[i] \in Configs
  BY MrmsAssumption DEF MrmsIInv, MrmsInvocationsTyped

-----------------------------------------------------------------------------
\* The steps of invocations.

\* The message in hand is finished with: its frame is settled.
LEMMA MrmsFinishStep ==
    ASSUME MrmsIInv, NEW i \in Invocations, Mrms!Finish(i), mStep[i] \in MrmsWorking \ {"submit"},
           UNCHANGED <<mDeployed, Mrms!queue, mRunning, mDone, mFailed, mOrphaned>>,
           mSnapshot' \in [MrmsFrames -> Configs \cup {Nothing}],
           \A f \in MrmsFrames : mSnapshot[f] # Nothing => mSnapshot'[f] = mSnapshot[f],
           DOMAIN mClaim' = MrmsFrames,
           \A f \in MrmsFrames : mClaim'[f] = "claimed" => mClaim[f] = "claimed",
           \/ MrmsInHand(mAt[i].frame)
           \/ (mSnapshot'[mAt[i].frame] # Nothing /\ ~HasMrmsWork[mSnapshot'[mAt[i].frame]])
    PROVE  MrmsIInv'
<1> USE DEF Mrms!queue
<1>1. /\ MrmsInvocationsTyped' /\ MrmsOthers(i)
      /\ mStep'[i] = "next" /\ mBatch'[i] = mBatch[i] /\ mTodo'[i] = mTodo[i] \ {mAt[i]}
  BY MrmsFinishMoves
<1>2. MrmsKeeps
  BY <1>1, MrmsInvocationKeeps DEF MrmsIInv, MrmsStateTyped
<1>3. MrmsStateTyped'
  BY DEF MrmsIInv, MrmsStateTyped
<1>4. PICK f \in MrmsFrames : f = mAt[i].frame
  BY MrmsAtFrame
<1>5. MrmsSettled(f)'
  <2>1. CASE MrmsInHand(f)
    BY <1>2, <2>1, MrmsKeepsSettled DEF MrmsSettled
  <2>2. CASE mSnapshot'[f] # Nothing /\ ~HasMrmsWork[mSnapshot'[f]]
    BY <2>2 DEF MrmsSettled
  <2> QED
    BY <1>4, <2>1, <2>2
<1>6. ASSUME NEW j \in Invocations, NEW m \in (mBatch[j] \ mTodo[j])'
      PROVE  m \in mBatch[j] \ mTodo[j] \/ MrmsSettled(m.frame)'
  <2>1. CASE j = i /\ m = mAt[i]
    BY <1>4, <1>5, <2>1
  <2>2. CASE ~(j = i /\ m = mAt[i])
    BY <1>1, <2>2 DEF MrmsOthers
  <2> QED
    BY <2>1, <2>2
<1>7. \A j \in Invocations : mStep'[j] \in {"finish", "record"} =>
        mStep[j] = mStep'[j] /\ mAt'[j] = mAt[j]
  BY <1>1 DEF MrmsOthers
<1> QED
  BY <1>1, <1>2, <1>3, <1>6, <1>7, MrmsKeepsIInv

\* The invocation goes on with its message.
LEMMA MrmsGoStep ==
    ASSUME MrmsIInv, NEW i \in Invocations, NEW next \in MrmsWorking, Mrms!Go(i, next),
           mStep[i] \in MrmsWorking,
           UNCHANGED <<mDeployed, Mrms!queue, mDone, mFailed, mOrphaned>>,
           mSnapshot' \in [MrmsFrames -> Configs \cup {Nothing}],
           \A f \in MrmsFrames : mSnapshot[f] # Nothing => mSnapshot'[f] = mSnapshot[f],
           DOMAIN mClaim' = MrmsFrames,
           \A f \in MrmsFrames : mClaim'[f] = "claimed" =>
               mClaim[f] = "claimed" \/ (next = "submit" /\ f = mAt[i].frame),
           mRunning' \in [MrmsFrames -> Nat],
           \A f \in MrmsFrames : mRunning'[f] >= mRunning[f],
           mStep[i] = "submit" => mRunning'[mAt[i].frame] > 0,
           next \in {"finish", "record"} =>
               mRunning'[mAt[i].frame] > 0 \/ mAt[i].frame \in mDone
    PROVE  MrmsIInv'
<1> USE DEF Mrms!queue
<1>1. /\ MrmsInvocationsTyped' /\ MrmsOthers(i)
      /\ mStep'[i] = next /\ mAt'[i] = mAt[i] /\ mBatch'[i] = mBatch[i] /\ mTodo'[i] = mTodo[i]
  BY MrmsGoMoves
<1>2. MrmsKeeps
  BY <1>1, MrmsInvocationKeeps
<1>3. MrmsStateTyped'
  BY DEF MrmsIInv, MrmsStateTyped
<1>4. \A f \in MrmsFrames : mClaim'[f] = "claimed" => mClaim[f] = "claimed" \/ MrmsInHand(f)'
  BY <1>1 DEF MrmsInHand
<1>5. ASSUME NEW j \in Invocations, mStep'[j] \in {"finish", "record"}
      PROVE  MrmsHad(mAt[j].frame)' \/ (mStep[j] = mStep'[j] /\ mAt'[j] = mAt[j])
  <2>1. CASE j = i
    BY <1>1, <1>5, <2>1 DEF MrmsHad
  <2>2. CASE j # i
    BY <1>1, <2>2 DEF MrmsOthers
  <2> QED
    BY <2>1, <2>2
<1>6. \A j \in Invocations : \A m \in (mBatch[j] \ mTodo[j])' : m \in mBatch[j] \ mTodo[j]
  BY <1>1 DEF MrmsOthers
<1> QED
  BY <1>1, <1>2, <1>3, <1>4, <1>5, <1>6, MrmsKeepsIInv

\* The invocation ends; the messages it deletes are all settled.
LEMMA MrmsLeaveStep ==
    ASSUME MrmsIInv, NEW i \in Invocations, Mrms!Leave(i),
           UNCHANGED <<mDeployed, mClaim, mRunning, mDone, mFailed>>,
           mSnapshot' = mSnapshot, mOrphaned \subseteq mOrphaned',
           mStep[i] = "submit" => mAt[i].frame \in mOrphaned',
           mPlace' \in [MrmsMessage -> {"source", "visible", "taken", "deleted", "dead"}],
           \A m \in MrmsMessage : mPlace'[m] = "deleted" =>
               mPlace[m] = "deleted" \/ (m \in mBatch[i] \ mTodo[i])
    PROVE  MrmsIInv'
<1>1. MrmsInvocationsTyped' /\ MrmsOthers(i) /\ mStep'[i] = "idle" /\ mBatch'[i] = {}
  BY MrmsLeaveMoves
<1>2. MrmsKeeps
  BY <1>1, MrmsInvocationKeeps DEF MrmsIInv, MrmsStateTyped
<1>3. MrmsStateTyped'
  BY DEF MrmsIInv, MrmsStateTyped
<1>4. ASSUME NEW m \in MrmsMessage, mPlace'[m] = "deleted"
      PROVE  mPlace[m] = "deleted" \/ MrmsSettled(m.frame)'
  <2>1. m \in mBatch[i] \ mTodo[i] => MrmsSettled(m.frame)
    BY DEF MrmsIInv, MrmsMessagesAreSettled
  <2>2. m.frame \in MrmsFrames
    BY MrmsAssumption
  <2> QED
    BY <1>2, <1>4, <2>1, <2>2, MrmsKeepsSettled
<1>5. \A j \in Invocations : mStep'[j] \in {"finish", "record"} =>
        mStep[j] = mStep'[j] /\ mAt'[j] = mAt[j]
  BY <1>1 DEF MrmsOthers
<1>6. \A j \in Invocations : \A m \in (mBatch[j] \ mTodo[j])' : m \in mBatch[j] \ mTodo[j]
  BY <1>1 DEF MrmsOthers
<1> QED
  BY <1>1, <1>2, <1>3, <1>4, <1>5, <1>6, MrmsKeepsIInv

LEMMA MrmsHandleStep ==
    ASSUME MrmsIInv, NEW i \in Invocations, Mrms!Handle(i)
    PROVE  MrmsIInv'
<1> USE DEF Mrms!queue, Mrms!jobs, Mrms!bounds
<1>1. /\ \A f \in MrmsFrames : mSnapshot[f] \in Configs \cup {Nothing} /\ mRunning[f] \in Nat
      /\ mSnapshot \in [MrmsFrames -> Configs \cup {Nothing}] /\ mRunning \in [MrmsFrames -> Nat]
      /\ DOMAIN mClaim = MrmsFrames /\ Nothing \notin Configs
      /\ mPlace \in [MrmsMessage -> {"source", "visible", "taken", "deleted", "dead"}]
  BY ConfigAssumption DEF MrmsIInv, MrmsStateTyped
<1>2. CASE Mrms!LoadConfig(i)
  <2>1. /\ mStep[i] = "next" /\ (\E m \in mTodo[i] : mAt' = [mAt EXCEPT ![i] = m])
        /\ mCfg' = [mCfg EXCEPT ![i] = mDeployed] /\ mStep' = [mStep EXCEPT ![i] = "snapshot"]
        /\ UNCHANGED <<mDeployed, mPlace, mReceives, mBatch, mTodo, mSnapshot, mClaim, mRunning,
                       mDone, mFailed, mOrphaned, mFaults, mDeploys>>
    BY <1>2 DEF Mrms!LoadConfig
  <2>2. MrmsInvocationsTyped' /\ MrmsOthers(i) /\ mStep'[i] = "snapshot"
    BY <2>1 DEF MrmsIInv, MrmsInvocationsTyped, MrmsStateTyped, MrmsOthers, MrmsWorking
  <2>3. MrmsStateTyped'
    BY <2>1 DEF MrmsIInv, MrmsStateTyped
  <2>4. MrmsKeeps
    BY <1>1, <2>1, <2>2, MrmsInvocationKeeps
  <2>5. \A j \in Invocations : mStep'[j] \in {"finish", "record"} =>
          mStep[j] = mStep'[j] /\ mAt'[j] = mAt[j]
    BY <2>2 DEF MrmsOthers
  <2> QED
    BY <2>1, <2>2, <2>3, <2>4, <2>5, MrmsKeepsIInv
<1>3. CASE Mrms!EnsureSnapshot(i)
  <2> DEFINE f == mAt[i].frame
  <2>1. /\ mStep[i] = "snapshot"
        /\ mSnapshot' = IF mSnapshot[f] = Nothing
            THEN [mSnapshot EXCEPT ![f] = mCfg[i]] ELSE mSnapshot
        /\ \/ Mrms!Leave(i) /\ mSnapshot[f] # Nothing
           \/ Mrms!Finish(i) /\ mSnapshot[f] \in {Nothing, mCfg[i]} /\ ~HasMrmsWork[mCfg[i]]
           \/ Mrms!Go(i, "plan")
        /\ UNCHANGED <<mDeployed, mPlace, mReceives, mClaim, mRunning, mDone, mFailed,
                     mOrphaned, mFaults, mDeploys>>
    BY <1>3 DEF Mrms!EnsureSnapshot
  <2>2. f \in MrmsFrames /\ mCfg[i] \in Configs
    BY <2>1, MrmsAtFrame DEF MrmsWorking
  <2>3. /\ mSnapshot' \in [MrmsFrames -> Configs \cup {Nothing}]
        /\ \A g \in MrmsFrames : mSnapshot[g] # Nothing => mSnapshot'[g] = mSnapshot[g]
        /\ mSnapshot[f] \in {Nothing, mCfg[i]} => mSnapshot'[f] = mCfg[i]
    BY <1>1, <2>1, <2>2
  <2>4. CASE Mrms!Leave(i) /\ mSnapshot[f] # Nothing
    BY <1>1, <2>1, <2>4, MrmsLeaveStep
  <2>5. CASE Mrms!Finish(i) /\ mSnapshot[f] \in {Nothing, mCfg[i]} /\ ~HasMrmsWork[mCfg[i]]
    <3>1. mSnapshot'[f] # Nothing /\ ~HasMrmsWork[mSnapshot'[f]]
      BY <1>1, <2>2, <2>3, <2>5
    <3> QED
      BY <1>1, <2>1, <2>3, <2>5, <3>1, MrmsFinishStep DEF MrmsWorking
  <2>6. CASE Mrms!Go(i, "plan")
    BY <1>1, <2>1, <2>3, <2>6, MrmsGoStep DEF MrmsWorking
  <2> QED
    BY <2>1, <2>4, <2>5, <2>6
<1>4. CASE Mrms!Plan(i)
  <2>1. /\ mStep[i] = "plan"
        /\ \/ mAt[i].frame \in mDone /\ Mrms!Go(i, "finish")
           \/ mClaim[mAt[i].frame] = "claimed" /\ Mrms!Finish(i)
           \/ Mrms!Go(i, "acquire")
        /\ UNCHANGED <<mDeployed, mPlace, mReceives, mSnapshot, mClaim, mRunning, mDone, mFailed,
                       mOrphaned, mFaults, mDeploys>>
    BY <1>4 DEF Mrms!Plan
  <2>2. mAt[i].frame \in MrmsFrames
    BY <2>1, MrmsAtFrame DEF MrmsWorking
  <2>3. CASE mAt[i].frame \in mDone /\ Mrms!Go(i, "finish")
    BY <1>1, <2>1, <2>3, MrmsGoStep DEF MrmsWorking
  <2>4. CASE mClaim[mAt[i].frame] = "claimed" /\ Mrms!Finish(i)
    <3>1. MrmsInHand(mAt[i].frame)
      BY <2>2, <2>4 DEF MrmsIInv, MrmsClaimsAreTrue
    <3> QED
      BY <1>1, <2>1, <2>4, <3>1, MrmsFinishStep DEF MrmsWorking
  <2>5. CASE Mrms!Go(i, "acquire")
    BY <1>1, <2>1, <2>5, MrmsGoStep DEF MrmsWorking
  <2> QED
    BY <2>1, <2>3, <2>4, <2>5
<1>5. CASE Mrms!RecordComplete(i)
  <2>1. /\ mStep[i] = "finish" /\ mClaim' = [mClaim EXCEPT ![mAt[i].frame] = "complete"]
        /\ Mrms!Finish(i)
        /\ UNCHANGED <<mDeployed, mPlace, mReceives, mSnapshot, mRunning, mDone, mFailed, mOrphaned,
                       mFaults, mDeploys>>
    BY <1>5 DEF Mrms!RecordComplete
  <2>2. MrmsInHand(mAt[i].frame)
    BY <2>1 DEF MrmsIInv, MrmsClaimsAreTrue, MrmsInHand
  <2>3. DOMAIN mClaim' = MrmsFrames
      /\ \A f \in MrmsFrames : mClaim'[f] = "claimed" => mClaim[f] = "claimed"
    BY <1>1, <2>1
  <2> QED
    BY <1>1, <2>1, <2>2, <2>3, MrmsFinishStep DEF MrmsWorking
<1>6. CASE Mrms!Acquire(i)
  <2>1. /\ mStep[i] = "acquire"
        /\ \/ mClaim' = [mClaim EXCEPT ![mAt[i].frame] = "claimed"] /\ Mrms!Go(i, "submit")
           \/ mClaim[mAt[i].frame] = "claimed" /\ Mrms!Finish(i) /\ mClaim' = mClaim
        /\ UNCHANGED <<mDeployed, mPlace, mReceives, mSnapshot, mRunning, mDone, mFailed, mOrphaned,
                       mFaults, mDeploys>>
    BY <1>6 DEF Mrms!Acquire
  <2>2. mAt[i].frame \in MrmsFrames
    BY <2>1, MrmsAtFrame DEF MrmsWorking
  <2>3. CASE mClaim' = [mClaim EXCEPT ![mAt[i].frame] = "claimed"] /\ Mrms!Go(i, "submit")
    <3>1. /\ DOMAIN mClaim' = MrmsFrames
          /\ \A f \in MrmsFrames : mClaim'[f] = "claimed"
              => mClaim[f] = "claimed" \/ f = mAt[i].frame
      BY <1>1, <2>3
    <3> QED
      BY <1>1, <2>1, <2>3, <3>1, MrmsGoStep DEF MrmsWorking
  <2>4. CASE mClaim[mAt[i].frame] = "claimed" /\ Mrms!Finish(i) /\ mClaim' = mClaim
    <3>1. MrmsInHand(mAt[i].frame)
      BY <2>2, <2>4 DEF MrmsIInv, MrmsClaimsAreTrue
    <3> QED
      BY <1>1, <2>1, <2>4, <3>1, MrmsFinishStep DEF MrmsWorking
  <2> QED
    BY <2>1, <2>3, <2>4
<1>7. CASE Mrms!SubmitJob(i)
  <2>1. /\ mStep[i] = "submit" /\ mRunning' = [mRunning EXCEPT ![mAt[i].frame] = @ + 1]
        /\ Mrms!Go(i, "record")
        /\ UNCHANGED <<mDeployed, mPlace, mReceives, mSnapshot, mClaim, mDone, mFailed,
                     mOrphaned, mFaults, mDeploys>>
    BY <1>7 DEF Mrms!SubmitJob
  <2>2. mAt[i].frame \in MrmsFrames
    BY <2>1, MrmsAtFrame DEF MrmsWorking
  <2>3. /\ mRunning' \in [MrmsFrames -> Nat] /\ mRunning'[mAt[i].frame] > 0
        /\ \A f \in MrmsFrames : mRunning'[f] >= mRunning[f]
    BY <1>1, <2>1, <2>2
  <2> QED
    BY <1>1, <2>1, <2>3, MrmsGoStep DEF MrmsWorking
<1>8. CASE Mrms!RecordSubmission(i)
  <2>1. /\ mStep[i] = "record" /\ Mrms!Finish(i)
        /\ UNCHANGED <<mDeployed, mPlace, mReceives, mSnapshot, mClaim, mRunning, mDone, mFailed,
                       mOrphaned, mFaults, mDeploys>>
    BY <1>8 DEF Mrms!RecordSubmission
  <2>2. MrmsInHand(mAt[i].frame)
    BY <2>1 DEF MrmsIInv, MrmsClaimsAreTrue, MrmsInHand
  <2> QED
    BY <1>1, <2>1, <2>2, MrmsFinishStep DEF MrmsWorking
<1>9. CASE Mrms!DeleteBatch(i)
  <2>1. /\ mStep[i] = "next" /\ mTodo[i] = {} /\ Mrms!Leave(i)
        /\ mPlace' = [m \in MrmsMessage |-> IF m \in mBatch[i] THEN "deleted" ELSE mPlace[m]]
        /\ UNCHANGED <<mDeployed, mReceives, mSnapshot, mClaim, mRunning, mDone, mFailed, mOrphaned,
                       mFaults, mDeploys>>
    BY <1>9 DEF Mrms!DeleteBatch
  <2>2. /\ mPlace' \in [MrmsMessage -> {"source", "visible", "taken", "deleted", "dead"}]
        /\ \A m \in MrmsMessage : mPlace'[m] = "deleted" =>
            mPlace[m] = "deleted" \/ (m \in mBatch[i] \ mTodo[i])
    BY <1>1, <2>1
  <2> QED
    BY <2>1, <2>2, MrmsLeaveStep
<1> QED
  BY <1>2, <1>3, <1>4, <1>5, <1>6, <1>7, <1>8, <1>9 DEF Mrms!Handle

LEMMA MrmsFailStep ==
    ASSUME MrmsIInv, NEW i \in Invocations, Mrms!Fail(i)
    PROVE  MrmsIInv'
<1>1. /\ Mrms!Leave(i) /\ mOrphaned \subseteq mOrphaned'
      /\ mStep[i] = "submit" => mAt[i].frame \in mOrphaned'
      /\ UNCHANGED <<mDeployed, mPlace, mSnapshot, mClaim, mRunning, mDone, mFailed>>
  BY DEF Mrms!Fail, Mrms!queue, Mrms!jobs
<1>2. mPlace \in [MrmsMessage -> {"source", "visible", "taken", "deleted", "dead"}]
  BY DEF MrmsIInv, MrmsStateTyped
<1> QED
  BY <1>1, <1>2, MrmsLeaveStep

\* An invocation takes messages: it still has to work on all of them.
LEMMA MrmsReceiveStep ==
    ASSUME MrmsIInv, NEW i \in Invocations, NEW B \in SUBSET MrmsMessage, Mrms!Receive(i, B)
    PROVE  MrmsIInv'
<1>1. /\ mStep[i] = "idle" /\ mStep' = [mStep EXCEPT ![i] = "next"]
      /\ mBatch' = [mBatch EXCEPT ![i] = B] /\ mTodo' = [mTodo EXCEPT ![i] = B]
      /\ mPlace' = [m \in MrmsMessage |-> IF m \in B THEN "taken" ELSE mPlace[m]]
      /\ UNCHANGED <<mDeployed, mAt, mCfg, mSnapshot, mClaim, mRunning, mDone, mFailed, mOrphaned>>
  BY DEF Mrms!Receive, Mrms!jobs
<1>2. MrmsInvocationsTyped' /\ MrmsOthers(i) /\ mStep'[i] = "next" /\ mBatch'[i] = B
    /\ mTodo'[i] = B
  BY <1>1 DEF MrmsIInv, MrmsInvocationsTyped, MrmsOthers, MrmsWorking
<1>3. MrmsStateTyped' /\ \A m \in MrmsMessage : mPlace'[m] = "deleted" => mPlace[m] = "deleted"
  BY <1>1 DEF MrmsIInv, MrmsStateTyped
<1>4. MrmsKeeps
  BY <1>1, <1>2, MrmsInvocationKeeps DEF MrmsIInv, MrmsStateTyped
<1>5. \A j \in Invocations : mStep'[j] \in {"finish", "record"} =>
        mStep[j] = mStep'[j] /\ mAt'[j] = mAt[j]
  BY <1>2 DEF MrmsOthers
<1>6. \A j \in Invocations : \A m \in (mBatch[j] \ mTodo[j])' : m \in mBatch[j] \ mTodo[j]
  BY <1>2 DEF MrmsOthers
<1> QED
  BY <1>1, <1>2, <1>3, <1>4, <1>5, <1>6, MrmsKeepsIInv

-----------------------------------------------------------------------------
\* The queue and the environment.

\* A step that no invocation takes.
LEMMA MrmsOutsideStep ==
    ASSUME MrmsIInv, MrmsStateTyped', UNCHANGED <<Mrms!invocation, mSnapshot>>,
           \A f \in MrmsFrames : MrmsHad(f) => MrmsHad(f)',
           \A f \in MrmsFrames : mClaim'[f] = "claimed" => mClaim[f] = "claimed",
           \A m \in MrmsMessage : mPlace'[m] = "deleted" => mPlace[m] = "deleted"
    PROVE  MrmsIInv'
<1> USE DEF Mrms!invocation
<1>1. MrmsInvocationsTyped'
  BY DEF MrmsIInv, MrmsInvocationsTyped
<1>2. MrmsKeeps
  BY DEF MrmsKeeps
<1> QED
  BY <1>1, <1>2, MrmsKeepsIInv

LEMMA MrmsQueueStep ==
    ASSUME MrmsIInv, NEW m \in MrmsMessage, Mrms!Announce(m) \/ Mrms!SetAside(m) \/ Mrms!Reappear(m)
    PROVE  MrmsIInv'
<1>1. /\ \E p \in {"visible", "dead"} : mPlace' = [mPlace EXCEPT ![m] = p]
      /\ UNCHANGED <<mDeployed, Mrms!invocation, mSnapshot, mClaim, mRunning, mDone, mFailed,
                   mOrphaned>>
  BY DEF Mrms!Announce, Mrms!SetAside, Mrms!Reappear, Mrms!jobs
<1>2. MrmsStateTyped' /\ \A n \in MrmsMessage : mPlace'[n] = "deleted" => mPlace[n] = "deleted"
  BY <1>1 DEF MrmsIInv, MrmsStateTyped
<1>3. \A f \in MrmsFrames : MrmsHad(f) => MrmsHad(f)'
  BY <1>1 DEF MrmsHad
<1> QED
  BY <1>1, <1>2, <1>3, MrmsOutsideStep

LEMMA MrmsFrameStep ==
    ASSUME MrmsIInv, NEW f \in MrmsFrames,
           Mrms!JobSucceeds(f) \/ Mrms!JobFails(f) \/ Mrms!ClaimExpires(f)
    PROVE  MrmsIInv'
<1> USE DEF Mrms!queue, Mrms!jobs
<1>1. CASE Mrms!JobSucceeds(f) \/ Mrms!JobFails(f)
  <2>1. /\ mRunning[f] > 0 /\ mRunning' = [mRunning EXCEPT ![f] = @ - 1]
        /\ \/ mDone' = mDone \cup {f} /\ mFailed' = mFailed
           \/ mFailed' = mFailed \cup {f} /\ mDone' = mDone
        /\ UNCHANGED <<mDeployed, mPlace, Mrms!invocation, mSnapshot, mClaim, mOrphaned>>
    BY <1>1 DEF Mrms!JobSucceeds, Mrms!JobFails
  <2>2. MrmsStateTyped' /\ \A g \in MrmsFrames : g # f => mRunning'[g] = mRunning[g]
    BY <2>1 DEF MrmsIInv, MrmsStateTyped
  <2>3. \A g \in MrmsFrames : MrmsHad(g) => MrmsHad(g)'
    BY <2>1, <2>2 DEF MrmsHad
  <2> QED
    BY <2>1, <2>2, <2>3, MrmsOutsideStep
<1>2. CASE Mrms!ClaimExpires(f)
  <2>1. /\ mClaim' = [mClaim EXCEPT ![f] = "expired"]
        /\ UNCHANGED <<mDeployed, mPlace, Mrms!invocation, mSnapshot, mRunning, mDone, mFailed,
                     mOrphaned>>
    BY <1>2 DEF Mrms!ClaimExpires
  <2>2. MrmsStateTyped' /\ \A g \in MrmsFrames : mClaim'[g] = "claimed" => mClaim[g] = "claimed"
    BY <2>1 DEF MrmsIInv, MrmsStateTyped
  <2>3. \A g \in MrmsFrames : MrmsHad(g) => MrmsHad(g)'
    BY <2>1 DEF MrmsHad
  <2> QED
    BY <2>1, <2>2, <2>3, MrmsOutsideStep
<1> QED
  BY <1>1, <1>2

LEMMA MrmsNextIInv == MrmsIInv /\ [Mrms!Next]_(Mrms!vars) => MrmsIInv'
<1> SUFFICES ASSUME MrmsIInv, [Mrms!Next]_(Mrms!vars) PROVE MrmsIInv'
  OBVIOUS
<1>1. ASSUME NEW i \in Invocations,
             Mrms!Handle(i) \/ Mrms!Fail(i) \/ \E B \in SUBSET MrmsMessage : Mrms!Receive(i, B)
      PROVE  MrmsIInv'
  BY <1>1, MrmsHandleStep, MrmsFailStep, MrmsReceiveStep
<1>2. ASSUME NEW m \in MrmsMessage, Mrms!Announce(m) \/ Mrms!SetAside(m) \/ Mrms!Reappear(m)
      PROVE  MrmsIInv'
  BY <1>2, MrmsQueueStep
<1>3. ASSUME NEW f \in MrmsFrames, Mrms!JobSucceeds(f) \/ Mrms!JobFails(f) \/ Mrms!ClaimExpires(f)
      PROVE  MrmsIInv'
  BY <1>3, MrmsFrameStep
<1>4. CASE Mrms!Deploy
  <2>1. /\ mDeployed' \in Configs
        /\ UNCHANGED <<mPlace, Mrms!invocation, mSnapshot, mClaim, mRunning, mDone, mFailed,
                     mOrphaned>>
    BY <1>4 DEF Mrms!Deploy, Mrms!queue, Mrms!jobs
  <2>2. MrmsStateTyped' /\ \A f \in MrmsFrames : MrmsHad(f) => MrmsHad(f)'
    BY <2>1 DEF MrmsIInv, MrmsStateTyped, MrmsHad
  <2> QED
    BY <2>1, <2>2, MrmsOutsideStep
<1>5. CASE UNCHANGED Mrms!vars
  <2>1. MrmsStateTyped' /\ \A f \in MrmsFrames : MrmsHad(f) => MrmsHad(f)'
    BY <1>5 DEF Mrms!vars, Mrms!queue, Mrms!jobs, MrmsIInv, MrmsStateTyped, MrmsHad
  <2> QED
    BY <1>5, <2>1, MrmsOutsideStep DEF Mrms!vars, Mrms!queue, Mrms!jobs
<1> QED
  BY <1>1, <1>2, <1>3, <1>4, <1>5 DEF Mrms!Next

-----------------------------------------------------------------------------
\* MRMS: the results.

LEMMA MrmsSettles == MrmsIInv => Mrms!DeletedMessagesAreInHand
  BY DEF MrmsIInv, MrmsMessagesAreSettled, MrmsSettled, MrmsInHand, MrmsHad,
     Mrms!DeletedMessagesAreInHand

\* Whatever invocations overlap or fail, and however often the queue gives messages out: the
\* frame of a message that was deleted is not wanted by the configuration pinned for it, or it
\* has a job, had one, is about to get one, or its claim was left by an invocation that died.
THEOREM MessagesAreAnswered == Mrms!Spec => []Mrms!DeletedMessagesAreInHand
  BY MrmsInitIInv, MrmsNextIInv, MrmsSettles, PTL DEF Mrms!Spec

\* The same beside the submission of GFS frames, which shares nothing with it.
THEOREM DeletedMessagesAreAnswered == IngestSpec => []DeletedMessagesAreInHand
<1>1. IngestInit => MrmsIInv
  BY MrmsInitIInv DEF IngestInit
<1>2. MrmsIInv /\ [IngestNext]_all => MrmsIInv'
  <2> SUFFICES ASSUME MrmsIInv, [IngestNext]_all PROVE MrmsIInv'
    OBVIOUS
  <2>1. [Mrms!Next]_(Mrms!vars)
    BY DEF IngestNext, Gfs, OfMrms, all, mrmsVars, Mrms!vars, Mrms!queue, Mrms!invocation,
       Mrms!jobs, Mrms!bounds
  <2> QED
    BY <2>1, MrmsNextIInv
<1>3. MrmsIInv => DeletedMessagesAreInHand
  BY MrmsSettles DEF DeletedMessagesAreInHand
<1> QED
  BY <1>1, <1>2, <1>3, PTL DEF IngestSpec
===============================================================================
