--------------------------- MODULE Inspection_proofs ---------------------------
(* Theorems about the status document and the inspection that writes it, for   *)
(* any cycles, frames, configurations, policy and number of upsets.            *)
EXTENDS Inspection, FiniteSetTheorems, WellFoundedInduction, TLAPS

\* The numbers of the policy.
LEMMA PolicyTyped ==
    /\ Period \in Nat /\ Period > 0 /\ StatusCount \in Nat /\ StatusCount > 0
    /\ HistoryCount \in Nat /\ Fallback \in Nat /\ Cushion \in Nat /\ MinLag \in Nat
    /\ MaxLag \in Nat /\ MaxReasonable \in Nat /\ Recent \in Nat /\ MaxHour \in Nat
    /\ MinLag <= Fallback /\ Fallback <= MaxLag /\ (StatusCount - 1) * Period >= MaxLag
  BY PolicyAssumption

-----------------------------------------------------------------------------
\* Numbers: the newest and the oldest of some cycles, and whole periods.

\* In a finite set of numbers one has the fewest others on its side.
LEMMA LeastSide ==
    ASSUME NEW S \in SUBSET Int, IsFiniteSet(S), S # {}, NEW G \in [S -> SUBSET S]
    PROVE  \E m \in S : \A n \in S : ~ (G[n] \subseteq G[m] /\ G[n] # G[m])
<1> DEFINE T == {G[x] : x \in S}
<1>1. FiniteSubsetsOf(S) = SUBSET S
  BY FS_Subset, FS_FiniteSubsetsOfFinite
<1>2. IsWellFoundedOn(StrictSubsetOrdering(S), FiniteSubsetsOf(S))
  BY FS_StrictSubsetOrderingWellFounded
<1>3. T \subseteq FiniteSubsetsOf(S) /\ T # {}
  BY <1>1
<1>4. \E X \in T : \A Y \in T : ~ (<<Y, X>> \in StrictSubsetOrdering(S))
  <2> HIDE DEF T
  <2> QED
    BY <1>2, <1>3, WFMin
<1>5. PICK m \in S : \A n \in S : ~ (<<G[n], G[m]>> \in StrictSubsetOrdering(S))
  BY <1>4
<1>6. \A n \in S : G[n] \in SUBSET S
  OBVIOUS
<1> QED
  BY <1>5, <1>6 DEF StrictSubsetOrdering

LEMMA MaxOfFinite ==
    ASSUME NEW S \in SUBSET Int, IsFiniteSet(S), S # {}
    PROVE  Max(S) \in S /\ \A n \in S : n <= Max(S)
<1> DEFINE G == [x \in S |-> {y \in S : y > x}]
<1>0. G \in [S -> SUBSET S]
  OBVIOUS
<1>1. PICK m \in S : \A n \in S : ~ (G[n] \subseteq G[m] /\ G[n] # G[m])
  <2> HIDE DEF G
  <2> QED
    BY <1>0, LeastSide
<1>2. ASSUME NEW n \in S, ~ (n <= m) PROVE FALSE
  <2>1. G[n] = {y \in S : y > n} /\ G[m] = {y \in S : y > m}
    OBVIOUS
  <2>2. n \in G[m] /\ n \notin G[n]
    BY <1>2, <2>1
  <2>3. \A y \in S : y > n => y > m
    BY <1>2
  <2> HIDE DEF G
  <2>4. G[n] \subseteq G[m]
    BY <2>1, <2>3
  <2> QED
    BY <1>1, <2>2, <2>4
<1>3. \A n \in S : m >= n
  BY <1>2
<1> QED
  BY <1>3 DEF Max

LEMMA MinOfFinite ==
    ASSUME NEW S \in SUBSET Int, IsFiniteSet(S), S # {}
    PROVE  Min(S) \in S /\ \A n \in S : Min(S) <= n
<1> DEFINE G == [x \in S |-> {y \in S : y < x}]
<1>0. G \in [S -> SUBSET S]
  OBVIOUS
<1>1. PICK m \in S : \A n \in S : ~ (G[n] \subseteq G[m] /\ G[n] # G[m])
  <2> HIDE DEF G
  <2> QED
    BY <1>0, LeastSide
<1>2. ASSUME NEW n \in S, ~ (m <= n) PROVE FALSE
  <2>1. G[n] = {y \in S : y < n} /\ G[m] = {y \in S : y < m}
    OBVIOUS
  <2>2. n \in G[m] /\ n \notin G[n]
    BY <1>2, <2>1
  <2>3. \A y \in S : y < n => y < m
    BY <1>2
  <2> HIDE DEF G
  <2>4. G[n] \subseteq G[m]
    BY <2>1, <2>3
  <2> QED
    BY <1>1, <2>2, <2>4
<1>3. \A n \in S : m <= n
  BY <1>2
<1> QED
  BY <1>3 DEF Min

LEMMA WholePeriods ==
    ASSUME NEW n \in Nat, NEW p \in Nat \ {0}
    PROVE  n \div p \in Int /\ (n \div p) * p <= n /\ n < (n \div p) * p + p
  OBVIOUS

LEMMA FirstIsACycle == FirstCycle \in Cycles /\ \A c \in Cycles : FirstCycle <= c
  BY MinOfFinite, PolicyAssumption DEF FirstCycle

-----------------------------------------------------------------------------
\* The publish lag and the cycle it makes expected.

LEMMA LatestAreInARow ==
    ASSUME NEW now \in Nat
    PROVE  /\ LatestCycles(now) \subseteq Int /\ IsFiniteSet(LatestCycles(now))
           /\ now \div Period \in LatestCycles(now)
           /\ (now \div Period) - (StatusCount - 1) \in LatestCycles(now)
           /\ \A c \in LatestCycles(now) : c <= now \div Period
           /\ \A c \in LatestCycles(now) : c # now \div Period => c + 1 \in LatestCycles(now)
<1>1. now \div Period \in Int /\ StatusCount \in Nat /\ StatusCount > 0
  BY WholePeriods, PolicyTyped
<1> DEFINE newest == now \div Period
<1> HIDE DEF newest
<1>2. newest \in Int
  BY <1>1 DEF newest
<1>3. LatestCycles(now) = {newest - k : k \in 0..(StatusCount - 1)}
  BY DEF LatestCycles, newest
<1>4. LatestCycles(now) = (newest - (StatusCount - 1))..newest
  <2>1. \A c \in (newest - (StatusCount - 1))..newest :
            newest - c \in 0..(StatusCount - 1) /\ c = newest - (newest - c)
    BY <1>1, <1>2
  <2>2. \A k \in 0..(StatusCount - 1) : newest - k \in (newest - (StatusCount - 1))..newest
    BY <1>1, <1>2
  <2>3. (newest - (StatusCount - 1))..newest \subseteq LatestCycles(now)
    <3> SUFFICES ASSUME NEW c \in (newest - (StatusCount - 1))..newest
                 PROVE  c \in LatestCycles(now)
      OBVIOUS
    <3>1. newest - c \in 0..(StatusCount - 1) /\ c = newest - (newest - c)
      BY <2>1
    <3>2. PICK k \in 0..(StatusCount - 1) : c = newest - k
      BY <3>1
    <3> QED
      BY <1>3, <3>2
  <2>4. LatestCycles(now) \subseteq (newest - (StatusCount - 1))..newest
    BY <1>3, <2>2
  <2> QED
    BY <2>3, <2>4
<1>5. IsFiniteSet(LatestCycles(now))
  BY <1>1, <1>2, <1>4, FS_Interval
<1> QED
  <2>1. newest - (StatusCount - 1) <= newest
    BY <1>1, <1>2
  <2>2. /\ newest \in LatestCycles(now) /\ newest - (StatusCount - 1) \in LatestCycles(now)
        /\ \A c \in LatestCycles(now) : c \in Int /\ c <= newest
        /\ \A c \in LatestCycles(now) : c # newest => c + 1 \in LatestCycles(now)
    BY <1>1, <1>2, <1>4, <2>1
  <2> QED
    BY <1>5, <2>2 DEF newest

\* Whatever the lag was estimated to be within its limits: the expected cycle is due by it, and
\* the next one is not, or has not begun.
LEMMA ExpectedIsDue ==
    ASSUME NEW now \in Nat, NEW grace \in 10 * MinLag..10 * MaxLag
    PROVE  /\ ExpectedCycle(now, grace) \in LatestCycles(now)
           /\ ExpectedCycle(now, grace) \in Int
           /\ ExpectedCycle(now, grace) * Period + MinLag <= now
           /\ now - ExpectedCycle(now, grace) * Period < MaxLag + Period
<1> DEFINE due == {c \in LatestCycles(now) : 10 * c * Period + grace <= 10 * now}
           newest == now \div Period
           oldest == newest - (StatusCount - 1)
           expected == ExpectedCycle(now, grace)
<1>1. /\ newest \in Int /\ newest * Period <= now /\ now < newest * Period + Period
      /\ StatusCount \in Nat /\ Period \in Nat /\ Period > 0 /\ MinLag \in Nat /\ MaxLag \in Nat
      /\ (StatusCount - 1) * Period >= MaxLag
  BY WholePeriods, PolicyTyped
<1>2. due \subseteq Int /\ IsFiniteSet(due)
  BY LatestAreInARow, FS_Subset
<1>3. oldest \in due
  <2>1. oldest * Period = newest * Period - (StatusCount - 1) * Period
    BY <1>1
  <2>2. 10 * oldest * Period = 10 * (oldest * Period)
    BY <1>1
  <2>3. oldest * Period \in Int /\ newest * Period \in Int /\ (StatusCount - 1) * Period \in Int
    BY <1>1
  <2>4. oldest * Period + MaxLag <= now
    BY <1>1, <2>1, <2>3
  <2>5. 10 * oldest * Period + grace <= 10 * now
    BY <1>1, <2>2, <2>3, <2>4
  <2> QED
    BY <2>5, LatestAreInARow
<1>4. expected = Max(due)
  BY <1>3 DEF ExpectedCycle
<1> HIDE DEF due, expected
<1>5. expected \in due /\ \A c \in due : c <= expected
  BY <1>2, <1>3, <1>4, MaxOfFinite
<1>6. expected \in Int /\ expected * Period \in Int
  BY <1>1, <1>2, <1>5
<1>7. expected \in LatestCycles(now) /\ 10 * expected * Period + grace <= 10 * now
  BY <1>5 DEF due
<1>8. expected * Period + MinLag <= now
  <2>1. 10 * expected * Period = 10 * (expected * Period)
    BY <1>1, <1>6
  <2> QED
    BY <1>1, <1>6, <1>7, <2>1
<1>9. now - expected * Period < MaxLag + Period
  <2>1. CASE expected = newest
    BY <1>1, <1>6, <2>1
  <2>2. CASE expected # newest
    <3>1. expected + 1 \in LatestCycles(now)
      BY <1>7, <2>2, LatestAreInARow
    <3>2. expected + 1 \notin due
      BY <1>5, <1>6
    <3>3. ~ (10 * (expected + 1) * Period + grace <= 10 * now)
      BY <3>1, <3>2 DEF due
    <3>4. 10 * (expected + 1) * Period = 10 * (expected * Period) + 10 * Period
      BY <1>1, <1>6
    <3> QED
      BY <1>1, <1>6, <3>3, <3>4
  <2> QED
    BY <2>1, <2>2
<1> QED
  BY <1>6, <1>7, <1>8, <1>9 DEF expected

LEMMA SortedLagIsALag ==
    ASSUME NEW L \in SUBSET Cycles, \A c \in L : LagOf(c) \in Nat,
           NEW i \in Nat, i < Cardinality(L)
    PROVE  SortedLag(L, i) \in Nat
<1> DEFINE V == {LagOf(c) : c \in L}
           W == {lag \in V : Cardinality({c \in L : LagOf(c) <= lag}) > i}
<1>1. IsFiniteSet(L) /\ Cardinality(L) \in Nat
  BY FS_Subset, FS_CardinalityType, PolicyAssumption
<1>2. V \subseteq Int /\ V \subseteq Nat
  OBVIOUS
<1>3. IsFiniteSet(V)
  <2> DEFINE f == [c \in L |-> LagOf(c)]
  <2>1. f \in Surjection(L, V)
    BY DEF Surjection
  <2> QED
    BY <1>1, <2>1, FS_Surjection
<1>4. V # {}
  <2>1. L # {}
    BY FS_EmptySet, <1>1
  <2> QED
    BY <2>1
<1>5. Max(V) \in V /\ \A lag \in V : lag <= Max(V)
  <2> HIDE DEF V
  <2> QED
    BY <1>2, <1>3, <1>4, MaxOfFinite
<1>6. {c \in L : LagOf(c) <= Max(V)} = L
  BY <1>5
<1>7. Max(V) \in W
  BY <1>5, <1>6
<1>8. Min(W) \in W
  <2>1. W \subseteq V
    OBVIOUS
  <2> HIDE DEF V, W
  <2>2. W \in SUBSET Int /\ IsFiniteSet(W) /\ W # {}
    BY <1>2, <1>3, <1>7, <2>1, FS_Subset
  <2> QED
    BY <2>2, MinOfFinite
<1> QED
  BY <1>2, <1>8 DEF SortedLag

LEMMA LimitsOfTwo ==
    ASSUME NEW a \in Int, NEW b \in Int
    PROVE  /\ Max({a, b}) \in {a, b} /\ a <= Max({a, b}) /\ b <= Max({a, b})
           /\ Min({a, b}) \in {a, b} /\ Min({a, b}) <= a /\ Min({a, b}) <= b
<1>1. {a, b} \in SUBSET Int
  OBVIOUS
<1>2. IsFiniteSet({a, b})
  <2>1. IsFiniteSet({a}) /\ IsFiniteSet({b})
    BY FS_Singleton
  <2>2. IsFiniteSet({a} \cup {b})
    BY <2>1, FS_Union
  <2>3. {a, b} = {a} \cup {b}
    OBVIOUS
  <2> QED
    BY <2>2, <2>3
<1> DEFINE S == {a, b}
<1>3. S # {} /\ a \in S /\ b \in S
  OBVIOUS
<1> HIDE DEF S
<1>4. Max(S) \in S /\ Min(S) \in S /\ \A n \in S : n <= Max(S) /\ Min(S) <= n
  BY <1>1, <1>2, <1>3, MaxOfFinite, MinOfFinite DEF S
<1> QED
  BY <1>3, <1>4 DEF S

\* The lag is estimated within its limits.
LEMMA GraceWithin ==
    ASSUME NEW H \in SUBSET Cycles, \A c \in H : publishedAt[c] \in Nat
    PROVE  Grace(H) \in 10 * MinLag..10 * MaxLag
<1>1. CASE Lagged(H) = {}
  BY <1>1, PolicyTyped DEF Grace
<1>2. CASE Lagged(H) # {}
  <2> DEFINE L == Lagged(H)
             position == (Cardinality(L) - 1) * 9
             lower == position \div 10
             weight == position % 10
             upper == IF weight = 0 THEN lower ELSE lower + 1
             hours == Percentile90(L) + 10 * Cushion
  <2>1. L \in SUBSET Cycles /\ \A c \in L : LagOf(c) \in Nat
    BY PolicyTyped DEF Lagged
  <2>2. IsFiniteSet(L) /\ Cardinality(L) \in Nat /\ Cardinality(L) > 0
    <3>1. IsFiniteSet(L) /\ L # {}
      BY <1>2, <2>1, FS_Subset, PolicyAssumption
    <3> HIDE DEF L
    <3>2. Cardinality(L) \in Nat /\ Cardinality(L) # 0
      BY <3>1, FS_CardinalityType, FS_EmptySet
    <3> QED
      BY <3>1, <3>2
  <2>3. PICK n \in Nat : n = Cardinality(L) /\ n > 0
    BY <2>2
  <2>4. /\ lower \in Nat /\ lower < Cardinality(L) /\ upper \in Nat /\ upper < Cardinality(L)
        /\ weight \in 0..9
    <3>1. position = (n - 1) * 9
      BY <2>3
    <3>2. lower = ((n - 1) * 9) \div 10 /\ weight = ((n - 1) * 9) % 10
      BY <3>1
    <3> HIDE DEF L, lower, weight
    <3> QED
      BY <2>3, <3>2
  <2>5. SortedLag(L, lower) \in Nat /\ SortedLag(L, upper) \in Nat
    BY <2>1, <2>4, SortedLagIsALag
  <2>6. Percentile90(L) = SortedLag(L, lower) * (10 - weight) + SortedLag(L, upper) * weight
    BY DEF Percentile90
  <2>7. Percentile90(L) \in Int
    <3> HIDE DEF L, position, lower, weight, upper
    <3> QED
      BY <2>4, <2>5, <2>6
  <2>8. PICK h \in Int : h = Percentile90(L) + 10 * Cushion
    BY <2>7, PolicyTyped
  <2>9. Grace(H) = Max({10 * MinLag, Min({10 * MaxLag, h})})
    BY <1>2, <2>8 DEF Grace
  <2> HIDE DEF L
  <2>10. PICK lo \in Int, hi \in Int : lo = 10 * MinLag /\ hi = 10 * MaxLag /\ lo <= hi
    BY PolicyTyped
  <2>11. PICK least \in Int : least = Min({hi, h}) /\ least <= hi
    <3>1. Min({hi, h}) \in Int /\ Min({hi, h}) <= hi
      BY LimitsOfTwo
    <3> QED
      BY <3>1
  <2>12. Max({lo, least}) \in {lo, least} /\ lo <= Max({lo, least})
    BY LimitsOfTwo
  <2> QED
    BY <2>9, <2>10, <2>11, <2>12
<1> QED
  BY <1>1, <1>2

\* The estimate from manifests that are there already does not change.
LEMMA GraceStays ==
    ASSUME NEW H, \A c \in H : publishedAt'[c] = publishedAt[c]
    PROVE  Grace(H)' = Grace(H)
<1>1. \A c \in H : LagOf(c)' = LagOf(c)
  BY DEF LagOf
<1>2. Lagged(H)' = Lagged(H) /\ Lagged(H) \subseteq H
  BY <1>1 DEF Lagged
<1>3. ASSUME NEW L \in SUBSET H, NEW i
      PROVE  SortedLag(L, i)' = SortedLag(L, i)
  <2>1. {LagOf(c)' : c \in L} = {LagOf(c) : c \in L}
    BY <1>1
  <2>2. \A lag : {c \in L : LagOf(c)' <= lag} = {c \in L : LagOf(c) <= lag}
    BY <1>1
  <2> QED
    BY <2>1, <2>2 DEF SortedLag
<1>4. ASSUME NEW L \in SUBSET H
      PROVE  Percentile90(L)' = Percentile90(L)
  BY <1>3 DEF Percentile90
<1>5. PICK L \in SUBSET H : L = Lagged(H) /\ L = Lagged(H)'
  BY <1>2
<1>6. Percentile90(L)' = Percentile90(L)
  BY <1>4
<1> QED
  BY <1>5, <1>6 DEF Grace
-----------------------------------------------------------------------------
\* The inductive invariant: the world.

Hours == 0..MaxHour
Marks == {"absent", "good", "bad"}
Reports == {"missing", "failed", "passed"}

\* Completeness of a run by its own configuration, as lifecycle.py asks for it.
Complete(c) == Progress(c, LifecycleWorkload(c), FALSE).complete

WorldTyped ==
    /\ clock \in Hours /\ deployed \in Workloads
    /\ run \in [Cycles -> Snapshots \cup Workloads]
    /\ marks \in [Cycles -> [Frames -> Marks]]
    /\ markedAt \in [Cycles -> Hours \cup {None}] /\ publishedAt \in [Cycles -> Hours \cup {None}]
    /\ report \in [Cycles -> Reports]
    /\ current \subseteq Cycles /\ latest \in current
    /\ upsets \in [deploys : Nat, faults : Nat, bad : Nat]

\* A validated run is pinned and has a marker of each frame, a published one was validated,
\* and nothing was written later than now.
WorldSound ==
    \A c \in Cycles :
        /\ report[c] # "missing" => Pinned(c)
              /\ \A f \in FramesOf[run[c]] : marks[c][f] # "absent"
        /\ publishedAt[c] # None => report[c] = "passed" /\ publishedAt[c] <= clock
        /\ markedAt[c] # None => markedAt[c] <= clock
        /\ c \in current => publishedAt[c] # None
        /\ \A f \in Frames : /\ marks[c][f] # "absent" => markedAt[c] # None
                             /\ marks[c][f] = "bad" => upsets.bad > 0

\* The runs never lose what they have.
WorldGrows ==
    /\ clock <= clock' /\ upsets.bad <= upsets'.bad
    /\ current \subseteq current' /\ latest <= latest'
    /\ \A c \in Cycles :
        /\ Pinned(c) => run'[c] = run[c]
        /\ publishedAt[c] # None => publishedAt'[c] = publishedAt[c]
        /\ report[c] # "missing" => report'[c] # "missing"
        /\ report[c] = "passed" => report'[c] = "passed"
        /\ LastProgress(c) # None => LastProgress(c)' # None
              /\ LastProgress(c) <= LastProgress(c)'
        /\ Pinned(c) /\ Complete(c) => Complete(c)'

-----------------------------------------------------------------------------
\* The inductive invariant: the inspection and the document.

ReadSteps == {"snapshot", "markers", "report", "publication", "current", "latest"}
Steps == {"idle", "fast", "history", "published", "progress", "write"} \cup ReadSteps
Settled == pass.step \in ReadSteps \cup {"write"}

PassTyped ==
    /\ DOMAIN pass = {"step", "now", "workload", "history", "latest", "todo", "progress",
                      "verdict", "facts", "faulted"}
    /\ pass.step \in Steps
    /\ pass.step = "idle" => pass = Idle
    /\ pass.now \in 0..clock /\ pass.workload \in Workloads
    /\ pass.history \subseteq current
    /\ pass.latest = None \/ (pass.latest \in current /\ pass.latest <= latest)
    /\ pass.latest = None /\ ~(pass.step \in {"idle", "fast", "history", "published"}) =>
           pass.faulted \/ (Settled /\ pass.verdict.status = "fresh")
    /\ pass.step \in {"fast", "history", "published"} => pass.progress = <<>>
    /\ ~Settled => pass.facts = <<>>

\* What was read of the candidates is still true of them.
ProgressRead(c, p) ==
    /\ p.found \/ p.run => c \in Cycles
    /\ p.found => p.at \in Hours /\ LastProgress(c) \in Hours /\ p.at <= LastProgress(c)
    /\ p.invalid => upsets.bad > 0
    /\ pass.latest # None /\ c = pass.latest =>
           p.complete \/ p.invalid \/ (Pinned(c) /\ run[c] # pass.workload)

CandidatesRead ==
    pass.step = "progress" =>
        /\ pass.todo \cup DOMAIN pass.progress = Candidates(pass, pass.latest)
        /\ \A c \in DOMAIN pass.progress : ProgressRead(c, pass.progress[c])

\* What is reported as fine is: by the latest manifest, or by a run that goes on.
Fine(status, now, c) ==
    /\ status = "fresh" => now - latest * Period < MaxLag + Period
    /\ status = "building" => c \in Cycles /\ LastProgress(c) \in Hours
                              /\ now - LastProgress(c) <= Recent

Cause ==
    \/ pass.faulted \/ upsets.bad > 0
    \/ \E c \in Cycles \cap {pass.verdict.cycle, pass.latest} : Pinned(c)
          /\ run[c] # pass.workload
    \/ \E c \in Cycles : pass.now >= c * Period + MinLag /\ pass.latest < c

VerdictHolds ==
    Settled =>
        /\ pass.verdict.status \in Statuses
        /\ Fine(pass.verdict.status, pass.now, pass.verdict.cycle)
        /\ Alerting(pass.verdict.status) => Cause
        /\ pass.step \in ReadSteps => pass.verdict.cycle \in Cycles

DocumentHolds ==
    document # None =>
        /\ document.status \in Statuses /\ document.now \in 0..clock
        /\ Fine(document.status, document.now, document.cycle)

HealthIInv ==
    /\ WorldTyped /\ WorldSound /\ PassTyped /\ CandidatesRead /\ VerdictHolds /\ DocumentHolds

-----------------------------------------------------------------------------
\* The inductive invariant: the lifecycle.

\* What a run must have for a stage of that rank.
Supports(c, rank) ==
    /\ rank >= 2 => Pinned(c)
    /\ rank >= 3 => Complete(c)
    /\ rank >= 4 => report[c] # "missing"
    /\ rank >= 5 => report[c] = "passed"
    /\ rank >= 6 => publishedAt[c] # None

\* The same of what was read of the run so far.
Shows(facts, rank) ==
    /\ rank >= 2 /\ "snapshot" \in DOMAIN facts => facts.snapshot = "valid"
    /\ rank >= 3 /\ "markers" \in DOMAIN facts => facts.markers = "complete"
    /\ rank >= 4 /\ "report" \in DOMAIN facts => facts.report # "missing"
    /\ rank >= 5 /\ "report" \in DOMAIN facts => facts.report = "passed"
    /\ rank >= 6 /\ "publication" \in DOMAIN facts => facts.publication = "present"

ReadBefore(read) ==
    CASE read = "snapshot" -> {}
      [] read = "markers" -> {"snapshot"}
      [] read = "report" -> {"snapshot", "markers"}
      [] read = "publication" -> {"snapshot", "markers", "report"}
      [] read = "current" -> {"snapshot", "markers", "report", "publication"}
      [] read = "latest" -> {"snapshot", "markers", "report", "publication", "current"}

\* Facts are read in order, all of them unless the first is that there is no snapshot.
FactsInOrder ==
    /\ pass.step \in ReadSteps => DOMAIN pass.facts = ReadBefore(pass.step)
    /\ pass.step = "snapshot" => pass.facts = <<>>
    /\ pass.step \in ReadSteps \ {"snapshot"} => pass.facts.snapshot # "missing"
    /\ pass.step = "write" =>
        \/ pass.facts = <<>>
        \/ DOMAIN pass.facts = {"snapshot"} /\ pass.facts.snapshot = "missing"
        \/ DOMAIN pass.facts = ReadSteps /\ pass.facts.snapshot # "missing"

\* A fact that was read without a fault is still true.
FactsRead(facts, c) ==
    /\ "snapshot" \in DOMAIN facts =>
        facts.snapshot = "missing" \/ (facts.snapshot = "valid" /\ Pinned(c))
    /\ "markers" \in DOMAIN facts =>
        facts.markers \in {"pending", "invalid"} \/ (facts.markers = "complete" /\ Complete(c))
    /\ "report" \in DOMAIN facts =>
        /\ facts.report \in Reports
        /\ facts.report # "missing" => report[c] # "missing"
        /\ facts.report = "passed" => report[c] = "passed"
    /\ "publication" \in DOMAIN facts =>
        facts.publication = "missing" \/ (facts.publication = "present" /\ publishedAt[c] # None)

FactsHold ==
    /\ Settled /\ pass.facts # <<>> => pass.verdict.cycle \in Cycles
    /\ Settled /\ ~pass.faulted => FactsRead(pass.facts, pass.verdict.cycle)

\* The stage of the document is not lost: by the run, and by the inspection under way.
StageHolds ==
    document # None /\ document.stage # None /\ ~document.faulted =>
        /\ document.cycle \in Cycles
        /\ Supports(document.cycle, Rank(document.stage))
        /\ Settled /\ ~pass.faulted /\ pass.verdict.cycle = document.cycle =>
               Shows(pass.facts, Rank(document.stage))
-----------------------------------------------------------------------------
\* The runs keep their part of the invariant, and never lose what they have.

WorldStep == WorldTyped' /\ WorldSound' /\ WorldGrows

LEMMA UpsetsCount ==
    ASSUME upsets \in [deploys : Nat, faults : Nat, bad : Nat],
           NEW kind \in {"deploys", "faults", "bad"}, Upset(kind)
    PROVE  /\ upsets' \in [deploys : Nat, faults : Nat, bad : Nat]
           /\ upsets.bad <= upsets'.bad
           /\ kind = "bad" => upsets'.bad > 0
<1>1. CASE kind = "deploys"
  BY <1>1 DEF Upset
<1>2. CASE kind = "faults"
  BY <1>2 DEF Upset
<1>3. CASE kind = "bad"
  BY <1>3 DEF Upset
<1> QED
  BY <1>1, <1>2, <1>3

\* A pinned run is complete when it has a marker of each frame, and none of the sample fails
\* to parse.
LEMMA CompleteMeans ==
    ASSUME NEW c
    PROVE  Complete(c) <=>
               /\ \A f \in FramesOf[run[c]] : marks[c][f] # "absent"
               /\ \A f \in Sample(FramesOf[run[c]]) : marks[c][f] # "bad"
<1>1. Complete(c) <=>
          /\ Found(c, run[c]) = FramesOf[run[c]]
          /\ ~ \E f \in Sample(Found(c, run[c])) : marks[c][f] = "bad"
  BY DEF Complete, Progress, LifecycleWorkload
<1>2. Found(c, run[c]) = FramesOf[run[c]] <=> \A f \in FramesOf[run[c]] : marks[c][f] # "absent"
  BY DEF Found
<1> QED
  BY <1>1, <1>2

LEMMA CompleteStays ==
    ASSUME NEW c, run'[c] = run[c],
           \A f \in FramesOf[run[c]] :
               /\ marks[c][f] # "absent" => marks'[c][f] # "absent"
               /\ marks[c][f] # "absent" /\ marks[c][f] # "bad" => marks'[c][f] # "bad",
           Complete(c)
    PROVE  Complete(c)'
<1>1. PICK w : w = run[c] /\ w = run'[c]
  OBVIOUS
<1>2. \A f \in FramesOf[w] : marks[c][f] # "absent"
  BY <1>1, CompleteMeans
<1>3. \A f \in Sample(FramesOf[w]) : marks[c][f] # "bad"
  BY <1>1, CompleteMeans
<1>4. \A f \in FramesOf[w] : marks'[c][f] # "absent"
  BY <1>1, <1>2
<1>5. Sample(FramesOf[w]) \subseteq FramesOf[w]
  BY DEF Sample
<1>6. \A f \in Sample(FramesOf[w]) : marks'[c][f] # "bad"
  BY <1>1, <1>2, <1>3, <1>5
<1>7. Found(c, run[c])' = FramesOf[w]
  BY <1>1, <1>4 DEF Found
<1>8. Complete(c)' <=>
          /\ Found(c, run[c])' = FramesOf[w]
          /\ ~ \E f \in Sample(Found(c, run[c])') : marks'[c][f] = "bad"
  BY <1>1 DEF Complete, Progress, LifecycleWorkload, Sample
<1> QED
  BY <1>6, <1>7, <1>8

\* An action that leaves the run of a cycle as it is.
LEMMA RestStays ==
    ASSUME WorldTyped, NEW c \in Cycles, run'[c] = run[c], marks'[c] = marks[c],
           markedAt'[c] = markedAt[c], publishedAt'[c] = publishedAt[c]
    PROVE  /\ LastProgress(c)' = LastProgress(c)
           /\ Complete(c) => Complete(c)'
           /\ LastProgress(c) # None => LastProgress(c) \in Int
<1>1. LastProgress(c)' = LastProgress(c)
  BY DEF LastProgress
<1>2. LastProgress(c) # None => LastProgress(c) \in Int
  BY DEF LastProgress, WorldTyped, Hours
<1> QED
  BY <1>1, <1>2, CompleteStays

\* An action that leaves all runs as they are.
LEMMA AllRestStays ==
    ASSUME WorldTyped, run' = run, marks' = marks, markedAt' = markedAt,
           publishedAt' = publishedAt
    PROVE  \A c \in Cycles : /\ Complete(c) => Complete(c)'
                             /\ LastProgress(c) # None => /\ LastProgress(c)' # None
                                                          /\ LastProgress(c) <= LastProgress(c)'
<1> SUFFICES ASSUME NEW c \in Cycles
             PROVE  /\ Complete(c) => Complete(c)'
                    /\ LastProgress(c) # None => /\ LastProgress(c)' # None
                                                 /\ LastProgress(c) <= LastProgress(c)'
  OBVIOUS
<1>1. PICK at : at = LastProgress(c)
  OBVIOUS
<1>2. /\ LastProgress(c)' = at /\ (Complete(c) => Complete(c)')
      /\ at # None => at \in Int
  BY <1>1, RestStays
<1> QED
  BY <1>1, <1>2

LEMMA WorldUnchangedSteps ==
    ASSUME WorldTyped, WorldSound, UNCHANGED world, clock' \in Hours, clock <= clock',
           upsets' \in [deploys : Nat, faults : Nat, bad : Nat], upsets.bad <= upsets'.bad
    PROVE  WorldStep
<1>1. /\ run' = run /\ marks' = marks /\ markedAt' = markedAt /\ publishedAt' = publishedAt
      /\ deployed' = deployed /\ report' = report /\ current' = current /\ latest' = latest
  BY DEF world
<1>2. WorldTyped'
  BY <1>1 DEF WorldTyped
<1>3. clock \in Int /\ clock' \in Int /\ upsets.bad \in Int /\ upsets'.bad \in Int
      /\ latest \in Int
  BY PolicyAssumption DEF WorldTyped, Hours
<1>4. WorldSound'
  <2> SUFFICES ASSUME NEW c \in Cycles
               PROVE  /\ report[c] # "missing" =>
                           Pinned(c) /\ \A f \in FramesOf[run[c]] : marks[c][f] # "absent"
                      /\ publishedAt[c] # None => report[c] = "passed" /\ publishedAt[c] <= clock'
                      /\ markedAt[c] # None => markedAt[c] <= clock'
                      /\ c \in current => publishedAt[c] # None
                      /\ \A f \in Frames : /\ marks[c][f] # "absent" => markedAt[c] # None
                                           /\ marks[c][f] = "bad" => upsets'.bad > 0
    BY <1>1 DEF WorldSound, Pinned
  <2>1. /\ publishedAt[c] # None => publishedAt[c] \in Int
        /\ markedAt[c] # None => markedAt[c] \in Int
    BY DEF WorldTyped, Hours
  <2> QED
    BY <1>3, <2>1 DEF WorldSound
<1>5. WorldGrows
  BY <1>1, <1>3, AllRestStays DEF WorldGrows
<1> QED
  BY <1>2, <1>4, <1>5 DEF WorldStep

LEMMA CreateDocumentsStep ==
    ASSUME WorldTyped, WorldSound, NEW c \in Cycles, CreateDocuments(c) \/ PinRun(c)
    PROVE  WorldStep
<1>1. /\ ~Pinned(c) /\ run' = [run EXCEPT ![c] = run'[c]]
      /\ run'[c] \in Snapshots \cup Workloads
      /\ marks' = marks /\ markedAt' = markedAt /\ publishedAt' = publishedAt
      /\ deployed' = deployed /\ report' = report /\ current' = current /\ latest' = latest
      /\ clock' = clock /\ upsets' = upsets
  BY DEF CreateDocuments, PinRun, Write, Pinned, Snapshots, WorldTyped
<1>2. WorldTyped'
  BY <1>1 DEF WorldTyped
<1>3. \A d \in Cycles : d # c => run'[d] = run[d]
  BY <1>1 DEF WorldTyped
<1>4. report[c] = "missing"
  BY <1>1 DEF WorldSound
<1>5. WorldSound'
  BY <1>1, <1>3, <1>4 DEF WorldSound, Pinned
<1>6. clock \in Int /\ upsets.bad \in Int /\ latest \in Int
  BY PolicyAssumption DEF WorldTyped, Hours
<1>7. ASSUME NEW d \in Cycles
      PROVE  /\ Pinned(d) => run'[d] = run[d]
             /\ LastProgress(d) # None => /\ LastProgress(d)' # None
                                          /\ LastProgress(d) <= LastProgress(d)'
             /\ Pinned(d) /\ Complete(d) => Complete(d)'
  <2>1. LastProgress(d)' = LastProgress(d) /\ (LastProgress(d) # None => LastProgress(d) \in Int)
    BY <1>1 DEF LastProgress, WorldTyped, Hours
  <2>2. LastProgress(d) # None => LastProgress(d)' # None /\ LastProgress(d) <= LastProgress(d)'
    <3>1. PICK at : at = LastProgress(d)
      OBVIOUS
    <3> QED
      BY <2>1, <3>1
  <2>3. Pinned(d) => d # c
    BY <1>1
  <2> QED
    BY <1>1, <1>3, <2>2, <2>3, CompleteStays
<1>8. WorldGrows
  BY <1>1, <1>6, <1>7 DEF WorldGrows
<1> QED
  BY <1>2, <1>5, <1>8 DEF WorldStep

LEMMA MarkStep ==
    ASSUME WorldTyped, WorldSound, NEW c \in Cycles, NEW f \in Frames, Mark(c, f)
    PROVE  WorldStep
<1>1. PICK mark \in {"good", "bad"} :
          /\ marks' = [marks EXCEPT ![c][f] = mark]
          /\ mark = "bad" => marks[c][f] = "absent"
          /\ upsets' \in [deploys : Nat, faults : Nat, bad : Nat] /\ upsets.bad <= upsets'.bad
          /\ mark = "bad" => upsets'.bad > 0
  <2>1. upsets \in [deploys : Nat, faults : Nat, bad : Nat] /\ upsets.bad \in Int
    BY DEF WorldTyped
  <2>2. CASE marks' = [marks EXCEPT ![c][f] = "good"] /\ UNCHANGED upsets
    BY <2>1, <2>2
  <2>3. CASE marks[c][f] = "absent" /\ marks' = [marks EXCEPT ![c][f] = "bad"] /\ Upset("bad")
    BY <2>1, <2>3, UpsetsCount
  <2> QED
    BY <2>2, <2>3 DEF Mark
<1>2. /\ Pinned(c) /\ f \in FramesOf[run[c]] /\ markedAt' = [markedAt EXCEPT ![c] = clock]
      /\ deployed' = deployed /\ run' = run /\ report' = report /\ publishedAt' = publishedAt
      /\ current' = current /\ latest' = latest /\ clock' = clock
  BY DEF Mark, Write
<1>3. /\ marks'[c][f] = mark /\ \A g \in Frames : g # f => marks'[c][g] = marks[c][g]
      /\ \A d \in Cycles : d # c => marks'[d] = marks[d] /\ markedAt'[d] = markedAt[d]
      /\ markedAt'[c] = clock
  BY <1>1, <1>2 DEF WorldTyped
<1>4. /\ clock \in Int /\ clock \in Hours /\ latest \in Int /\ None \notin Hours
      /\ upsets.bad \in Int /\ upsets'.bad \in Int
  BY <1>1, PolicyAssumption DEF WorldTyped, Hours
<1>5. WorldTyped'
  <2>1. marks' \in [Cycles -> [Frames -> Marks]]
    BY <1>1 DEF WorldTyped, Marks
  <2> QED
    BY <1>1, <1>2, <2>1 DEF WorldTyped
<1>6. WorldSound'
  <2> SUFFICES ASSUME NEW d \in Cycles
               PROVE  /\ report[d] # "missing" =>
                           Pinned(d) /\ \A g \in FramesOf[run[d]] : marks'[d][g] # "absent"
                      /\ publishedAt[d] # None => report[d] = "passed" /\ publishedAt[d] <= clock
                      /\ markedAt'[d] # None => markedAt'[d] <= clock
                      /\ d \in current => publishedAt[d] # None
                      /\ \A g \in Frames : /\ marks'[d][g] # "absent" => markedAt'[d] # None
                                           /\ marks'[d][g] = "bad" => upsets'.bad > 0
    BY <1>2 DEF WorldSound, Pinned
  <2>1. CASE d = c
    <3>1. run[c] \in Workloads
      BY <1>2 DEF Pinned, WorldTyped
    <3>2. FramesOf[run[c]] \subseteq Frames
      BY <3>1, PolicyAssumption
    <3> QED
      BY <1>1, <1>2, <1>3, <1>4, <2>1, <3>2 DEF WorldSound
  <2>2. CASE d # c
    BY <1>1, <1>3, <1>4, <2>2 DEF WorldSound
  <2> QED
    BY <2>1, <2>2
<1>7. ASSUME NEW d \in Cycles
      PROVE  /\ LastProgress(d) # None => /\ LastProgress(d)' # None
                                          /\ LastProgress(d) <= LastProgress(d)'
             /\ Complete(d) => Complete(d)'
  <2>1. CASE d # c
    <3>1. PICK at : at = LastProgress(d)
      OBVIOUS
    <3> QED
      BY <1>2, <1>3, <2>1, <3>1, RestStays
  <2>2. CASE d = c
    <3>1. run[c] \in Workloads
      BY <1>2 DEF Pinned, WorldTyped
    <3>2. FramesOf[run[c]] \subseteq Frames
      BY <3>1, PolicyAssumption
    <3>3. Complete(c) => Complete(c)'
      BY <1>1, <1>2, <1>3, <3>2, CompleteStays
    <3>4. CASE publishedAt[c] # None
      <4>1. PICK at \in Int : at = LastProgress(c) /\ at = LastProgress(c)' /\ at # None
        BY <1>2, <3>4 DEF LastProgress, WorldTyped, Hours
      <4> QED
        BY <2>2, <3>3, <4>1
    <3>5. CASE publishedAt[c] = None
      <4>1. LastProgress(c) = markedAt[c] /\ LastProgress(c)' = clock
        BY <1>2, <1>3, <3>5 DEF LastProgress
      <4> QED
        BY <1>4, <2>2, <3>3, <4>1 DEF WorldSound
    <3> QED
      BY <3>4, <3>5
  <2> QED
    BY <2>1, <2>2
<1>8. WorldGrows
  BY <1>1, <1>2, <1>4, <1>7 DEF WorldGrows
<1> QED
  BY <1>5, <1>6, <1>8 DEF WorldStep

LEMMA ValidateStep ==
    ASSUME WorldTyped, WorldSound, NEW c \in Cycles, Validate(c)
    PROVE  WorldStep
<1>1. PICK outcome \in {"passed", "failed"} : report' = [report EXCEPT ![c] = outcome]
  BY DEF Validate
<1>2. /\ Pinned(c) /\ report[c] # "passed" /\ \A f \in FramesOf[run[c]] : marks[c][f] # "absent"
      /\ run' = run /\ marks' = marks /\ markedAt' = markedAt /\ publishedAt' = publishedAt
      /\ deployed' = deployed /\ current' = current /\ latest' = latest
      /\ clock' = clock /\ upsets' = upsets
  BY DEF Validate, Write
<1>3. report'[c] = outcome /\ \A d \in Cycles : d # c => report'[d] = report[d]
  BY <1>1 DEF WorldTyped
<1>4. clock \in Int /\ upsets.bad \in Int /\ latest \in Int
  BY PolicyAssumption DEF WorldTyped, Hours
<1>5. WorldTyped'
  BY <1>1, <1>2 DEF WorldTyped, Reports
<1>6. publishedAt[c] = None
  BY <1>2 DEF WorldSound
<1>7. WorldSound'
  BY <1>2, <1>3, <1>6 DEF WorldSound, Pinned
<1>8. WorldGrows
  BY <1>2, <1>3, <1>4, AllRestStays DEF WorldGrows
<1> QED
  BY <1>5, <1>7, <1>8 DEF WorldStep

LEMMA PublishStep ==
    ASSUME WorldTyped, WorldSound, NEW c \in Cycles, Publish(c)
    PROVE  WorldStep
<1>1. /\ report[c] = "passed" /\ publishedAt[c] = None
      /\ publishedAt' = [publishedAt EXCEPT ![c] = clock]
      /\ run' = run /\ marks' = marks /\ markedAt' = markedAt /\ report' = report
      /\ deployed' = deployed /\ current' = current /\ latest' = latest
      /\ clock' = clock /\ upsets' = upsets
  BY DEF Publish, Write
<1>2. publishedAt'[c] = clock /\ \A d \in Cycles : d # c => publishedAt'[d] = publishedAt[d]
  BY <1>1 DEF WorldTyped
<1>3. /\ clock \in Int /\ clock \in Hours /\ None \notin Hours /\ upsets.bad \in Int
      /\ latest \in Int
  BY PolicyAssumption DEF WorldTyped, Hours
<1>4. WorldTyped'
  BY <1>1, <1>3 DEF WorldTyped
<1>5. WorldSound'
  BY <1>1, <1>2, <1>3 DEF WorldSound, Pinned
<1>6. ASSUME NEW d \in Cycles
      PROVE  /\ LastProgress(d) # None => /\ LastProgress(d)' # None
                                          /\ LastProgress(d) <= LastProgress(d)'
             /\ Complete(d) => Complete(d)'
  <2>1. Complete(d) => Complete(d)'
    BY <1>1, CompleteStays
  <2>2. CASE d # c
    <3>1. PICK at : at = LastProgress(d)
      OBVIOUS
    <3> QED
      BY <1>1, <1>2, <2>2, <3>1, RestStays
  <2>3. CASE d = c
    <3>1. LastProgress(c) = markedAt[c] /\ LastProgress(c)' = clock
      BY <1>1, <1>2, <1>3 DEF LastProgress
    <3> QED
      BY <1>3, <2>1, <2>3, <3>1 DEF WorldSound
  <2> QED
    BY <2>1, <2>2, <2>3
<1>7. WorldGrows
  BY <1>1, <1>2, <1>3, <1>6 DEF WorldGrows
<1> QED
  BY <1>4, <1>5, <1>7 DEF WorldStep

LEMMA WriteViewsStep ==
    ASSUME WorldTyped, WorldSound, NEW c \in Cycles, WriteCurrent(c) \/ WriteLatest(c)
    PROVE  WorldStep
<1>1. /\ run' = run /\ marks' = marks /\ markedAt' = markedAt /\ report' = report
      /\ deployed' = deployed /\ publishedAt' = publishedAt
      /\ clock' = clock /\ upsets' = upsets
  BY DEF WriteCurrent, WriteLatest, Write
<1>2. /\ current \subseteq current' /\ current' \subseteq Cycles
      /\ \A d \in current' : publishedAt[d] # None
      /\ latest' \in current' /\ latest <= latest'
  <2>1. \A d \in Cycles : d \in Int
    BY PolicyAssumption
  <2>2. current \subseteq Cycles /\ latest \in current /\ None \notin Cycles
    BY PolicyAssumption DEF WorldTyped
  <2>3. CASE WriteCurrent(c)
    BY <2>1, <2>2, <2>3 DEF WriteCurrent, WorldSound
  <2>4. CASE WriteLatest(c)
    BY <2>1, <2>2, <2>4 DEF WriteLatest, WorldSound
  <2> QED
    BY <2>3, <2>4
<1>3. clock \in Int /\ upsets.bad \in Int
  BY DEF WorldTyped, Hours
<1>4. WorldTyped'
  BY <1>1, <1>2 DEF WorldTyped
<1>5. WorldSound'
  BY <1>1, <1>2 DEF WorldSound, Pinned
<1>6. WorldGrows
  BY <1>1, <1>2, <1>3, AllRestStays DEF WorldGrows
<1> QED
  BY <1>4, <1>5, <1>6 DEF WorldStep

LEMMA RunsStep ==
    ASSUME WorldTyped, WorldSound, Runs
    PROVE  WorldStep /\ UNCHANGED <<pass, document>>
<1>1. ASSUME NEW c \in Cycles, CreateDocuments(c) \/ PinRun(c)
      PROVE  WorldStep /\ UNCHANGED <<pass, document>>
  BY <1>1, CreateDocumentsStep DEF CreateDocuments, PinRun, Write
<1>2. ASSUME NEW c \in Cycles, Validate(c)
      PROVE  WorldStep /\ UNCHANGED <<pass, document>>
  BY <1>2, ValidateStep DEF Validate, Write
<1>3. ASSUME NEW c \in Cycles, Publish(c)
      PROVE  WorldStep /\ UNCHANGED <<pass, document>>
  BY <1>3, PublishStep DEF Publish, Write
<1>4. ASSUME NEW c \in Cycles, WriteCurrent(c) \/ WriteLatest(c)
      PROVE  WorldStep /\ UNCHANGED <<pass, document>>
  BY <1>4, WriteViewsStep DEF WriteCurrent, WriteLatest, Write
<1>5. ASSUME NEW c \in Cycles, NEW f \in Frames, Mark(c, f)
      PROVE  WorldStep /\ UNCHANGED <<pass, document>>
  BY <1>5, MarkStep DEF Mark, Write
<1>6. ASSUME NEW workload \in Workloads, Deploy(workload)
      PROVE  WorldStep /\ UNCHANGED <<pass, document>>
  <2>1. /\ run' = run /\ marks' = marks /\ markedAt' = markedAt /\ report' = report
        /\ publishedAt' = publishedAt /\ current' = current /\ latest' = latest
        /\ clock' = clock /\ deployed' = workload /\ UNCHANGED <<pass, document>>
    BY <1>6 DEF Deploy, Write
  <2>2. /\ upsets' \in [deploys : Nat, faults : Nat, bad : Nat] /\ upsets.bad <= upsets'.bad
        /\ upsets.bad \in Int /\ upsets'.bad \in Int
    BY <1>6, UpsetsCount DEF Deploy, WorldTyped
  <2>3. clock \in Int /\ latest \in Int
    BY PolicyAssumption DEF WorldTyped, Hours
  <2>4. WorldTyped'
    BY <2>1, <2>2 DEF WorldTyped
  <2>5. WorldSound'
    BY <2>1, <2>2 DEF WorldSound, Pinned
  <2>6. WorldGrows
    BY <2>1, <2>2, <2>3, AllRestStays DEF WorldGrows
  <2> QED
    BY <2>1, <2>4, <2>5, <2>6 DEF WorldStep
<1>7. ASSUME Tick
      PROVE  WorldStep /\ UNCHANGED <<pass, document>>
  <2>1. UNCHANGED <<world, pass, document, upsets>> /\ clock < MaxHour /\ clock' = clock + 1
    BY <1>7 DEF Tick
  <2>2. /\ clock' \in Hours /\ clock <= clock' /\ upsets.bad \in Int
        /\ upsets \in [deploys : Nat, faults : Nat, bad : Nat]
    BY <2>1, PolicyTyped DEF WorldTyped, Hours
  <2> QED
    BY <2>1, <2>2, WorldUnchangedSteps
<1> QED
  BY <1>1, <1>2, <1>3, <1>4, <1>5, <1>6, <1>7 DEF Runs

-----------------------------------------------------------------------------
\* What the inspection knows stays true while the runs go on.

PassHolds == PassTyped /\ CandidatesRead /\ VerdictHolds

LEMMA TimesGrows ==
    ASSUME NEW a \in Int, NEW b \in Int, NEW p \in Nat, a <= b
    PROVE  a * p <= b * p
<1>1. (b - a) \in Nat
  OBVIOUS
<1>2. (b - a) * p >= 0
  BY <1>1
<1>3. (b - a) * p = b * p - a * p
  OBVIOUS
<1> QED
  BY <1>2, <1>3

LEMMA CyclesAreNumbers ==
    ASSUME WorldTyped
    PROVE  /\ Cycles \subseteq Int /\ current \subseteq Cycles /\ latest \in Int
          /\ None \notin Cycles
           /\ None \notin Hours /\ latest # None
  BY PolicyAssumption DEF WorldTyped, Hours

LEMMA FineStays ==
    ASSUME WorldTyped, WorldStep, NEW status, NEW now \in Int, NEW c, Fine(status, now, c)
    PROVE  Fine(status, now, c)'
<1>1. PICK a \in Int, b \in Int : a = latest /\ b = latest' /\ a <= b
  BY CyclesAreNumbers, PolicyAssumption DEF WorldStep, WorldGrows, WorldTyped
<1>2. PICK older \in Int, newer \in Int :
          older = a * Period /\ newer = b * Period /\ older <= newer
  <2>1. Period \in Nat
    BY PolicyTyped
  <2>2. a * Period <= b * Period
    BY <1>1, <2>1, TimesGrows
  <2>3. a * Period \in Int /\ b * Period \in Int
    BY <2>1
  <2> QED
    BY <2>2, <2>3
<1>3. status = "fresh" => now - b * Period < MaxLag + Period
  <2>1. MaxLag \in Int /\ Period \in Int
    BY PolicyTyped
  <2>2. status = "fresh" => now - older < MaxLag + Period
    BY <1>1, <1>2 DEF Fine
  <2>3. status = "fresh" => now - newer < MaxLag + Period
    BY <1>2, <2>1, <2>2
  <2> QED
    BY <1>2, <2>3
<1>4. ASSUME status = "building"
      PROVE  c \in Cycles /\ LastProgress(c)' \in Hours /\ now - LastProgress(c)' <= Recent
  <2>1. c \in Cycles /\ LastProgress(c) \in Hours /\ now - LastProgress(c) <= Recent
    BY <1>4 DEF Fine
  <2>2. LastProgress(c)' # None /\ LastProgress(c) <= LastProgress(c)'
    BY <2>1, CyclesAreNumbers DEF WorldStep, WorldGrows
  <2>3. LastProgress(c)' \in Hours
    BY <2>1, <2>2 DEF WorldStep, WorldTyped, LastProgress
  <2>4. PICK x \in Int, y \in Int : x = LastProgress(c) /\ y = LastProgress(c)'
    BY <2>1, <2>3 DEF Hours
  <2> QED
    BY <2>1, <2>2, <2>3, <2>4, PolicyTyped
<1> QED
  BY <1>1, <1>3, <1>4 DEF Fine

LEMMA CauseStays ==
    ASSUME WorldTyped, WorldStep, pass'.faulted = pass.faulted \/ pass'.faulted,
           pass'.verdict = pass.verdict, pass'.latest = pass.latest, pass'.now = pass.now,
           pass'.workload = pass.workload, Cause
    PROVE  Cause'
<1>1. CASE pass.faulted
  BY <1>1 DEF Cause
<1>2. CASE upsets.bad > 0
  <2>1. upsets.bad \in Int /\ upsets'.bad \in Int /\ upsets.bad <= upsets'.bad
    BY DEF WorldTyped, WorldStep, WorldGrows
  <2> QED
    BY <1>2, <2>1 DEF Cause
<1>3. CASE \E c \in Cycles \cap {pass.verdict.cycle, pass.latest} :
               Pinned(c) /\ run[c] # pass.workload
  <2>1. PICK c \in Cycles \cap {pass.verdict.cycle, pass.latest} :
            Pinned(c) /\ run[c] # pass.workload
    BY <1>3
  <2>2. run'[c] = run[c]
    BY <2>1 DEF WorldStep, WorldGrows
  <2> QED
    BY <2>1, <2>2 DEF Cause, Pinned
<1>4. CASE \E c \in Cycles : pass.now >= c * Period + MinLag /\ pass.latest < c
  BY <1>4 DEF Cause
<1> QED
  BY <1>1, <1>2, <1>3, <1>4 DEF Cause

\* The candidates depend on the time and on manifests that are there already.
LEMMA CandidatesStay ==
    ASSUME WorldTyped, WorldSound, WorldStep, pass.history \subseteq current,
           pass'.history = pass.history, pass'.now = pass.now, NEW value
    PROVE  Expected(pass)' = Expected(pass) /\ Candidates(pass, value)' = Candidates(pass, value)
<1>1. PICK H, now : H = pass.history /\ H = pass'.history /\ now = pass.now /\ now = pass'.now
  OBVIOUS
<1>2. \A c \in H : publishedAt'[c] = publishedAt[c]
  BY <1>1, CyclesAreNumbers DEF WorldStep, WorldGrows, WorldSound
<1>3. Grace(H)' = Grace(H)
  BY <1>2, GraceStays
<1>4. Expected(pass)' = Expected(pass)
  BY <1>1, <1>3 DEF Expected
<1> QED
  BY <1>1, <1>4 DEF Candidates

LEMMA ProgressStays ==
    ASSUME WorldTyped, WorldStep, NEW c, NEW p, ProgressRead(c, p), pass'.latest = pass.latest,
           pass'.workload = pass.workload, pass.latest = None \/ pass.latest \in Cycles
    PROVE  ProgressRead(c, p)'
<1>1. p.found => p.at \in Hours /\ LastProgress(c)' \in Hours /\ p.at <= LastProgress(c)'
  <2> SUFFICES ASSUME p.found
               PROVE  p.at \in Hours /\ LastProgress(c)' \in Hours /\ p.at <= LastProgress(c)'
    OBVIOUS
  <2>1. /\ c \in Cycles /\ p.at \in Hours /\ LastProgress(c) \in Hours /\ p.at <= LastProgress(c)
    BY DEF ProgressRead
  <2>2. LastProgress(c)' # None /\ LastProgress(c) <= LastProgress(c)'
    BY <2>1, CyclesAreNumbers DEF WorldStep, WorldGrows
  <2>3. LastProgress(c)' \in Hours
    BY <2>1, <2>2 DEF WorldStep, WorldTyped, LastProgress
  <2>4. PICK x \in Int, y \in Int : x = LastProgress(c) /\ y = LastProgress(c)'
    BY <2>1, <2>3 DEF Hours
  <2>5. p.at \in Int
    BY <2>1 DEF Hours
  <2> QED
    BY <2>1, <2>2, <2>3, <2>4, <2>5
<1>2. p.invalid => upsets'.bad > 0
  <2>1. upsets.bad \in Int /\ upsets'.bad \in Int /\ upsets.bad <= upsets'.bad
    BY DEF WorldTyped, WorldStep, WorldGrows
  <2> QED
    BY <2>1 DEF ProgressRead
<1>3. pass.latest # None /\ c = pass.latest =>
          p.complete \/ p.invalid \/ (Pinned(c)' /\ run'[c] # pass.workload)
  BY DEF ProgressRead, WorldStep, WorldGrows, Pinned
<1> QED
  BY <1>1, <1>2, <1>3 DEF ProgressRead

LEMMA PassTypedStays ==
    ASSUME WorldTyped, WorldStep, PassTyped, UNCHANGED pass
    PROVE  PassTyped'
<1>1. clock \in Int /\ clock' \in Int /\ clock <= clock' /\ pass.now \in 0..clock'
  BY DEF WorldTyped, WorldStep, WorldGrows, Hours, PassTyped
<1>2. pass.history \subseteq current'
  BY DEF PassTyped, WorldStep, WorldGrows
<1>3. pass.latest = None \/ (pass.latest \in current' /\ pass.latest <= latest')
  <2> SUFFICES ASSUME pass.latest # None
               PROVE  pass.latest \in current' /\ pass.latest <= latest'
    OBVIOUS
  <2>1. pass.latest \in current /\ pass.latest <= latest
    BY DEF PassTyped
  <2>2. latest \in Int /\ pass.latest \in Int /\ Cycles \subseteq Int
    BY <2>1, CyclesAreNumbers
  <2>3. latest' \in Int /\ latest <= latest' /\ pass.latest \in current'
    BY <2>1, <2>2 DEF WorldTyped, WorldStep, WorldGrows
  <2>4. PICK a \in Int, b \in Int, c \in Int : a = pass.latest /\ b = latest /\ c = latest'
    BY <2>2, <2>3
  <2> QED
    BY <2>1, <2>3, <2>4
<1>4. Settled' = Settled
  BY DEF Settled
<1> QED
  BY <1>1, <1>2, <1>3, <1>4 DEF PassTyped

LEMMA PassStays ==
    ASSUME WorldTyped, WorldSound, WorldStep, PassHolds, UNCHANGED pass
    PROVE  PassHolds'
<1>1. PassTyped'
  BY PassTypedStays DEF PassHolds
<1>2. /\ pass.history \subseteq current /\ (pass.latest = None \/ pass.latest \in Cycles)
      /\ pass.now \in Int
  BY CyclesAreNumbers DEF PassHolds, PassTyped
<1>3. CandidatesRead'
  <2> SUFFICES ASSUME pass.step = "progress"
               PROVE  CandidatesRead'
    BY DEF CandidatesRead
  <2>1. PICK value : value = pass.latest /\ value = pass'.latest
    OBVIOUS
  <2>2. Candidates(pass, value)' = Candidates(pass, value)
    BY <1>2, CandidatesStay
  <2>3. Candidates(pass, pass.latest)' = Candidates(pass, pass.latest)
    BY <2>1, <2>2
  <2>4. ASSUME NEW c \in DOMAIN pass.progress
        PROVE  ProgressRead(c, pass.progress[c])'
    <3>1. PICK p : p = pass.progress[c] /\ p = pass'.progress[c]
      OBVIOUS
    <3>2. ProgressRead(c, p)
      BY <3>1 DEF PassHolds, CandidatesRead
    <3>3. ProgressRead(c, p)'
      BY <1>2, <3>2, ProgressStays
    <3> QED
      BY <3>1, <3>3
  <2> QED
    BY <2>3, <2>4 DEF CandidatesRead, PassHolds
<1>4. VerdictHolds'
  <2> SUFFICES ASSUME Settled
               PROVE  VerdictHolds'
    BY DEF VerdictHolds, Settled
  <2>0. PICK now \in Int : now = pass.now
    BY <1>2
  <2>1. PICK status, c : status = pass.verdict.status /\ c = pass.verdict.cycle
    OBVIOUS
  <2>2. Fine(status, now, c)'
    BY <2>0, <2>1, FineStays DEF PassHolds, VerdictHolds
  <2>3. Alerting(pass.verdict.status) => Cause'
    BY CauseStays DEF PassHolds, VerdictHolds
  <2> QED
    BY <2>0, <2>1, <2>2, <2>3 DEF PassHolds, VerdictHolds
<1> QED
  BY <1>1, <1>3, <1>4 DEF PassHolds

LEMMA DocumentStays ==
    ASSUME WorldTyped, WorldStep, DocumentHolds, UNCHANGED document
    PROVE  DocumentHolds'
<1> SUFFICES ASSUME document # None
             PROVE  DocumentHolds'
  BY DEF DocumentHolds
<1>1. clock \in Int /\ clock' \in Int /\ clock <= clock' /\ document.now \in 0..clock'
  BY DEF WorldTyped, WorldStep, WorldGrows, Hours, DocumentHolds
<1>2. PICK now \in Int : now = document.now
  BY <1>1
<1>3. PICK status, c : status = document.status /\ c = document.cycle
  OBVIOUS
<1>4. Fine(status, now, c)'
  BY <1>2, <1>3, FineStays DEF DocumentHolds
<1> QED
  BY <1>1, <1>2, <1>3, <1>4 DEF DocumentHolds

-----------------------------------------------------------------------------
\* The inspection keeps its part of the invariant.

LEMMA InspectKeepsWorld ==
    ASSUME WorldTyped, WorldSound, Inspect
    PROVE  WorldStep /\ UNCHANGED <<clock, world>>
<1>1. UNCHANGED <<clock, world>> /\ (UNCHANGED upsets \/ Upset("faults"))
  BY DEF Inspect, Begin, ReadFast, ReadHistory, ReadLatest, ReadProgress, Classify,
         ReadLifecycle, FailInspection, WriteDocument, Crash, PassStep, LatestRead
<1>2. upsets' \in [deploys : Nat, faults : Nat, bad : Nat] /\ upsets.bad <= upsets'.bad
  <2>1. upsets \in [deploys : Nat, faults : Nat, bad : Nat] /\ upsets.bad \in Int
    BY DEF WorldTyped
  <2> QED
    BY <1>1, <2>1, UpsetsCount
<1>3. clock' \in Hours /\ clock <= clock'
  BY <1>1 DEF WorldTyped, Hours
<1> QED
  BY <1>1, <1>2, <1>3, WorldUnchangedSteps

LEMMA IdleHolds ==
    ASSUME WorldTyped', pass' = Idle
    PROVE  PassHolds'
<1>1. /\ DOMAIN Idle = {"step", "now", "workload", "history", "latest", "todo", "progress",
                        "verdict", "facts", "faulted"}
      /\ Idle.step = "idle" /\ Idle.now = 0 /\ Idle.workload = FirstWorkload
      /\ Idle.history = {} /\ Idle.latest = None /\ Idle.facts = <<>>
  BY DEF Idle
<1>2. 0 \in 0..clock' /\ FirstWorkload \in Workloads
  BY PolicyAssumption DEF WorldTyped, Hours
<1>3. ~Settled'
  BY <1>1 DEF Settled, ReadSteps
<1>4. PassTyped'
  BY <1>1, <1>2, <1>3 DEF PassTyped, Steps
<1> QED
  BY <1>1, <1>3, <1>4 DEF PassHolds, CandidatesRead, VerdictHolds

LEMMA BeginStep ==
    ASSUME WorldTyped, WorldStep, Begin
    PROVE  PassHolds'
<1>1. /\ pass' = [Idle EXCEPT !.step = "fast", !.now = clock, !.workload = deployed]
      /\ clock' = clock
  BY DEF Begin, PassStep
<1>2. /\ DOMAIN pass' = {"step", "now", "workload", "history", "latest", "todo", "progress",
                        "verdict", "facts", "faulted"}
      /\ pass'.step = "fast" /\ pass'.now = clock /\ pass'.workload = deployed
      /\ pass'.history = {} /\ pass'.latest = None /\ pass'.progress = <<>> /\ pass'.facts = <<>>
  BY <1>1 DEF Idle
<1>3. clock \in 0..clock' /\ deployed \in Workloads
  BY <1>1 DEF WorldTyped, Hours
<1>4. ~Settled'
  BY <1>2 DEF Settled, ReadSteps
<1>5. PassTyped'
  BY <1>2, <1>3, <1>4 DEF PassTyped, Steps
<1> QED
  BY <1>2, <1>4, <1>5 DEF PassHolds, CandidatesRead, VerdictHolds

\* A cycle of the manifest that the policy allows is young.
LEMMA ExpectedIsYoung ==
    ASSUME WorldTyped, WorldSound, NEW H \in SUBSET current, NEW now \in 0..clock,
           NEW c \in Cycles, c >= ExpectedCycle(now, Grace(H))
    PROVE  now - c * Period < MaxLag + Period
<1>1. H \in SUBSET Cycles /\ \A d \in H : publishedAt[d] \in Nat
  BY PolicyTyped DEF WorldTyped, WorldSound, Hours
<1>2. PICK grace \in 10 * MinLag..10 * MaxLag : grace = Grace(H)
  BY <1>1, GraceWithin
<1>3. PICK e \in Int : e = ExpectedCycle(now, grace) /\ now - e * Period < MaxLag + Period
  BY <1>2, ExpectedIsDue
<1>4. c \in Int /\ e <= c
  BY <1>2, <1>3, CyclesAreNumbers
<1>5. PICK p \in Nat : p = Period
  BY PolicyTyped
<1>6. PICK older \in Int, newer \in Int : older = e * p /\ newer = c * p /\ older <= newer
  BY <1>4, TimesGrows
<1> QED
  <2>1. now \in Int /\ MaxLag \in Int
    BY PolicyTyped DEF WorldTyped, Hours
  <2>2. now - older < MaxLag + p
    BY <1>3, <1>5, <1>6
  <2>3. now - newer < MaxLag + p
    BY <1>6, <2>1, <2>2
  <2> QED
    BY <1>5, <1>6, <2>3

LEMMA ReadFastStep ==
    ASSUME WorldTyped, WorldSound, WorldStep, PassHolds, ReadFast
    PROVE  PassHolds'
<1>1. PICK value \in {latest, None}, faulted \in BOOLEAN :
          /\ LatestRead(value, faulted)
          /\ LET p == [pass EXCEPT !.faulted = @ \/ faulted]
             IN  PassStep(IF FastFresh(pass, value) THEN Verdict(p, "fresh", value, TRUE)
                          ELSE [p EXCEPT !.step = "history"])
  BY DEF ReadFast
<1>2. At("fast") /\ UNCHANGED <<clock, world>>
  BY <1>1 DEF ReadFast, PassStep
<1>3. /\ DOMAIN pass = {"step", "now", "workload", "history", "latest", "todo", "progress",
                        "verdict", "facts", "faulted"}
      /\ pass.step = "fast" /\ pass.progress = <<>> /\ pass.facts = <<>>
  BY <1>2 DEF PassHolds, PassTyped, Settled, ReadSteps, At
<1>4. /\ pass.now \in 0..clock' /\ pass.workload \in Workloads /\ pass.history \subseteq current'
      /\ (pass.latest = None \/ (pass.latest \in current' /\ pass.latest <= latest'))
  BY <1>2 DEF PassHolds, PassTyped, world
<1>5. CASE ~FastFresh(pass, value)
  <2>1. pass' = [[pass EXCEPT !.faulted = @ \/ faulted] EXCEPT !.step = "history"]
    BY <1>1, <1>5 DEF PassStep
  <2>2. /\ DOMAIN pass' = DOMAIN pass /\ pass'.step = "history" /\ pass'.now = pass.now
        /\ pass'.workload = pass.workload /\ pass'.history = pass.history
        /\ pass'.latest = pass.latest /\ pass'.progress = <<>> /\ pass'.facts = <<>>
    BY <1>3, <2>1
  <2>3. ~Settled'
    BY <2>2 DEF Settled, ReadSteps
  <2>4. PassTyped'
    BY <1>3, <1>4, <2>2, <2>3 DEF PassTyped, Steps
  <2> QED
    BY <2>2, <2>3, <2>4 DEF PassHolds, CandidatesRead, VerdictHolds
<1>6. CASE FastFresh(pass, value)
  <2>1. pass' = Verdict([pass EXCEPT !.faulted = @ \/ faulted], "fresh", value, TRUE)
    BY <1>1, <1>6 DEF PassStep
  <2>2. /\ DOMAIN pass' = DOMAIN pass /\ pass'.step = "snapshot" /\ pass'.now = pass.now
        /\ pass'.workload = pass.workload /\ pass'.history = pass.history
        /\ pass'.latest = pass.latest /\ pass'.progress = <<>> /\ pass'.facts = <<>>
        /\ pass'.verdict = [status |-> "fresh", cycle |-> value]
    BY <1>3, <2>1 DEF Verdict
  <2>3. value = latest /\ value \in current /\ value \in Cycles
    BY <1>1, <1>6, CyclesAreNumbers DEF FastFresh, WorldTyped
  <2>4. PICK now \in 0..clock : now = pass.now
    BY DEF PassHolds, PassTyped
  <2>5. now - latest * Period < MaxLag + Period
    <3>1. {value} \in SUBSET current /\ value >= ExpectedCycle(now, Grace({value}))
      BY <1>6, <2>3, <2>4 DEF FastFresh
    <3> QED
      BY <2>3, <3>1, ExpectedIsYoung
  <2>6. VerdictHolds'
    <3>1. /\ pass'.verdict.status = "fresh" /\ pass'.verdict.cycle = value /\ latest' = latest
      BY <1>2, <2>2 DEF world
    <3>2. Fine(pass.verdict.status, pass.now, pass.verdict.cycle)'
      BY <2>2, <2>4, <2>5, <3>1 DEF Fine
    <3> QED
      BY <2>3, <3>1, <3>2 DEF VerdictHolds, Statuses, Alerting
  <2>7. PassTyped'
    <3>1. Settled' /\ pass'.verdict.status = "fresh"
      BY <2>2 DEF Settled, ReadSteps
    <3> QED
      BY <1>3, <1>4, <2>2, <3>1 DEF PassTyped, Steps, ReadSteps
  <2> QED
    BY <2>2, <2>6, <2>7 DEF PassHolds, CandidatesRead
<1> QED
  BY <1>5, <1>6

LEMMA ReadHistoryStep ==
    ASSUME WorldTyped, WorldStep, PassHolds, ReadHistory
    PROVE  PassHolds'
<1>1. PICK history \in SUBSET current, faulted \in {TRUE, pass.faulted} :
          pass' = [pass EXCEPT !.step = "published", !.history = history, !.faulted = faulted]
  <2>1. DOMAIN pass = {"step", "now", "workload", "history", "latest", "todo", "progress",
                       "verdict", "facts", "faulted"}
    BY DEF PassHolds, PassTyped
  <2>2. CASE pass' = [pass EXCEPT !.step = "published", !.history = History]
    <3>1. pass' = [pass EXCEPT !.step = "published", !.history = History,
                               !.faulted = pass.faulted]
      BY <2>1, <2>2
    <3> QED
      BY <3>1 DEF History
  <2>3. CASE \E c \in History : pass' = [pass EXCEPT !.step = "published",
                                                     !.history = History \ {c}, !.faulted = TRUE]
    BY <2>3 DEF History
  <2> QED
    BY <2>2, <2>3 DEF ReadHistory, PassStep
<1>2. At("history") /\ UNCHANGED <<clock, world>>
  BY DEF ReadHistory, PassStep
<1>3. /\ DOMAIN pass = {"step", "now", "workload", "history", "latest", "todo", "progress",
                        "verdict", "facts", "faulted"}
      /\ pass.step = "history" /\ pass.progress = <<>> /\ pass.facts = <<>>
  BY <1>2 DEF PassHolds, PassTyped, Settled, ReadSteps, At
<1>4. /\ pass.now \in 0..clock' /\ pass.workload \in Workloads
      /\ (pass.latest = None \/ (pass.latest \in current' /\ pass.latest <= latest'))
      /\ history \subseteq current'
  BY <1>2 DEF PassHolds, PassTyped, world
<1>5. /\ DOMAIN pass' = DOMAIN pass /\ pass'.step = "published" /\ pass'.now = pass.now
      /\ pass'.workload = pass.workload /\ pass'.history = history
      /\ pass'.latest = pass.latest /\ pass'.progress = <<>> /\ pass'.facts = <<>>
  BY <1>1, <1>3
<1>6. ~Settled'
  BY <1>5 DEF Settled, ReadSteps
<1>7. PassTyped'
  BY <1>3, <1>4, <1>5, <1>6 DEF PassTyped, Steps
<1> QED
  BY <1>5, <1>6, <1>7 DEF PassHolds, CandidatesRead, VerdictHolds

\* The candidates are finitely many numbers, and the expected cycle is one of them.
LEMMA CandidatesAreNumbers ==
    ASSUME WorldTyped, WorldSound, PassTyped, NEW value \in Cycles \cup {None}
    PROVE  /\ Expected(pass) \in Int /\ Expected(pass) * Period + MinLag <= pass.now
           /\ Candidates(pass, value) \in SUBSET Int /\ IsFiniteSet(Candidates(pass, value))
           /\ Expected(pass) \in Candidates(pass, value)
           /\ value # None /\ value >= Expected(pass) => value \in Candidates(pass, value)
           /\ \A c \in Candidates(pass, value) : c >= Expected(pass)
<1>1. PICK now \in Nat : now = pass.now
  BY DEF PassTyped
<1>2. pass.history \in SUBSET Cycles /\ \A d \in pass.history : publishedAt[d] \in Nat
  BY DEF PassTyped, WorldTyped, WorldSound, Hours
<1>3. PICK grace \in 10 * MinLag..10 * MaxLag : grace = Grace(pass.history)
  BY <1>2, GraceWithin
<1>4. PICK e \in Int : e = Expected(pass) /\ e = ExpectedCycle(now, grace)
  BY <1>1, <1>3, ExpectedIsDue DEF Expected
<1>5. e * Period + MinLag <= now
  BY <1>4, ExpectedIsDue
<1> DEFINE later == {c \in LatestCycles(now) : c >= e}
           known == {c \in {value} \ {None} : c >= e}
<1>6. Candidates(pass, value) = {e} \cup later \cup known
  BY <1>1, <1>4 DEF Candidates
<1>7. LatestCycles(now) \subseteq Int /\ IsFiniteSet(LatestCycles(now))
  BY LatestAreInARow
<1>8. IsFiniteSet({e}) /\ IsFiniteSet(later) /\ IsFiniteSet(known)
  <2>1. later \in SUBSET LatestCycles(now) /\ known \in SUBSET {value}
    OBVIOUS
  <2> HIDE DEF later, known
  <2> QED
    BY <1>7, <2>1, FS_Subset, FS_Singleton
<1>9. known \subseteq Int
  BY CyclesAreNumbers
<1>10. IsFiniteSet({e} \cup later \cup known)
  <2> HIDE DEF later, known
  <2>1. IsFiniteSet({e} \cup later)
    BY <1>8, FS_Union
  <2> QED
    BY <1>8, <2>1, FS_Union
<1>11. Candidates(pass, value) \in SUBSET Int
  BY <1>6, <1>7, <1>9
<1>12. /\ e \in Candidates(pass, value)
       /\ value # None /\ value >= e => value \in Candidates(pass, value)
       /\ \A c \in Candidates(pass, value) : c >= e
  BY <1>6
<1> QED
  BY <1>1, <1>4, <1>5, <1>6, <1>10, <1>11, <1>12

LEMMA ReadLatestStep ==
    ASSUME WorldTyped, WorldSound, WorldStep, PassHolds, ReadLatest
    PROVE  PassHolds'
<1>1. PICK value \in {latest, None}, faulted \in BOOLEAN :
          /\ LatestRead(value, faulted)
          /\ pass' = [pass EXCEPT !.step = "progress", !.latest = value,
                                  !.todo = Candidates(pass, value), !.faulted = @ \/ faulted]
  BY DEF ReadLatest, PassStep
<1>2. At("published") /\ UNCHANGED <<clock, world>>
  BY <1>1 DEF ReadLatest, PassStep
<1>3. /\ DOMAIN pass = {"step", "now", "workload", "history", "latest", "todo", "progress",
                        "verdict", "facts", "faulted"}
      /\ pass.step = "published" /\ pass.progress = <<>> /\ pass.facts = <<>>
  BY <1>2 DEF PassHolds, PassTyped, Settled, ReadSteps, At
<1>4. /\ pass.now \in 0..clock' /\ pass.workload \in Workloads /\ pass.history \subseteq current'
  BY <1>2 DEF PassHolds, PassTyped, world
<1>5. /\ DOMAIN pass' = DOMAIN pass /\ pass'.step = "progress" /\ pass'.now = pass.now
      /\ pass'.workload = pass.workload /\ pass'.history = pass.history
      /\ pass'.latest = value /\ pass'.progress = <<>> /\ pass'.facts = <<>>
      /\ pass'.todo = Candidates(pass, value) /\ pass'.faulted = (pass.faulted \/ faulted)
  BY <1>1, <1>3
<1>6. value = None => faulted
  BY <1>1, CyclesAreNumbers DEF LatestRead
<1>7. value = None \/ (value \in current' /\ value <= latest')
  <2>1. latest \in Int /\ latest \in current /\ latest' = latest /\ current' = current
    BY <1>2, CyclesAreNumbers DEF WorldTyped, world
  <2> QED
    BY <2>1
<1>8. ~Settled'
  BY <1>5 DEF Settled, ReadSteps
<1>9. PassTyped'
  BY <1>3, <1>4, <1>5, <1>6, <1>7, <1>8 DEF PassTyped, Steps
<1>10. CandidatesRead'
  <2>1. Candidates(pass, value)' = Candidates(pass, value)
    BY <1>5, CandidatesStay DEF PassHolds, PassTyped
  <2>2. Candidates(pass, pass.latest)' = Candidates(pass, value)
    BY <1>5, <2>1
  <2>3. DOMAIN pass'.progress = {}
    BY <1>5
  <2> QED
    BY <1>5, <2>2, <2>3 DEF CandidatesRead
<1> QED
  BY <1>8, <1>9, <1>10 DEF PassHolds, VerdictHolds

\* What is read of a cycle is true of it.
LEMMA ProgressIsRead ==
    ASSUME WorldTyped, WorldSound, PassTyped, NEW c \in Cycles, NEW manifest
    PROVE  ProgressRead(c, Progress(c, pass.workload, manifest))
<1> DEFINE w == pass.workload
           found == Found(c, w)
           p == Progress(c, w, manifest)
<1>1. /\ p.found = (found # {}) /\ p.at = LastProgress(c)
      /\ p.invalid = (\E f \in Sample(found) : marks[c][f] = "bad")
      /\ p.complete = (found = FramesOf[w] /\ ~p.invalid)
  BY DEF Progress
<1>2. w \in Workloads /\ FramesOf[w] \subseteq Frames /\ Sample(found) \subseteq found
      /\ found \subseteq FramesOf[w]
  BY PolicyAssumption DEF PassTyped, Sample, Found
<1>3. p.found => LastProgress(c) \in Hours /\ LastProgress(c) <= LastProgress(c)
  <2> SUFFICES ASSUME p.found
               PROVE  LastProgress(c) \in Hours /\ LastProgress(c) <= LastProgress(c)
    OBVIOUS
  <2>1. PICK f \in Frames : marks[c][f] # "absent"
    BY <1>1, <1>2 DEF Found
  <2>2. LastProgress(c) \in Hours
    BY <2>1 DEF LastProgress, WorldTyped, WorldSound
  <2>3. PICK at \in Int : at = LastProgress(c)
    BY <2>2 DEF Hours
  <2> QED
    BY <2>2, <2>3
<1>4. p.invalid => upsets.bad > 0
  BY <1>1, <1>2 DEF WorldSound
<1>5. ASSUME pass.latest # None, c = pass.latest, run[c] = w
      PROVE  p.complete \/ p.invalid
  <2>1. \A f \in FramesOf[w] : marks[c][f] # "absent"
    BY <1>5 DEF PassTyped, WorldSound
  <2>2. found = FramesOf[w]
    BY <2>1 DEF Found
  <2> QED
    BY <1>1, <2>2
<1>6. pass.latest # None /\ c = pass.latest => Pinned(c)
  BY DEF PassTyped, WorldSound
<1> HIDE DEF w, p
<1>7. ProgressRead(c, p)
  BY <1>1, <1>3, <1>4, <1>5, <1>6 DEF ProgressRead, w
<1> QED
  BY <1>7 DEF p, w

LEMMA ReadProgressStep ==
    ASSUME WorldTyped, WorldSound, WorldStep, PassHolds, ReadProgress
    PROVE  PassHolds'
<1> DEFINE c == Min(pass.todo)
           manifest == c \in pass.history \/ c = pass.latest
           read == IF c \in Cycles THEN Progress(c, pass.workload, manifest) ELSE NoProgress
<1>1. /\ At("progress") /\ pass.todo # {} /\ UNCHANGED <<clock, world>>
      /\ pass' = [pass EXCEPT !.todo = @ \ {c}, !.progress = Noted(@, c, read)]
  BY DEF ReadProgress, PassStep
<1>2. /\ DOMAIN pass = {"step", "now", "workload", "history", "latest", "todo", "progress",
                        "verdict", "facts", "faulted"}
      /\ pass.step = "progress" /\ pass.facts = <<>>
  BY <1>1 DEF PassHolds, PassTyped, Settled, ReadSteps, At
<1>3. /\ pass.now \in 0..clock' /\ pass.workload \in Workloads /\ pass.history \subseteq current'
      /\ (pass.latest = None \/ (pass.latest \in current' /\ pass.latest <= latest'))
      /\ pass.latest = None => pass.faulted
  <2>1. ~Settled
    BY <1>2 DEF Settled, ReadSteps
  <2> QED
    BY <1>1, <1>2, <2>1 DEF PassHolds, PassTyped, world
<1>4. c \in pass.todo
  <2>1. pass.latest \in Cycles \cup {None}
    BY CyclesAreNumbers DEF PassHolds, PassTyped
  <2>2. /\ Candidates(pass, pass.latest) \in SUBSET Int
        /\ IsFiniteSet(Candidates(pass, pass.latest))
    BY <2>1, CandidatesAreNumbers DEF PassHolds
  <2>3. pass.todo \in SUBSET Candidates(pass, pass.latest)
    BY <1>2 DEF PassHolds, CandidatesRead
  <2>4. pass.todo \in SUBSET Int /\ IsFiniteSet(pass.todo)
    BY <2>2, <2>3, FS_Subset
  <2> QED
    BY <1>1, <2>4, MinOfFinite
<1>5. ProgressRead(c, read)
  <2>1. CASE c \in Cycles
    BY <2>1, ProgressIsRead DEF PassHolds
  <2>2. CASE c \notin Cycles
    <3>1. /\ ~NoProgress.found /\ ~NoProgress.run /\ ~NoProgress.invalid
      BY DEF NoProgress
    <3>2. pass.latest # None => c # pass.latest
      BY <2>2, CyclesAreNumbers DEF PassHolds, PassTyped
    <3> QED
      BY <2>2, <3>1, <3>2 DEF ProgressRead
  <2> QED
    BY <2>1, <2>2
<1> HIDE DEF c, read
<1>6. /\ DOMAIN pass' = DOMAIN pass /\ pass'.step = "progress" /\ pass'.now = pass.now
      /\ pass'.workload = pass.workload /\ pass'.history = pass.history
      /\ pass'.latest = pass.latest /\ pass'.facts = <<>> /\ pass'.faulted = pass.faulted
      /\ pass'.todo = pass.todo \ {c} /\ pass'.progress = Noted(pass.progress, c, read)
  BY <1>1, <1>2
<1>7. ~Settled'
  BY <1>6 DEF Settled, ReadSteps
<1>8. PassTyped'
  BY <1>2, <1>3, <1>6, <1>7 DEF PassTyped, Steps
<1>9. CandidatesRead'
  <2>1. PICK value : value = pass.latest /\ value = pass'.latest
    BY <1>6
  <2>2. Candidates(pass, value)' = Candidates(pass, value)
    BY <1>6, CandidatesStay DEF PassHolds, PassTyped
  <2>3. Candidates(pass, pass.latest)' = Candidates(pass, pass.latest)
    BY <2>1, <2>2
  <2>4. DOMAIN pass'.progress = DOMAIN pass.progress \cup {c}
    BY <1>6 DEF Noted
  <2>5. pass'.todo \cup DOMAIN pass'.progress = Candidates(pass, pass.latest)'
    BY <1>2, <1>4, <1>6, <2>3, <2>4 DEF PassHolds, CandidatesRead
  <2>6. pass.latest = None \/ pass.latest \in Cycles
    BY CyclesAreNumbers DEF PassHolds, PassTyped
  <2>7. ASSUME NEW d \in DOMAIN pass'.progress
        PROVE  ProgressRead(d, pass.progress[d])'
    <3>1. PICK p : p = pass'.progress[d]
      OBVIOUS
    <3>2. ProgressRead(d, p)
      <4>1. CASE d = c
        <5>1. p = read
          BY <1>6, <3>1, <4>1 DEF Noted
        <5> QED
          BY <1>5, <4>1, <5>1
      <4>2. CASE d # c
        <5>1. d \in DOMAIN pass.progress
          BY <2>4, <4>2
        <5>2. p = pass.progress[d]
          BY <1>6, <3>1, <4>2, <5>1 DEF Noted
        <5> QED
          BY <1>2, <5>1, <5>2 DEF PassHolds, CandidatesRead
      <4> QED
        BY <4>1, <4>2
    <3>3. ProgressRead(d, p)'
      BY <1>6, <2>6, <3>2, ProgressStays
    <3> QED
      BY <3>1, <3>3
  <2> QED
    BY <2>5, <2>7 DEF CandidatesRead
<1> QED
  BY <1>7, <1>8, <1>9 DEF PassHolds, VerdictHolds

LEMMA TargetIsACandidate ==
    ASSUME WorldTyped, WorldSound, PassTyped,
           DOMAIN pass.progress = Candidates(pass, pass.latest)
    PROVE  /\ Target(pass) \in DOMAIN pass.progress
           /\ pass.latest # None /\ pass.latest >= Expected(pass)
                 => pass.latest \in DOMAIN pass.progress
<1> DEFINE later == {c \in Observed(pass) \cup ({pass.latest} \ {None}) : c >= Expected(pass)}
           T == {Expected(pass)} \cup later
<1>1. pass.latest \in Cycles \cup {None}
  BY CyclesAreNumbers DEF PassTyped
<1>2. /\ Expected(pass) \in DOMAIN pass.progress
      /\ pass.latest # None /\ pass.latest >= Expected(pass)
            => pass.latest \in DOMAIN pass.progress
      /\ DOMAIN pass.progress \in SUBSET Int /\ IsFiniteSet(DOMAIN pass.progress)
  BY <1>1, CandidatesAreNumbers
<1>3. T \in SUBSET (DOMAIN pass.progress)
  BY <1>2 DEF Observed
<1>4. T # {}
  OBVIOUS
<1>5. Target(pass) = Max(T)
  BY DEF Target
<1> HIDE DEF T
<1>6. T \in SUBSET Int /\ IsFiniteSet(T)
  BY <1>2, <1>3, FS_Subset
<1>7. Max(T) \in T
  BY <1>4, <1>6, MaxOfFinite
<1> QED
  BY <1>2, <1>3, <1>5, <1>7

\* A due cycle that a manifest of an earlier one leaves unpublished is one of the cycles.
LEMMA ExpectedIsACycle ==
    ASSUME WorldTyped, WorldSound, PassTyped, pass.latest # None, pass.latest < Expected(pass)
    PROVE  \E c \in Cycles : pass.now >= c * Period + MinLag /\ pass.latest < c
<1>1. pass.latest \in Cycles \cup {None} /\ pass.latest \in Cycles /\ pass.latest \in Nat
  BY CyclesAreNumbers, PolicyAssumption DEF PassTyped
<1>2. Expected(pass) \in Int /\ Expected(pass) * Period + MinLag <= pass.now
  BY <1>1, CandidatesAreNumbers
<1>3. PICK e \in Int, now \in Int, l \in Nat : e = Expected(pass) /\ now = pass.now
      /\ l = pass.latest
  BY <1>1, <1>2 DEF PassTyped
<1>4. now <= MaxHour
  BY <1>3, PolicyTyped DEF PassTyped, WorldTyped, Hours
<1>5. PICK p \in Nat, lag \in Nat, last \in Nat : p = Period /\ p > 0 /\ lag = MinLag
      /\ last = MaxHour
  BY PolicyTyped
<1>6. e \in Nat /\ e > l /\ e * p + lag <= now
  BY <1>2, <1>3, <1>5
<1>7. e <= e * p
  <2>1. (p - 1) \in Nat
    BY <1>5
  <2>2. e * (p - 1) >= 0
    BY <1>6, <2>1
  <2>3. e * (p - 1) = e * p - e
    BY <1>6
  <2>4. e * p \in Int
    BY <1>6
  <2> QED
    BY <1>6, <2>2, <2>3, <2>4
<1>8. PICK first \in Int : first = FirstCycle /\ first <= l
  BY <1>1, <1>3, FirstIsACycle, CyclesAreNumbers
<1>9. PICK due \in Int : due = e * p
  BY <1>6
<1>10. e \in first..last /\ due + lag <= last
  BY <1>4, <1>5, <1>6, <1>7, <1>8, <1>9
<1>11. e \in Cycles
  <2>1. \A c \in FirstCycle..MaxHour : c * Period + MinLag <= MaxHour => c \in Cycles
    BY PolicyAssumption DEF FirstCycle
  <2> QED
    BY <1>5, <1>8, <1>9, <1>10, <2>1
<1> QED
  BY <1>2, <1>3, <1>6, <1>11

LEMMA StatusIs ==
    ASSUME NEW p, NEW q, q = p.progress[Target(p)]
    PROVE  /\ StatusOf(p) \in Statuses
           /\ StatusOf(p) = "fresh" => p.latest # None /\ p.latest >= Expected(p)
           /\ StatusOf(p) = "building" => q.found /\ p.now - q.at <= Recent
           /\ StatusOf(p) \notin {"fresh", "building"} =>
                  \/ q.invalid
                  \/ p.latest # None /\ p.latest >= Expected(p) /\ ~p.progress[p.latest].complete
                  \/ ~ (p.latest # None /\ p.latest >= Expected(p))
<1> DEFINE satisfied == p.latest # None /\ p.latest >= Expected(p)
           waiting == q.complete /\ ~(q.published /\ q.manifest)
<1>1. CASE q.invalid
  <2>1. StatusOf(p) = "incomplete"
    BY <1>1 DEF StatusOf
  <2> QED
    BY <1>1, <2>1 DEF Statuses
<1>2. CASE ~q.invalid /\ satisfied
  <2>1. StatusOf(p) = IF p.progress[p.latest].complete THEN "fresh" ELSE "incomplete"
    BY <1>2 DEF StatusOf
  <2> QED
    BY <1>2, <2>1 DEF Statuses
<1>3. CASE ~q.invalid /\ ~satisfied /\ waiting
  <2>1. StatusOf(p) = "incomplete"
    BY <1>3 DEF StatusOf
  <2> QED
    BY <1>3, <2>1 DEF Statuses
<1>4. CASE ~q.invalid /\ ~satisfied /\ ~waiting /\ q.found
  <2>1. StatusOf(p) = IF p.now - q.at <= Recent THEN "building" ELSE "stalled"
    BY <1>4 DEF StatusOf
  <2> QED
    BY <1>4, <2>1 DEF Statuses
<1>5. CASE ~q.invalid /\ ~satisfied /\ ~waiting /\ ~q.found
  <2>1. StatusOf(p) = IF p.latest = None THEN "unavailable" ELSE "stale"
    BY <1>5 DEF StatusOf
  <2> QED
    BY <1>5, <2>1 DEF Statuses
<1> QED
  BY <1>1, <1>2, <1>3, <1>4, <1>5

LEMMA ClassifyStep ==
    ASSUME WorldTyped, WorldSound, WorldStep, PassHolds, Classify
    PROVE  PassHolds'
<1>1. /\ At("progress") /\ pass.todo = {} /\ UNCHANGED <<clock, world>>
      /\ pass' = Verdict(pass, StatusOf(pass), Target(pass), pass.progress[Target(pass)].run)
  BY DEF Classify, PassStep
<1>2. PICK status, target, q : /\ status = StatusOf(pass) /\ target = Target(pass)
                               /\ q = pass.progress[target]
  OBVIOUS
<1>3. /\ DOMAIN pass = {"step", "now", "workload", "history", "latest", "todo", "progress",
                        "verdict", "facts", "faulted"}
      /\ pass.step = "progress" /\ pass.facts = <<>>
  BY <1>1 DEF PassHolds, PassTyped, Settled, ReadSteps, At
<1>4. /\ pass.now \in 0..clock' /\ pass.workload \in Workloads /\ pass.history \subseteq current'
      /\ (pass.latest = None \/ (pass.latest \in current' /\ pass.latest <= latest'))
      /\ pass.latest = None => pass.faulted
  <2>1. ~Settled
    BY <1>3 DEF Settled, ReadSteps
  <2> QED
    BY <1>1, <1>3, <2>1 DEF PassHolds, PassTyped, world
<1>5. DOMAIN pass.progress = Candidates(pass, pass.latest)
  BY <1>1, <1>3 DEF PassHolds, CandidatesRead
<1>6. /\ target \in DOMAIN pass.progress
      /\ pass.latest # None /\ pass.latest >= Expected(pass) =>
             pass.latest \in DOMAIN pass.progress
  BY <1>2, <1>5, TargetIsACandidate DEF PassHolds
<1>7. /\ ProgressRead(target, q)
      /\ pass.latest # None /\ pass.latest >= Expected(pass) =>
             ProgressRead(pass.latest, pass.progress[pass.latest])
  BY <1>2, <1>3, <1>6 DEF PassHolds, CandidatesRead
<1>8. /\ status \in Statuses
      /\ status = "fresh" => pass.latest # None /\ pass.latest >= Expected(pass)
      /\ status = "building" => q.found /\ pass.now - q.at <= Recent
      /\ status \notin {"fresh", "building"} =>
             \/ q.invalid
             \/ pass.latest # None /\ pass.latest >= Expected(pass)
                    /\ ~pass.progress[pass.latest].complete
             \/ ~ (pass.latest # None /\ pass.latest >= Expected(pass))
  BY <1>2, StatusIs
<1>9. /\ DOMAIN pass' = DOMAIN pass /\ pass'.step = (IF q.run THEN "snapshot" ELSE "write")
      /\ pass'.now = pass.now /\ pass'.workload = pass.workload /\ pass'.history = pass.history
      /\ pass'.latest = pass.latest /\ pass'.facts = <<>> /\ pass'.faulted = pass.faulted
      /\ pass'.verdict = [status |-> status, cycle |-> target]
  BY <1>1, <1>2, <1>3 DEF Verdict
<1>10. PICK now \in 0..clock : now = pass.now
  BY DEF PassHolds, PassTyped
<1>11. Fine(status, now, target)
  <2>1. ASSUME status = "fresh"
        PROVE  now - latest * Period < MaxLag + Period
    <3>1. PICK l \in Cycles : l = pass.latest /\ l >= ExpectedCycle(now, Grace(pass.history))
      BY <1>8, <1>10, <2>1, CyclesAreNumbers DEF PassHolds, PassTyped, Expected
    <3>2. pass.history \in SUBSET current
      BY DEF PassHolds, PassTyped
    <3>3. now - l * Period < MaxLag + Period
      BY <3>1, <3>2, ExpectedIsYoung
    <3>4. l \in Int /\ latest \in Int /\ l <= latest
      BY <1>8, <2>1, <3>1, CyclesAreNumbers DEF PassHolds, PassTyped
    <3>5. PICK p \in Nat : p = Period
      BY PolicyTyped
    <3>6. PICK older \in Int, newer \in Int :
              older = l * p /\ newer = latest * p /\ older <= newer
      BY <3>4, TimesGrows
    <3>7. now \in Int /\ MaxLag \in Int
      BY PolicyTyped DEF WorldTyped, Hours
    <3>8. now - older < MaxLag + p
      BY <3>3, <3>5, <3>6
    <3>9. now - newer < MaxLag + p
      BY <3>6, <3>7, <3>8
    <3> QED
      BY <3>5, <3>6, <3>9
  <2>2. ASSUME status = "building"
        PROVE  target \in Cycles /\ LastProgress(target) \in Hours
               /\ now - LastProgress(target) <= Recent
    <3>1. /\ target \in Cycles /\ q.at \in Hours /\ LastProgress(target) \in Hours
          /\ q.at <= LastProgress(target) /\ now - q.at <= Recent
      BY <1>7, <1>8, <1>10, <2>2 DEF ProgressRead
    <3>2. PICK x \in Int, y \in Int : x = q.at /\ y = LastProgress(target)
      BY <3>1 DEF Hours
    <3>3. now \in Int /\ Recent \in Int
      BY PolicyTyped DEF WorldTyped, Hours
    <3> QED
      BY <3>1, <3>2, <3>3
  <2> QED
    BY <2>1, <2>2 DEF Fine
<1>12. Fine(status, now, target)'
  BY <1>11, FineStays DEF WorldTyped, Hours
<1>13. Alerting(status) => Cause'
  <2> SUFFICES ASSUME Alerting(status)
               PROVE  Cause'
    OBVIOUS
  <2>0. upsets.bad > 0 => upsets'.bad > 0
    <3>1. upsets.bad \in Int /\ upsets'.bad \in Int /\ upsets.bad <= upsets'.bad
      BY DEF WorldTyped, WorldStep, WorldGrows
    <3> QED
      BY <3>1
  <2>1. CASE q.invalid
    BY <1>7, <2>0, <2>1 DEF ProgressRead, Cause
  <2>2. CASE pass.latest # None /\ pass.latest >= Expected(pass)
                 /\ ~pass.progress[pass.latest].complete
    <3>1. CASE pass.progress[pass.latest].invalid
      BY <1>7, <2>0, <2>2, <3>1 DEF ProgressRead, Cause
    <3>2. CASE ~pass.progress[pass.latest].invalid
      <4>1. Pinned(pass.latest) /\ run[pass.latest] # pass.workload
        BY <1>7, <2>2, <3>2 DEF ProgressRead
      <4>2. pass.latest \in Cycles
        BY <2>2, CyclesAreNumbers DEF PassHolds, PassTyped
      <4>3. run' = run
        BY <1>1 DEF world
      <4> QED
        BY <1>9, <4>1, <4>2, <4>3 DEF Cause, Pinned
    <3> QED
      BY <3>1, <3>2
  <2>3. CASE ~ (pass.latest # None /\ pass.latest >= Expected(pass))
    <3>1. CASE pass.latest = None
      BY <1>4, <1>9, <3>1 DEF Cause
    <3>2. CASE pass.latest # None
      <4>1. pass.latest \in Cycles \cup {None} /\ pass.latest \in Int
        BY <3>2, CyclesAreNumbers DEF PassHolds, PassTyped
      <4>2. Expected(pass) \in Int
        BY <4>1, CandidatesAreNumbers DEF PassHolds
      <4>3. pass.latest < Expected(pass)
        BY <2>3, <3>2, <4>1, <4>2
      <4>4. \E c \in Cycles : pass.now >= c * Period + MinLag /\ pass.latest < c
        BY <3>2, <4>3, ExpectedIsACycle DEF PassHolds
      <4> QED
        BY <1>9, <4>4 DEF Cause
    <3> QED
      BY <3>1, <3>2
  <2> QED
    BY <1>8, <2>1, <2>2, <2>3 DEF Alerting
<1>14. VerdictHolds'
  <2>1. pass'.verdict.status = status /\ pass'.verdict.cycle = target /\ pass'.now = now
    BY <1>9, <1>10
  <2>2. Fine(pass.verdict.status, pass.now, pass.verdict.cycle)'
    BY <1>12, <2>1
  <2>3. pass'.step \in ReadSteps => target \in Cycles
    BY <1>7, <1>9 DEF ReadSteps, ProgressRead
  <2> QED
    BY <1>8, <1>13, <2>1, <2>2, <2>3 DEF VerdictHolds
<1>15. PassTyped'
  <2>1. pass'.step \in {"snapshot", "write"}
    BY <1>9
  <2>2. Settled'
    BY <2>1 DEF Settled, ReadSteps
  <2> QED
    BY <1>3, <1>4, <1>9, <2>1, <2>2 DEF PassTyped, Steps, ReadSteps
<1>16. pass'.step # "progress"
  BY <1>9
<1> QED
  BY <1>14, <1>15, <1>16 DEF PassHolds, CandidatesRead

\* The reads of the lifecycle, one after the other.
LEMMA ReadsInOrder ==
    /\ Range(Reads) = ReadSteps
    /\ NextRead("snapshot") = "markers" /\ NextRead("markers") = "report"
    /\ NextRead("report") = "publication" /\ NextRead("publication") = "current"
    /\ NextRead("current") = "latest" /\ NextRead("latest") = "write"
<1>1. /\ DOMAIN Reads = 1..6 /\ Len(Reads) = 6
      /\ Reads[1] = "snapshot" /\ Reads[2] = "markers" /\ Reads[3] = "report"
      /\ Reads[4] = "publication" /\ Reads[5] = "current" /\ Reads[6] = "latest"
  BY DEF Reads
<1>2. Range(Reads) = ReadSteps
  <2>1. Range(Reads) = {Reads[i] : i \in 1..6}
    BY <1>1 DEF Range
  <2>2. \A i \in 1..6 : i = 1 \/ i = 2 \/ i = 3 \/ i = 4 \/ i = 5 \/ i = 6
    OBVIOUS
  <2> HIDE DEF Reads
  <2>3. \A i \in 1..6 : Reads[i] \in ReadSteps
    BY <1>1, <2>2 DEF ReadSteps
  <2>4. \A read \in ReadSteps : \E i \in 1..6 : read = Reads[i]
    BY <1>1 DEF ReadSteps
  <2> QED
    BY <2>1, <2>3, <2>4
<1>3. ASSUME NEW i \in 1..6, NEW read, read = Reads[i], \A j \in 1..6 : Reads[j] = read => j = i
      PROVE  NextRead(read) = IF i = 6 THEN "write" ELSE Reads[i + 1]
  <2> DEFINE k == CHOOSE j \in 1..Len(Reads) : Reads[j] = read
  <2>1. k = i
    BY <1>1, <1>3
  <2>2. NextRead(read) = IF k = Len(Reads) THEN "write" ELSE Reads[k + 1]
    BY DEF NextRead
  <2> HIDE DEF k
  <2> QED
    BY <1>1, <2>1, <2>2
<1>4. \A i \in 1..6 : \A j \in 1..6 : Reads[i] = Reads[j] => i = j
  <2>1. \A i \in 1..6 : i = 1 \/ i = 2 \/ i = 3 \/ i = 4 \/ i = 5 \/ i = 6
    OBVIOUS
  <2> QED
    BY <1>1, <2>1
<1>5. \A i \in 1..6 : NextRead(Reads[i]) = IF i = 6 THEN "write" ELSE Reads[i + 1]
  BY <1>3, <1>4
<1> QED
  BY <1>1, <1>2, <1>5

LEMMA NextReadIsAStep ==
    ASSUME NEW read \in ReadSteps
    PROVE  NextRead(read) \in ReadSteps \cup {"write"}
BY ReadsInOrder DEF ReadSteps

\* A read of the lifecycle changes only the facts and whether one failed.
LEMMA LifecycleHolds ==
    ASSUME WorldTyped, WorldSound, WorldStep, PassHolds, UNCHANGED <<clock, world>>,
           pass.step \in ReadSteps, NEW step \in ReadSteps \cup {"write"}, NEW facts,
           NEW faulted \in {TRUE, pass.faulted},
           pass' = [pass EXCEPT !.step = step, !.facts = facts, !.faulted = faulted]
    PROVE  PassHolds'
<1>1. DOMAIN pass = {"step", "now", "workload", "history", "latest", "todo", "progress",
                     "verdict", "facts", "faulted"}
  BY DEF PassHolds, PassTyped
<1>2. /\ DOMAIN pass' = DOMAIN pass /\ pass'.step = step /\ pass'.now = pass.now
      /\ pass'.workload = pass.workload /\ pass'.history = pass.history
      /\ pass'.latest = pass.latest /\ pass'.verdict = pass.verdict /\ pass'.faulted = faulted
  BY <1>1
<1>3. Settled /\ Settled' /\ pass'.step \in Steps
  BY <1>2 DEF Settled, Steps
<1>4. /\ pass.now \in 0..clock' /\ pass.workload \in Workloads /\ pass.history \subseteq current'
      /\ (pass.latest = None \/ (pass.latest \in current' /\ pass.latest <= latest'))
      /\ pass.latest = None => pass.faulted \/ pass.verdict.status = "fresh"
  <2>1. ~ (pass.step \in {"idle", "fast", "history", "published"})
    BY DEF ReadSteps
  <2> QED
    BY <2>1 DEF PassHolds, PassTyped, world
<1>5. ~ (pass'.step \in {"idle", "fast", "history", "published"}) /\ pass'.step # "progress"
  BY <1>2 DEF ReadSteps
<1>6. PassTyped'
  BY <1>1, <1>2, <1>3, <1>4, <1>5 DEF PassTyped
<1>7. VerdictHolds'
  <2>1. PICK now \in Int : now = pass.now
    BY DEF PassHolds, PassTyped
  <2>2. PICK status, c : status = pass.verdict.status /\ c = pass.verdict.cycle
    OBVIOUS
  <2>3. Fine(status, now, c)'
    BY <1>3, <2>1, <2>2, FineStays DEF PassHolds, VerdictHolds
  <2>4. Alerting(pass.verdict.status) => Cause'
    BY <1>2, <1>3, CauseStays DEF PassHolds, VerdictHolds
  <2>5. /\ pass'.verdict.status = status /\ pass'.now = now /\ pass'.verdict.cycle = c
        /\ status \in Statuses /\ c \in Cycles
    BY <1>2, <1>3, <2>1, <2>2 DEF PassHolds, VerdictHolds
  <2> QED
    BY <2>2, <2>3, <2>4, <2>5 DEF VerdictHolds
<1> QED
  BY <1>5, <1>6, <1>7 DEF PassHolds, CandidatesRead

\* The three outcomes of a read.
ReadGoesOn(facts, faulted) ==
    /\ faulted \in {TRUE, pass.faulted}
    /\ pass' = [pass EXCEPT !.step = NextRead(pass.step), !.facts = facts, !.faulted = faulted]
ReadEnds(facts, faulted) ==
    /\ faulted \in {TRUE, pass.faulted}
    /\ pass' = [pass EXCEPT !.step = "write", !.facts = facts, !.faulted = faulted]

LEMMA LifecycleOutcomes ==
    ASSUME PassTyped, ReadLifecycle
    PROVE  LET fact == Fact(pass.step, pass.verdict.cycle)
               noted(value) == Noted(pass.facts, pass.step, value)
           IN  /\ pass.step \in ReadSteps
               /\ UNCHANGED <<clock, world, document>>
               /\ \/ pass.step = "snapshot" /\ fact = "missing"
                     /\ ReadEnds(noted(fact), pass.faulted)
                  \/ ~ (pass.step = "snapshot" /\ fact = "missing")
                         /\ ReadGoesOn(noted(fact), pass.faulted)
                  \/ ReadEnds(<<>>, TRUE)
                  \/ pass.step # "markers" /\ ReadGoesOn(noted("invalid"), TRUE)
<1> DEFINE fact == Fact(pass.step, pass.verdict.cycle)
           noted(value) == Noted(pass.facts, pass.step, value)
           absent == pass.step = "snapshot" /\ fact = "missing"
<1>1. /\ pass.step \in ReadSteps /\ UNCHANGED <<clock, world, document>>
      /\ \/ pass' = [pass EXCEPT !.step = IF absent THEN "write" ELSE NextRead(@),
                                 !.facts = Noted(@, pass.step, fact)]
         \/ pass' = [pass EXCEPT !.step = "write", !.facts = <<>>, !.faulted = TRUE]
         \/ pass.step # "markers" /\ pass' = [pass EXCEPT !.step = NextRead(@), !.faulted = TRUE,
                                         !.facts = Noted(@, pass.step, "invalid")]
  BY ReadsInOrder DEF ReadLifecycle, PassStep, At
<1>2. DOMAIN pass = {"step", "now", "workload", "history", "latest", "todo", "progress",
                     "verdict", "facts", "faulted"}
  BY DEF PassTyped
<1> HIDE DEF fact
<1>3. CASE pass' = [pass EXCEPT !.step = IF absent THEN "write" ELSE NextRead(@),
                                !.facts = Noted(@, pass.step, fact)]
  <2>1. CASE absent
    <3>1. pass' = [pass EXCEPT !.step = "write", !.facts = noted(fact), !.faulted = pass.faulted]
      BY <1>2, <1>3, <2>1
    <3> QED
      BY <1>1, <2>1, <3>1 DEF ReadEnds, fact
  <2>2. CASE ~absent
    <3>1. pass' = [pass EXCEPT !.step = NextRead(pass.step), !.facts = noted(fact),
                               !.faulted = pass.faulted]
      BY <1>2, <1>3, <2>2
    <3> QED
      BY <1>1, <2>2, <3>1 DEF ReadGoesOn, fact
  <2> QED
    BY <2>1, <2>2
<1>4. CASE pass' = [pass EXCEPT !.step = "write", !.facts = <<>>, !.faulted = TRUE]
  BY <1>1, <1>4 DEF ReadEnds, fact
<1>5. CASE pass.step # "markers" /\ pass' = [pass EXCEPT !.step = NextRead(@), !.faulted = TRUE,
                                                         !.facts = Noted(@, pass.step, "invalid")]
  <2>1. pass' = [pass EXCEPT !.step = NextRead(pass.step), !.facts = noted("invalid"),
                             !.faulted = TRUE]
    BY <1>5
  <2> QED
    BY <1>1, <1>5, <2>1 DEF ReadGoesOn, fact
<1> QED
  BY <1>1, <1>3, <1>4, <1>5

LEMMA ReadLifecycleStep ==
    ASSUME WorldTyped, WorldSound, WorldStep, PassHolds, ReadLifecycle
    PROVE  PassHolds'
<1>1. /\ pass.step \in ReadSteps /\ UNCHANGED <<clock, world>>
      /\ \E facts, faulted : ReadGoesOn(facts, faulted) \/ ReadEnds(facts, faulted)
  BY LifecycleOutcomes DEF PassHolds
<1>2. PICK facts, faulted : ReadGoesOn(facts, faulted) \/ ReadEnds(facts, faulted)
  BY <1>1
<1>3. CASE ReadGoesOn(facts, faulted)
  BY <1>1, <1>3, NextReadIsAStep, LifecycleHolds DEF ReadGoesOn
<1>4. CASE ReadEnds(facts, faulted)
  BY <1>1, <1>4, LifecycleHolds DEF ReadEnds
<1> QED
  BY <1>2, <1>3, <1>4

LEMMA FailInspectionStep ==
    ASSUME WorldTyped, WorldSound, WorldStep, PassHolds, FailInspection
    PROVE  PassHolds'
<1>1. /\ UNCHANGED <<clock, world>>
      /\ pass' = [pass EXCEPT !.step = "write", !.faulted = TRUE,
                              !.verdict = [status |-> "unavailable", cycle |-> None]]
  BY DEF FailInspection, PassStep
<1>2. DOMAIN pass = {"step", "now", "workload", "history", "latest", "todo", "progress",
                     "verdict", "facts", "faulted"}
  BY DEF PassHolds, PassTyped
<1>3. /\ DOMAIN pass' = DOMAIN pass /\ pass'.step = "write" /\ pass'.now = pass.now
      /\ pass'.workload = pass.workload /\ pass'.history = pass.history
      /\ pass'.latest = pass.latest /\ pass'.faulted = TRUE
      /\ pass'.verdict.status = "unavailable"
  BY <1>1, <1>2
<1>4. /\ pass.now \in 0..clock' /\ pass.workload \in Workloads /\ pass.history \subseteq current'
      /\ (pass.latest = None \/ (pass.latest \in current' /\ pass.latest <= latest'))
  BY <1>1 DEF PassHolds, PassTyped, world
<1>5. Settled' /\ pass'.step \in Steps /\ pass'.step \notin ReadSteps
  BY <1>3 DEF Settled, Steps, ReadSteps
<1>6. PassTyped'
  BY <1>2, <1>3, <1>4, <1>5 DEF PassTyped
<1>7. VerdictHolds'
  BY <1>3, <1>5 DEF VerdictHolds, Fine, Cause, Statuses
<1> QED
  BY <1>3, <1>6, <1>7 DEF PassHolds, CandidatesRead

LEMMA WriteDocumentStep ==
    ASSUME WorldTyped, WorldSound, WorldStep, PassHolds, WriteDocument
    PROVE  PassHolds' /\ DocumentHolds'
<1>1. /\ pass.step = "write" /\ pass' = Idle /\ UNCHANGED <<clock, world>>
      /\ document'.status = pass.verdict.status /\ document'.now = pass.now
      /\ document'.cycle = pass.verdict.cycle
  BY DEF WriteDocument, At
<1>2. PassHolds'
  BY <1>1, IdleHolds DEF WorldStep
<1>3. PICK status, c : status = pass.verdict.status /\ c = pass.verdict.cycle
  OBVIOUS
<1>4. PICK now \in Int : now = pass.now /\ now \in 0..clock'
  BY <1>1 DEF PassHolds, PassTyped
<1>5. status \in Statuses /\ Fine(status, now, c)
  BY <1>1, <1>3, <1>4 DEF PassHolds, VerdictHolds, Settled
<1>6. Fine(status, now, c)'
  BY <1>5, FineStays
<1>7. DocumentHolds'
  BY <1>1, <1>3, <1>4, <1>5, <1>6 DEF DocumentHolds
<1> QED
  BY <1>2, <1>7

LEMMA HealthInductive ==
    ASSUME HealthIInv, [Next]_vars
    PROVE  HealthIInv' /\ WorldStep
<1>1. WorldTyped /\ WorldSound /\ PassHolds /\ DocumentHolds
  BY DEF HealthIInv, PassHolds
<1>2. CASE Runs
  BY <1>1, <1>2, RunsStep, PassStays, DocumentStays DEF HealthIInv, PassHolds, WorldStep
<1>3. CASE UNCHANGED vars
  <2>1. UNCHANGED world /\ UNCHANGED <<clock, pass, document, upsets>>
    BY <1>3 DEF vars
  <2>2. /\ clock' \in Hours /\ clock <= clock' /\ upsets.bad <= upsets'.bad
        /\ upsets' \in [deploys : Nat, faults : Nat, bad : Nat]
    BY <1>1, <2>1 DEF WorldTyped, Hours
  <2>3. WorldStep
    BY <1>1, <2>1, <2>2, WorldUnchangedSteps
  <2> QED
    BY <1>1, <2>1, <2>3, PassStays, DocumentStays DEF HealthIInv, PassHolds, WorldStep
<1>4. CASE Inspect
  <2>1. WorldStep
    BY <1>1, <1>4, InspectKeepsWorld
  <2>2. CASE WriteDocument
    BY <1>1, <2>1, <2>2, WriteDocumentStep DEF HealthIInv, PassHolds, WorldStep
  <2>3. CASE ~WriteDocument
    <3>1. UNCHANGED document
      BY <1>4, <2>3 DEF Inspect, Begin, ReadFast, ReadHistory, ReadLatest, ReadProgress, Classify,
                        ReadLifecycle, FailInspection, Crash, PassStep
    <3>2. Crash => pass' = Idle
      BY DEF Crash, PassStep
    <3>3. PassHolds'
      BY <1>1, <1>4, <2>1, <2>3, <3>2, BeginStep, ReadFastStep, ReadHistoryStep, ReadLatestStep,
         ReadProgressStep, ClassifyStep, ReadLifecycleStep, FailInspectionStep, IdleHolds
         DEF Inspect, WorldStep
    <3>4. DocumentHolds'
      BY <1>1, <2>1, <3>1, DocumentStays
    <3> QED
      BY <2>1, <3>3, <3>4 DEF HealthIInv, PassHolds, WorldStep
  <2> QED
    BY <2>2, <2>3
<1> QED
  BY <1>2, <1>3, <1>4 DEF Next

LEMMA InitHolds == Init => HealthIInv
<1> SUFFICES ASSUME Init
             PROVE  HealthIInv
  OBVIOUS
<1>1. PICK hour \in FirstHours :
          publishedAt = [c \in Cycles |-> IF c = FirstCycle THEN hour ELSE None]
  BY DEF Init
<1>2. FirstCycle \in Cycles /\ Cycles \subseteq Nat
  BY FirstIsACycle, PolicyAssumption
<1>3. PICK p \in Nat, last \in Nat : p = Period /\ last = MaxHour
  BY PolicyTyped
<1>4. FirstCycle * p \in Nat /\ FirstHours \subseteq FirstCycle * p..last
  <2>1. PICK first \in Nat : first = FirstCycle
    BY <1>2
  <2>2. first * p \in Nat
    OBVIOUS
  <2>3. FirstHours \subseteq FirstCycle * Period..MaxHour
    BY PolicyAssumption DEF FirstCycle
  <2> QED
    BY <1>3, <2>1, <2>2, <2>3
<1>5. FirstHours \in SUBSET Int /\ IsFiniteSet(FirstHours) /\ FirstHours # {}
  <2>1. PICK start \in Int : start = FirstCycle * p
    BY <1>4
  <2>2. IsFiniteSet(start..last)
    BY FS_Interval
  <2>3. FirstHours \in SUBSET (start..last)
    BY <1>4, <2>1
  <2>4. IsFiniteSet(FirstHours)
    BY <2>2, <2>3, FS_Subset
  <2> QED
    BY <1>1, <2>3, <2>4
<1>6. Max(FirstHours) \in FirstHours /\ \A h \in FirstHours : h <= Max(FirstHours)
  BY <1>5, MaxOfFinite
<1>7. clock = Max(FirstHours)
  BY DEF Init
<1>8. PICK start \in Int : start = FirstCycle * p
  BY <1>4
<1>9. /\ clock \in Hours /\ hour \in Hours /\ hour <= clock
      /\ start \in Hours /\ start <= clock /\ None \notin Hours
  <2>1. clock \in start..last /\ hour \in start..last /\ hour <= clock /\ start \in Nat
    BY <1>1, <1>4, <1>6, <1>7, <1>8
  <2>2. None \notin Hours
    BY PolicyAssumption DEF Hours
  <2> QED
    BY <1>3, <2>1, <2>2 DEF Hours
<1>10. FirstWorkload \in Workloads /\ FirstWorkload \notin Snapshots
       /\ FramesOf[FirstWorkload] \subseteq Frames
  BY PolicyAssumption DEF Snapshots
<1>11. markedAt = [c \in Cycles |-> IF c = FirstCycle THEN start ELSE None]
  BY <1>3, <1>8 DEF Init
<1>12. WorldTyped
  BY <1>1, <1>2, <1>9, <1>10, <1>11 DEF Init, WorldTyped, Marks, Reports, Snapshots
<1>13. WorldSound
  <2> SUFFICES ASSUME NEW c \in Cycles
               PROVE  /\ report[c] # "missing" =>
                           Pinned(c) /\ \A f \in FramesOf[run[c]] : marks[c][f] # "absent"
                      /\ publishedAt[c] # None => report[c] = "passed" /\ publishedAt[c] <= clock
                      /\ markedAt[c] # None => markedAt[c] <= clock
                      /\ c \in current => publishedAt[c] # None
                      /\ \A f \in Frames : /\ marks[c][f] # "absent" => markedAt[c] # None
                                           /\ marks[c][f] = "bad" => upsets.bad > 0
    BY DEF WorldSound
  <2>1. CASE c = FirstCycle
    <3>1. /\ run[c] = FirstWorkload /\ report[c] = "passed" /\ publishedAt[c] = hour
          /\ markedAt[c] = start
          /\ marks[c] = [f \in Frames |->
                            IF f \in FramesOf[FirstWorkload] THEN "good" ELSE "absent"]
      BY <1>1, <1>11, <2>1 DEF Init
    <3> QED
      BY <1>9, <1>10, <3>1 DEF Pinned
  <2>2. CASE c # FirstCycle
    <3>1. /\ run[c] = "none" /\ report[c] = "missing" /\ publishedAt[c] = None
          /\ markedAt[c] = None /\ c \notin current
          /\ marks[c] = [f \in Frames |-> "absent"]
      BY <1>1, <1>11, <2>2 DEF Init
    <3> QED
      BY <3>1
  <2> QED
    BY <2>1, <2>2
<1>14. pass = Idle /\ document = None
  BY DEF Init
<1>15. /\ DOMAIN Idle = {"step", "now", "workload", "history", "latest", "todo", "progress",
                        "verdict", "facts", "faulted"}
       /\ Idle.step = "idle" /\ Idle.now = 0 /\ Idle.workload = FirstWorkload
       /\ Idle.history = {} /\ Idle.latest = None /\ Idle.facts = <<>>
  BY DEF Idle
<1>16. ~Settled
  BY <1>14, <1>15 DEF Settled, ReadSteps
<1>17. 0 \in 0..clock
  BY <1>9 DEF Hours
<1> QED
  BY <1>10, <1>12, <1>13, <1>14, <1>15, <1>16, <1>17
     DEF HealthIInv, PassTyped, CandidatesRead, VerdictHolds, DocumentHolds, Steps

LEMMA HealthIsInvariant == Spec => []HealthIInv
<1>1. HealthIInv /\ [Next]_vars => HealthIInv'
  BY HealthInductive
<1> QED
  BY <1>1, InitHolds, PTL DEF Spec

\* The runs stay within what the readers of them know, and a document has a status that the
\* backend knows and a time that has been (status_document.py:55-139).
THEOREM TypeCorrect == Spec => []TypeOK
<1>1. HealthIInv => TypeOK
  BY DEF HealthIInv, WorldTyped, PassTyped, DocumentHolds, TypeOK, Hours, Marks, Reports, At
<1> QED
  BY <1>1, HealthIsInvariant, PTL

\* Whatever the lags, the policy, the configurations and the failures, the backend never calls
\* healthy what the policy calls old, and a status that raises no alert stands for a young
\* manifest or a run that goes on (freshness.py:166-183, 460-487; health.py:80-85).
THEOREM OutagesAreNotSilent == Spec => []NoSilentOutage
<1>1. HealthIInv => NoSilentOutage
  <2> SUFFICES ASSUME HealthIInv, document # None, ~Alerting(document.status)
               PROVE  LET young == latest # None /\ Age(latest) < MaxLag + Period
                      IN  /\ Health = "healthy" => young
                          /\ young \/ document.now - LastProgress(document.cycle) <= Recent
    BY DEF NoSilentOutage
  <2>1. latest # None /\ Fine(document.status, document.now, document.cycle)
    BY CyclesAreNumbers DEF HealthIInv, DocumentHolds
  <2>2. CASE document.status = "fresh"
    BY <2>1, <2>2 DEF Fine, Age
  <2>3. CASE document.status = "building"
    <3>1. Health = "degraded"
      BY <2>3 DEF Health
    <3> QED
      BY <2>1, <2>3, <3>1 DEF Fine
  <2> QED
    BY <2>2, <2>3 DEF Alerting
<1> QED
  BY <1>1, HealthIsInvariant, PTL

\* An alert has a cause in the runs or in the reads (freshness.py:166-183, 376-387, 460-487):
\* the inspection never raises one because of the order in which it read.
THEOREM AlarmsHaveACause == Spec => []AlarmHasACause
<1>1. HealthIInv => AlarmHasACause
  BY DEF HealthIInv, VerdictHolds, Settled, Cause, AlarmHasACause
<1> QED
  BY <1>1, HealthIsInvariant, PTL

-----------------------------------------------------------------------------
\* The lifecycle: what the documents say of a run is never taken back.

LifecycleIInv == FactsInOrder /\ FactsHold /\ StageHolds

Ranks == 1..6

LEMMA RankIsARank ==
    ASSUME NEW stage
    PROVE  Rank(stage) \in Ranks
BY DEF Rank, Ranks

\* What a run has for a stage it keeps.
LEMMA SupportsStays ==
    ASSUME WorldStep, NEW c \in Cycles, NEW rank \in Ranks, Supports(c, rank)
    PROVE  Supports(c, rank)'
<1>1. rank >= 2 => Pinned(c) /\ Pinned(c)'
  BY DEF Supports, WorldStep, WorldGrows, Pinned
<1>2. rank >= 3 => Complete(c)'
  BY <1>1 DEF Supports, WorldStep, WorldGrows, Ranks
<1>3. /\ rank >= 4 => report'[c] # "missing"
      /\ rank >= 5 => report'[c] = "passed"
      /\ rank >= 6 => publishedAt'[c] # None
  BY DEF Supports, WorldStep, WorldGrows
<1> QED
  BY <1>1, <1>2, <1>3 DEF Supports

\* What was read of a run stays true of it.
LEMMA FactsReadStays ==
    ASSUME WorldStep, NEW facts, NEW c \in Cycles, FactsRead(facts, c),
           "markers" \in DOMAIN facts => "snapshot" \in DOMAIN facts /\ facts.snapshot # "missing"
    PROVE  FactsRead(facts, c)'
<1>1. Pinned(c) => Pinned(c)' /\ (Complete(c) => Complete(c)')
  BY DEF WorldStep, WorldGrows, Pinned
<1>2. /\ report[c] # "missing" => report'[c] # "missing"
      /\ report[c] = "passed" => report'[c] = "passed"
      /\ publishedAt[c] # None => publishedAt'[c] # None
  BY DEF WorldStep, WorldGrows
<1> QED
  BY <1>1, <1>2 DEF FactsRead

\* A step that leaves the inspection or has it read nothing of the lifecycle.
LEMMA LifecycleRests ==
    ASSUME WorldStep, LifecycleIInv, UNCHANGED document,
           UNCHANGED pass \/ (pass'.facts = <<>> /\ pass'.step \notin ReadSteps \ {"snapshot"})
    PROVE  LifecycleIInv'
<1>1. CASE UNCHANGED pass
  <2>1. FactsInOrder'
    BY <1>1 DEF LifecycleIInv, FactsInOrder
  <2>2. FactsHold'
    <3> SUFFICES ASSUME Settled
                 PROVE  FactsHold'
      BY <1>1 DEF FactsHold, Settled
    <3>1. pass.facts # <<>> => pass.verdict.cycle \in Cycles
      BY DEF LifecycleIInv, FactsHold
    <3>2. PICK facts, c : facts = pass.facts /\ c = pass.verdict.cycle
      OBVIOUS
    <3>3. CASE facts = <<>>
      <4>1. FactsRead(facts, c)'
        BY <3>3 DEF FactsRead
      <4> QED
        BY <1>1, <3>1, <3>2, <4>1 DEF FactsHold
    <3>4. CASE facts # <<>> /\ ~pass.faulted
      <4>1. FactsRead(facts, c) /\ c \in Cycles
        BY <3>1, <3>2, <3>4 DEF LifecycleIInv, FactsHold
      <4>2. "markers" \in DOMAIN facts
            => "snapshot" \in DOMAIN facts /\ facts.snapshot # "missing"
        BY <3>2, <3>4 DEF LifecycleIInv, FactsInOrder, ReadBefore, Settled, ReadSteps
      <4>3. FactsRead(facts, c)'
        BY <4>1, <4>2, FactsReadStays
      <4> QED
        BY <1>1, <3>1, <3>2, <4>3 DEF FactsHold
    <3>5. CASE pass.faulted
      BY <1>1, <3>1, <3>5 DEF FactsHold
    <3> QED
      BY <3>3, <3>4, <3>5
  <2>3. StageHolds'
    <3> SUFFICES ASSUME document # None, document.stage # None, ~document.faulted
                 PROVE  StageHolds'
      BY DEF StageHolds
    <3>1. PICK c, rank : c = document.cycle /\ rank = Rank(document.stage) /\ rank \in Ranks
      BY RankIsARank
    <3>2. c \in Cycles /\ Supports(c, rank)
      BY <3>1 DEF LifecycleIInv, StageHolds
    <3>3. Supports(c, rank)'
      BY <3>1, <3>2, SupportsStays
    <3> QED
      BY <1>1, <3>1, <3>2, <3>3 DEF LifecycleIInv, StageHolds, Settled
  <2> QED
    BY <2>1, <2>2, <2>3 DEF LifecycleIInv
<1>2. CASE pass'.facts = <<>> /\ pass'.step \notin ReadSteps \ {"snapshot"}
  <2>1. DOMAIN pass'.facts = {}
    BY <1>2
  <2>2. FactsInOrder'
    BY <1>2, <2>1 DEF FactsInOrder, ReadBefore, ReadSteps
  <2>3. FactsHold'
    BY <1>2, <2>1 DEF FactsHold, FactsRead
  <2>4. StageHolds'
    <3> SUFFICES ASSUME document # None, document.stage # None, ~document.faulted
                 PROVE  StageHolds'
      BY DEF StageHolds
    <3>1. PICK c, rank : c = document.cycle /\ rank = Rank(document.stage) /\ rank \in Ranks
      BY RankIsARank
    <3>2. c \in Cycles /\ Supports(c, rank)
      BY <3>1 DEF LifecycleIInv, StageHolds
    <3>3. Supports(c, rank)'
      BY <3>1, <3>2, SupportsStays
    <3>4. Shows(pass'.facts, rank)
      BY <2>1 DEF Shows
    <3> QED
      BY <3>1, <3>2, <3>3, <3>4 DEF StageHolds
  <2> QED
    BY <2>2, <2>3, <2>4 DEF LifecycleIInv
<1> QED
  BY <1>1, <1>2

\* What the reads find.
LEMMA FactIs ==
    ASSUME WorldTyped, NEW c \in Cycles
    PROVE  /\ Fact("snapshot", c) = IF Pinned(c) THEN "valid" ELSE "missing"
           /\ Fact("markers", c) \in {"pending", "invalid", "complete"}
           /\ Fact("markers", c) = "complete" <=> Pinned(c) /\ Complete(c)
           /\ Fact("report", c) = report[c] /\ report[c] \in Reports
           /\ Fact("publication", c) = IF publishedAt[c] = None THEN "missing" ELSE "present"
<1>1. Fact("snapshot", c) = IF Pinned(c) THEN "valid" ELSE "missing"
  BY DEF Fact
<1>2. /\ Fact("markers", c) \in {"pending", "invalid", "complete"}
      /\ Fact("markers", c) = "complete" <=> Pinned(c) /\ Complete(c)
  <2> DEFINE p == Progress(c, LifecycleWorkload(c), FALSE)
  <2>1. Fact("markers", c) = IF ~Pinned(c) THEN "pending"
                             ELSE IF p.invalid THEN "invalid"
                             ELSE IF p.complete THEN "complete" ELSE "pending"
    BY DEF Fact
  <2>2. p.complete => ~p.invalid
    BY DEF Progress
  <2>3. Complete(c) = p.complete
    BY DEF Complete
  <2> HIDE DEF p
  <2> QED
    BY <2>1, <2>2, <2>3
<1>3. Fact("report", c) = report[c] /\ report[c] \in Reports
  BY DEF Fact, WorldTyped
<1>4. Fact("publication", c) = IF publishedAt[c] = None THEN "missing" ELSE "present"
  BY DEF Fact
<1> QED
  BY <1>1, <1>2, <1>3, <1>4

\* One more fact, and it is true.
LEMMA FactIsNoted ==
    ASSUME WorldTyped, NEW c \in Cycles, NEW facts, NEW read \in ReadSteps, FactsRead(facts, c)
    PROVE  FactsRead(Noted(facts, read, Fact(read, c)), c)
<1> DEFINE noted == Noted(facts, read, Fact(read, c))
<1>1. /\ DOMAIN noted = DOMAIN facts \cup {read} /\ noted[read] = Fact(read, c)
      /\ \A other \in DOMAIN facts : other # read => noted[other] = facts[other]
  BY DEF Noted
<1> HIDE DEF noted
<1>2. "snapshot" \in DOMAIN noted =>
          noted.snapshot = "missing" \/ (noted.snapshot = "valid" /\ Pinned(c))
  BY <1>1, FactIs DEF FactsRead
<1>3. "markers" \in DOMAIN noted =>
          noted.markers \in {"pending", "invalid"} \/ (noted.markers = "complete" /\ Complete(c))
  BY <1>1, FactIs DEF FactsRead
<1>4. "report" \in DOMAIN noted =>
          /\ noted.report \in Reports
          /\ noted.report # "missing" => report[c] # "missing"
          /\ noted.report = "passed" => report[c] = "passed"
  BY <1>1, FactIs DEF FactsRead
<1>5. "publication" \in DOMAIN noted =>
        noted.publication = "missing" \/ (noted.publication = "present" /\ publishedAt[c] # None)
  BY <1>1, FactIs DEF FactsRead
<1>6. FactsRead(noted, c)
  BY <1>2, <1>3, <1>4, <1>5 DEF FactsRead
<1> QED
  BY <1>6 DEF noted

\* A read of a run that has what a stage takes does not show less.
LEMMA FactShows ==
    ASSUME WorldTyped, NEW c \in Cycles, NEW facts, NEW read \in ReadSteps, NEW rank \in Ranks,
           Supports(c, rank), Shows(facts, rank)
    PROVE  Shows(Noted(facts, read, Fact(read, c)), rank)
<1> DEFINE noted == Noted(facts, read, Fact(read, c))
<1>1. /\ DOMAIN noted = DOMAIN facts \cup {read} /\ noted[read] = Fact(read, c)
      /\ \A other \in DOMAIN facts : other # read => noted[other] = facts[other]
  BY DEF Noted
<1> HIDE DEF noted
<1>2. rank >= 3 => rank >= 2
  BY DEF Ranks
<1>3. rank >= 2 /\ "snapshot" \in DOMAIN noted => noted.snapshot = "valid"
  BY <1>1, FactIs DEF Shows, Supports
<1>4. rank >= 3 /\ "markers" \in DOMAIN noted => noted.markers = "complete"
  BY <1>1, <1>2, FactIs DEF Shows, Supports
<1>5. /\ rank >= 4 /\ "report" \in DOMAIN noted => noted.report # "missing"
      /\ rank >= 5 /\ "report" \in DOMAIN noted => noted.report = "passed"
  BY <1>1, FactIs DEF Shows, Supports
<1>6. rank >= 6 /\ "publication" \in DOMAIN noted => noted.publication = "present"
  BY <1>1, FactIs DEF Shows, Supports
<1>7. Shows(noted, rank)
  BY <1>3, <1>4, <1>5, <1>6 DEF Shows
<1> QED
  BY <1>7 DEF noted

\* Facts stay in the order of the reads.
LEMMA FactsStayInOrder ==
    ASSUME PassTyped, FactsInOrder, pass.step \in ReadSteps, NEW value,
           value = "missing" => pass.step # "snapshot"
    PROVE  /\ NextRead(pass.step) \in ReadSteps =>
                  DOMAIN Noted(pass.facts, pass.step, value) = ReadBefore(NextRead(pass.step))
           /\ NextRead(pass.step) = "write" =>
                  DOMAIN Noted(pass.facts, pass.step, value) = ReadSteps
           /\ NextRead(pass.step) # "snapshot"
           /\ Noted(pass.facts, pass.step, value).snapshot # "missing"
<1> DEFINE noted == Noted(pass.facts, pass.step, value)
<1>1. /\ DOMAIN noted = DOMAIN pass.facts \cup {pass.step} /\ noted[pass.step] = value
      /\ \A other \in DOMAIN pass.facts : other # pass.step => noted[other] = pass.facts[other]
  BY DEF Noted
<1> HIDE DEF noted
<1>2. DOMAIN pass.facts = ReadBefore(pass.step)
  BY DEF FactsInOrder
<1>3. /\ ReadBefore("snapshot") = {} /\ ReadBefore("markers") = {"snapshot"}
      /\ ReadBefore("report") = {"snapshot", "markers"}
      /\ ReadBefore("publication") = {"snapshot", "markers", "report"}
      /\ ReadBefore("current") = {"snapshot", "markers", "report", "publication"}
      /\ ReadBefore("latest") = {"snapshot", "markers", "report", "publication", "current"}
  BY DEF ReadBefore
<1>4. /\ NextRead(pass.step) \in ReadSteps => DOMAIN noted = ReadBefore(NextRead(pass.step))
      /\ NextRead(pass.step) = "write" => DOMAIN noted = ReadSteps
      /\ NextRead(pass.step) # "snapshot"
  <2>1. CASE pass.step = "snapshot"
    BY <1>1, <1>2, <1>3, <2>1, ReadsInOrder
  <2>2. CASE pass.step = "markers"
    BY <1>1, <1>2, <1>3, <2>2, ReadsInOrder
  <2>3. CASE pass.step = "report"
    BY <1>1, <1>2, <1>3, <2>3, ReadsInOrder
  <2>4. CASE pass.step = "publication"
    BY <1>1, <1>2, <1>3, <2>4, ReadsInOrder
  <2>5. CASE pass.step = "current"
    BY <1>1, <1>2, <1>3, <2>5, ReadsInOrder
  <2>6. CASE pass.step = "latest"
    BY <1>1, <1>2, <1>3, <2>6, ReadsInOrder DEF ReadSteps
  <2> QED
    BY <2>1, <2>2, <2>3, <2>4, <2>5, <2>6 DEF ReadSteps
<1>5. noted.snapshot # "missing"
  <2>1. CASE pass.step = "snapshot"
    BY <1>1, <2>1
  <2>2. CASE pass.step # "snapshot"
    <3>1. "snapshot" \in DOMAIN pass.facts
      BY <1>2, <1>3, <2>2 DEF ReadSteps
    <3>2. pass.facts.snapshot # "missing"
      BY <2>2 DEF FactsInOrder
    <3> QED
      BY <1>1, <2>2, <3>1, <3>2
  <2> QED
    BY <2>1, <2>2
<1> QED
  BY <1>4, <1>5 DEF noted

\* The read of one more fact, or a failed one.
LEMMA NotedHolds ==
    ASSUME HealthIInv, LifecycleIInv, WorldStep, UNCHANGED <<world, document>>,
           pass.step \in ReadSteps, pass'.step \in ReadSteps \cup {"write"},
           NEW value, NEW faulted,
           pass'.facts = Noted(pass.facts, pass.step, value), pass'.faulted = faulted,
           pass'.verdict = pass.verdict,
           faulted \/ (~pass.faulted /\ value = Fact(pass.step, pass.verdict.cycle))
    PROVE  FactsHold' /\ StageHolds'
<1>1. Settled /\ pass.verdict.cycle \in Cycles /\ WorldTyped
  BY DEF HealthIInv, VerdictHolds, Settled
<1>2. PICK facts, noted, c, read :
          /\ facts = pass.facts /\ noted = pass'.facts /\ c = pass.verdict.cycle
                /\ read = pass.step
          /\ noted = Noted(facts, read, value) /\ c \in Cycles /\ read \in ReadSteps
  BY <1>1
<1>3. FactsHold'
  <2>1. CASE faulted
    BY <1>1, <2>1 DEF FactsHold
  <2>2. CASE ~faulted
    <3>1. FactsRead(facts, c) /\ value = Fact(read, c)
      BY <1>1, <1>2, <2>2 DEF LifecycleIInv, FactsHold
    <3>2. FactsRead(noted, c)
      BY <1>1, <1>2, <3>1, FactIsNoted
    <3>3. Complete(c)' = Complete(c) /\ Pinned(c)' = Pinned(c)
      BY DEF world, Complete, Progress, Found, LifecycleWorkload, LastProgress, Pinned
    <3>4. FactsRead(noted, c)'
      BY <3>2, <3>3 DEF FactsRead, world
    <3> QED
      BY <1>1, <1>2, <3>4 DEF FactsHold
  <2> QED
    BY <2>1, <2>2
<1>4. StageHolds'
  <2> SUFFICES ASSUME document # None, document.stage # None, ~document.faulted
               PROVE  StageHolds'
    BY DEF StageHolds
  <2>1. PICK d, rank : d = document.cycle /\ rank = Rank(document.stage) /\ rank \in Ranks
    BY RankIsARank
  <2>2. /\ d \in Cycles /\ Supports(d, rank)
        /\ ~pass.faulted /\ c = d => Shows(facts, rank)
    BY <1>1, <1>2, <2>1 DEF LifecycleIInv, StageHolds
  <2>3. Supports(d, rank)'
    BY <2>1, <2>2, SupportsStays
  <2>4. ~faulted /\ c = d => Shows(noted, rank)
    <3> SUFFICES ASSUME ~faulted, c = d
                 PROVE  Shows(noted, rank)
      OBVIOUS
    <3>1. Shows(facts, rank) /\ value = Fact(read, c) /\ Supports(c, rank)
      BY <1>2, <2>2
    <3> QED
      BY <1>1, <1>2, <2>1, <3>1, FactShows
  <2> QED
    BY <1>1, <1>2, <2>1, <2>2, <2>3, <2>4 DEF StageHolds
<1> QED
  BY <1>3, <1>4

LEMMA LifecycleRead ==
    ASSUME HealthIInv, LifecycleIInv, WorldStep, ReadLifecycle
    PROVE  LifecycleIInv'
<1>1. PassTyped /\ FactsInOrder
  BY DEF HealthIInv, LifecycleIInv
<1>2. DOMAIN pass = {"step", "now", "workload", "history", "latest", "todo", "progress",
                     "verdict", "facts", "faulted"}
  BY <1>1 DEF PassTyped
<1> DEFINE fact == Fact(pass.step, pass.verdict.cycle)
           noted(value) == Noted(pass.facts, pass.step, value)
<1>3. pass.step \in ReadSteps /\ UNCHANGED <<clock, world, document>>
  BY <1>1, LifecycleOutcomes
<1>4. CASE pass.step = "snapshot" /\ fact = "missing" /\ ReadEnds(noted(fact), pass.faulted)
  <2>1. /\ pass'.step = "write" /\ pass'.facts = noted(fact) /\ pass'.faulted = pass.faulted
        /\ pass'.verdict = pass.verdict
    BY <1>2, <1>4 DEF ReadEnds
  <2>2. FactsHold' /\ StageHolds'
    BY <1>3, <2>1, NotedHolds
  <2>3. DOMAIN pass.facts = {}
    BY <1>1, <1>4 DEF FactsInOrder, ReadSteps
  <2>4. DOMAIN pass'.facts = {"snapshot"} /\ pass'.facts.snapshot = "missing"
    BY <1>4, <2>1, <2>3 DEF Noted
  <2>5. FactsInOrder'
    BY <2>1, <2>4 DEF FactsInOrder, ReadSteps
  <2> QED
    BY <2>2, <2>5 DEF LifecycleIInv
<1>5. ASSUME NEW value, NEW faulted, ReadGoesOn(noted(value), faulted),
             value = "missing" => pass.step # "snapshot",
             faulted = TRUE \/ (faulted = pass.faulted /\ value = fact)
      PROVE  LifecycleIInv'
  <2>1. /\ pass'.step = NextRead(pass.step) /\ pass'.facts = noted(value)
        /\ pass'.faulted = faulted /\ pass'.verdict = pass.verdict
    BY <1>2, <1>5 DEF ReadGoesOn
  <2>2. pass'.step \in ReadSteps \cup {"write"}
    BY <1>3, <2>1, NextReadIsAStep
  <2>3. FactsHold' /\ StageHolds'
    BY <1>3, <1>5, <2>1, <2>2, NotedHolds
  <2>4. /\ NextRead(pass.step) \in ReadSteps =>
               DOMAIN noted(value) = ReadBefore(NextRead(pass.step))
        /\ NextRead(pass.step) = "write" => DOMAIN noted(value) = ReadSteps
        /\ NextRead(pass.step) # "snapshot"
        /\ noted(value).snapshot # "missing"
    BY <1>1, <1>3, <1>5, FactsStayInOrder
  <2>5. FactsInOrder'
    BY <2>1, <2>2, <2>4 DEF FactsInOrder
  <2> QED
    BY <2>3, <2>5 DEF LifecycleIInv
<1>6. CASE ReadEnds(<<>>, TRUE)
  <2>1. pass'.step = "write" /\ pass'.facts = <<>>
    BY <1>2, <1>6 DEF ReadEnds
  <2> QED
    BY <1>3, <2>1, LifecycleRests DEF ReadSteps
<1> QED
  <2>1. \/ pass.step = "snapshot" /\ fact = "missing" /\ ReadEnds(noted(fact), pass.faulted)
        \/ ~ (pass.step = "snapshot" /\ fact = "missing") /\ ReadGoesOn(noted(fact), pass.faulted)
        \/ ReadEnds(<<>>, TRUE)
        \/ ReadGoesOn(noted("invalid"), TRUE)
    BY <1>1, LifecycleOutcomes
  <2> HIDE DEF fact, noted
  <2> QED
    BY <1>4, <1>5, <1>6, <2>1

LEMMA RankIs ==
    /\ Rank("missing_snapshot") = 1 /\ Rank("pending_frames") = 2 /\ Rank("invalid_markers") = 2
    /\ Rank("ready_for_validation") = 3 /\ Rank("validation_failed") = 4
    /\ Rank("ready_for_publish") = 5
BY DEF Rank

\* The stage that the facts make: the run has what it takes, and it is not earlier than one that
\* the facts show.
LEMMA StageIsSupported ==
    ASSUME FactsInOrder, pass.step = "write", pass.facts # <<>>, NEW c \in Cycles,
           FactsRead(pass.facts, c)
    PROVE  /\ Supports(c, Rank(Stage(pass.facts)))
           /\ \A rank \in Ranks : Shows(pass.facts, rank) => Rank(Stage(pass.facts)) >= rank
<1> DEFINE facts == pass.facts
<1>1. CASE DOMAIN facts = {"snapshot"} /\ facts.snapshot = "missing"
  <2>1. Rank(Stage(facts)) = 1
    <3>1. Stage(facts) = "missing_snapshot"
      BY <1>1 DEF Stage
    <3> QED
      BY <3>1, RankIs
  <2> QED
    BY <1>1, <2>1 DEF Supports, Shows, Ranks
<1>2. CASE DOMAIN facts = ReadSteps /\ facts.snapshot # "missing"
  <2>1. /\ facts.snapshot = "valid" /\ Pinned(c)
        /\ facts.markers \in {"pending", "invalid"} \/ (facts.markers = "complete" /\ Complete(c))
        /\ facts.report \in Reports
        /\ facts.report # "missing" => report[c] # "missing"
        /\ facts.report = "passed" => report[c] = "passed"
        /\ facts.publication = "missing" \/ (facts.publication = "present"
              /\ publishedAt[c] # None)
    BY <1>2 DEF FactsRead, ReadSteps
  <2>2. CASE facts.markers \in {"pending", "invalid"}
    <3>1. Rank(Stage(facts)) = 2
      <4>1. Stage(facts) \in {"pending_frames", "invalid_markers"}
        BY <2>1, <2>2 DEF Stage
      <4> QED
        BY <4>1, RankIs
    <3> QED
      BY <1>2, <2>1, <2>2, <3>1 DEF Supports, Shows, Ranks, ReadSteps
  <2>3. CASE facts.markers = "complete" /\ facts.report = "missing"
    <3>1. Rank(Stage(facts)) = 3
      <4>1. Stage(facts) = "ready_for_validation"
        BY <2>1, <2>3 DEF Stage
      <4> QED
        BY <4>1, RankIs
    <3> QED
      BY <1>2, <2>1, <2>3, <3>1 DEF Supports, Shows, Ranks, ReadSteps
  <2>4. CASE facts.markers = "complete" /\ facts.report = "failed"
    <3>1. Rank(Stage(facts)) = 4
      <4>1. Stage(facts) = "validation_failed"
        BY <2>1, <2>4 DEF Stage
      <4> QED
        BY <4>1, RankIs
    <3> QED
      BY <1>2, <2>1, <2>4, <3>1 DEF Supports, Shows, Ranks, ReadSteps
  <2>5. CASE facts.markers = "complete" /\ facts.report = "passed"
        /\ facts.publication = "missing"
    <3>1. Rank(Stage(facts)) = 5
      <4>1. Stage(facts) = "ready_for_publish"
        BY <2>1, <2>5 DEF Stage
      <4> QED
        BY <4>1, RankIs
    <3> QED
      BY <1>2, <2>1, <2>5, <3>1 DEF Supports, Shows, Ranks, ReadSteps
  <2>6. CASE facts.markers = "complete" /\ facts.report = "passed"
        /\ facts.publication = "present"
    <3>1. Rank(Stage(facts)) = 6
      BY <2>1, <2>6 DEF Stage, Rank
    <3> QED
      BY <2>1, <2>6, <3>1 DEF Supports, Ranks
  <2> QED
    BY <2>1, <2>2, <2>3, <2>4, <2>5, <2>6 DEF Reports
<1> QED
  BY <1>1, <1>2 DEF FactsInOrder

LEMMA LifecycleWritten ==
    ASSUME HealthIInv, LifecycleIInv, WorldStep, WriteDocument
    PROVE  /\ LifecycleIInv'
           /\ document # None /\ document'.cycle = document.cycle
                  /\ None \notin {document.stage, document'.stage} /\ ~document'.faulted
                  /\ ~document.faulted
              => Rank(document'.stage) >= Rank(document.stage)
<1>1. /\ pass.step = "write" /\ pass' = Idle /\ UNCHANGED <<clock, world>>
      /\ document'.stage = (IF pass.facts = <<>> THEN None ELSE Stage(pass.facts))
      /\ document'.cycle = pass.verdict.cycle /\ document'.faulted = pass.faulted
  BY DEF WriteDocument, At
<1>2. Settled /\ ~Settled' /\ pass'.step = "idle"
  BY <1>1 DEF Settled, Idle, ReadSteps
<1>3. FactsInOrder' /\ FactsHold'
  BY <1>2 DEF FactsInOrder, FactsHold, ReadSteps
<1>4. ASSUME document'.stage # None, ~document'.faulted
      PROVE  /\ pass.facts # <<>> /\ pass.verdict.cycle \in Cycles
             /\ FactsRead(pass.facts, pass.verdict.cycle)
             /\ document'.stage = Stage(pass.facts)
  BY <1>1, <1>2, <1>4 DEF LifecycleIInv, FactsHold
<1>5. StageHolds'
  <2> SUFFICES ASSUME document'.stage # None, ~document'.faulted
               PROVE  StageHolds'
    BY DEF StageHolds
  <2>1. PICK c, rank : c = pass.verdict.cycle /\ rank = Rank(Stage(pass.facts)) /\ rank \in Ranks
    BY RankIsARank
  <2>2. c \in Cycles /\ Supports(c, rank)
    BY <1>1, <1>4, <2>1, StageIsSupported DEF LifecycleIInv
  <2>3. Supports(c, rank)'
    BY <2>1, <2>2, SupportsStays
  <2> QED
    BY <1>1, <1>2, <1>4, <2>1, <2>2, <2>3 DEF StageHolds
<1>6. ASSUME document # None, document'.cycle = document.cycle,
             None \notin {document.stage, document'.stage}, ~document'.faulted, ~document.faulted
      PROVE  Rank(document'.stage) >= Rank(document.stage)
  <2>1. Shows(pass.facts, Rank(document.stage))
    BY <1>1, <1>2, <1>6 DEF LifecycleIInv, StageHolds
  <2> QED
    BY <1>1, <1>4, <1>6, <2>1, RankIsARank, StageIsSupported DEF LifecycleIInv
<1> QED
  BY <1>3, <1>5, <1>6 DEF LifecycleIInv

\* The steps before the lifecycle leave no fact.
LEMMA LifecycleBefore ==
    ASSUME PassTyped, FactsInOrder, Inspect, ~ReadLifecycle, ~WriteDocument
    PROVE  UNCHANGED document /\ pass'.facts = <<>> /\ pass'.step \notin ReadSteps \ {"snapshot"}
<1>1. DOMAIN pass = {"step", "now", "workload", "history", "latest", "todo", "progress",
                     "verdict", "facts", "faulted"}
  BY DEF PassTyped
<1>2. UNCHANGED document
  BY DEF Inspect, Begin, ReadFast, ReadHistory, ReadLatest, ReadProgress, Classify,
         FailInspection, Crash, PassStep
<1>3. ASSUME pass.step \in {"fast", "history", "published", "progress", "snapshot"}
      PROVE  pass.facts = <<>>
  BY <1>3 DEF PassTyped, Settled, ReadSteps, FactsInOrder
<1>4. CASE Begin \/ Crash
  <2>1. CASE Begin
    <3>1. pass' = [Idle EXCEPT !.step = "fast", !.now = clock, !.workload = deployed]
      BY <2>1 DEF Begin, PassStep
    <3>2. pass'.facts = <<>> /\ pass'.step = "fast"
      BY <3>1 DEF Idle
    <3> QED
      BY <1>2, <3>2 DEF ReadSteps
  <2>2. CASE Crash
    <3>1. pass'.facts = <<>> /\ pass'.step = "idle"
      BY <2>2 DEF Crash, PassStep, Idle
    <3> QED
      BY <1>2, <3>1 DEF ReadSteps
  <2> QED
    BY <1>4, <2>1, <2>2
<1>5. CASE ReadFast
  <2>1. PICK value \in {latest, None}, faulted \in BOOLEAN :
            LET p == [pass EXCEPT !.faulted = @ \/ faulted]
            IN  pass' = IF FastFresh(pass, value) THEN Verdict(p, "fresh", value, TRUE)
                        ELSE [p EXCEPT !.step = "history"]
    BY <1>5 DEF ReadFast, PassStep
  <2>2. pass'.facts = pass.facts /\ pass'.step \in {"snapshot", "history"}
    <3>1. CASE FastFresh(pass, value)
      BY <1>1, <2>1, <3>1 DEF Verdict
    <3>2. CASE ~FastFresh(pass, value)
      BY <1>1, <2>1, <3>2
    <3> QED
      BY <3>1, <3>2
  <2> QED
    BY <1>2, <1>3, <1>5, <2>2 DEF ReadFast, At, ReadSteps
<1>6. CASE ReadHistory
  <2>1. pass'.facts = pass.facts /\ pass'.step = "published"
    BY <1>1, <1>6 DEF ReadHistory, PassStep
  <2> QED
    BY <1>2, <1>3, <1>6, <2>1 DEF ReadHistory, At, ReadSteps
<1>7. CASE ReadLatest
  <2>1. pass'.facts = pass.facts /\ pass'.step = "progress"
    BY <1>1, <1>7 DEF ReadLatest, PassStep
  <2> QED
    BY <1>2, <1>3, <1>7, <2>1 DEF ReadLatest, At, ReadSteps
<1>8. CASE ReadProgress
  <2>1. pass'.facts = pass.facts /\ pass'.step = "progress"
    BY <1>1, <1>8 DEF ReadProgress, PassStep, At
  <2> QED
    BY <1>2, <1>3, <1>8, <2>1 DEF ReadProgress, At, ReadSteps
<1>9. CASE Classify
  <2>1. pass'.facts = pass.facts /\ pass'.step \in {"snapshot", "write"}
    BY <1>1, <1>9 DEF Classify, PassStep, Verdict
  <2> QED
    BY <1>2, <1>3, <1>9, <2>1 DEF Classify, At, ReadSteps
<1>10. CASE FailInspection
  <2>1. pass'.facts = pass.facts /\ pass'.step = "write"
    BY <1>1, <1>10 DEF FailInspection, PassStep
  <2> QED
    BY <1>2, <1>3, <1>10, <2>1 DEF FailInspection, ReadSteps
<1> QED
  BY <1>4, <1>5, <1>6, <1>7, <1>8, <1>9, <1>10 DEF Inspect

LEMMA LifecycleInductive ==
    ASSUME HealthIInv, LifecycleIInv, [Next]_vars
    PROVE  LifecycleIInv'
<1>1. WorldStep /\ WorldTyped /\ WorldSound /\ PassTyped /\ FactsInOrder
  BY HealthInductive DEF HealthIInv, LifecycleIInv
<1>2. CASE Runs
  BY <1>1, <1>2, RunsStep, LifecycleRests
<1>3. CASE UNCHANGED vars
  <2>1. UNCHANGED pass /\ UNCHANGED document
    BY <1>3 DEF vars
  <2> QED
    BY <1>1, <2>1, LifecycleRests
<1>4. CASE ReadLifecycle
  BY <1>1, <1>4, LifecycleRead
<1>5. CASE WriteDocument
  BY <1>1, <1>5, LifecycleWritten
<1>6. CASE Inspect /\ ~ReadLifecycle /\ ~WriteDocument
  BY <1>1, <1>6, LifecycleBefore, LifecycleRests
<1> QED
  BY <1>2, <1>3, <1>4, <1>5, <1>6 DEF Next

IInv == HealthIInv /\ LifecycleIInv

LEMMA IInvIsInvariant == Spec => []IInv
<1>1. Init => IInv
  <2> SUFFICES ASSUME Init
               PROVE  IInv
    OBVIOUS
  <2>1. pass.step = "idle" /\ document = None
    BY DEF Init, Idle
  <2>2. LifecycleIInv
    BY <2>1 DEF LifecycleIInv, FactsInOrder, FactsHold, StageHolds, Settled, ReadSteps
  <2> QED
    BY <2>2, InitHolds DEF IInv
<1>2. IInv /\ [Next]_vars => IInv'
  BY HealthInductive, LifecycleInductive DEF IInv
<1> QED
  BY <1>1, <1>2, PTL DEF Spec

\* Of two documents about one run whose reads succeeded, the later never shows it at an earlier
\* stage (lifecycle.py:221-261, 390-414), although its reads are spread over the writes of the
\* run, its validation, its publication and any number of deploys.
THEOREM StagesAreKept == Spec => StageNeverFallsBack
<1> DEFINE Kept == document # None /\ document'.cycle = document.cycle
                      /\ None \notin {document.stage, document'.stage} /\ ~document'.faulted
                      /\ ~document.faulted
                    => Rank(document'.stage) >= Rank(document.stage)
<1>1. IInv /\ [Next]_vars => [Kept]_document
  <2> SUFFICES ASSUME IInv, [Next]_vars, document' # document
               PROVE  Kept
    OBVIOUS
  <2>1. WorldStep /\ HealthIInv /\ LifecycleIInv
    BY HealthInductive DEF IInv
  <2>2. WriteDocument
    <3>1. Runs => UNCHANGED document
      BY <2>1, RunsStep DEF HealthIInv
    <3> QED
      BY <3>1 DEF Next, vars, Inspect, Begin, ReadFast, ReadHistory, ReadLatest, ReadProgress,
                  Classify, ReadLifecycle, FailInspection, Crash, PassStep
  <2> QED
    BY <2>1, <2>2, LifecycleWritten
<1> HIDE DEF Kept
<1>2. Spec => [][Kept]_document
  BY <1>1, IInvIsInvariant, PTL DEF Spec
<1> QED
  BY <1>2 DEF StageNeverFallsBack, Kept

===============================================================================
