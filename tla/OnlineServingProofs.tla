------------------------- MODULE OnlineServingProofs -------------------------
(***************************************************************************)
(* Proofs about OnlineServing for every method, range of widths, token      *)
(* budget and set of batches: the controller's state is well typed, and no   *)
(* frame exceeds the token budget or its width's batch limit, unless it is   *)
(* one of a held cohort that has outgrown its width.  Where a step           *)
(* is a whole number of candidates and the widths have no gap, a width that  *)
(* still fits is left by at most a step.  Where no cohort is held, every     *)
(* frame proposes drafts and a batch that does not fit every width forces    *)
(* the anchor, the sweep launches no arm beyond one it has not measured.     *)
(***************************************************************************)
EXTENDS OnlineServing, FiniteSetTheorems, WellFoundedInduction, TLAPS

-----------------------------------------------------------------------------
(* Extrema and nearest members.                                             *)

\* A non-empty set of naturals has a least member.
LEMMA LeastMember ==
  ASSUME NEW S \in SUBSET Nat, S # {}
  PROVE  \E y \in S : \A x \in S : y <= x
<1>1. PICK y \in S : \A x \in S : ~(<<x, y>> \in OpToRel(<, Nat))
  BY NatLessThanWellFounded, WFMin
<1>2. ASSUME NEW x \in S PROVE y <= x
  <2>1. ~(x < y)
    BY <1>1 DEF OpToRel
  <2>. QED  BY <2>1
<1>. QED  BY <1>2

\* Min of a set of naturals is its least member.
LEMMA MinOfNats ==
  ASSUME NEW S \in SUBSET Nat, S # {}
  PROVE  Min(S) \in S /\ \A x \in S : Min(S) <= x
BY LeastMember DEF Min

\* Max of a bounded set of naturals is its greatest member.
LEMMA MaxOfNats ==
  ASSUME NEW bound \in Nat, NEW S \in SUBSET (0 .. bound), S # {}
  PROVE  Max(S) \in S /\ \A x \in S : x <= Max(S)
<1>. DEFINE gaps == {bound - x : x \in S}
<1>1. gaps \in SUBSET Nat /\ gaps # {}
  <2>1. \A x \in S : bound - x \in Nat
    OBVIOUS
  <2>. QED  BY <2>1
<1>2. PICK d \in gaps : \A e \in gaps : d <= e
  BY <1>1, LeastMember
<1>3. PICK m \in S : d = bound - m
  OBVIOUS
<1>4. ASSUME NEW x \in S PROVE x <= m
  BY <1>2, <1>3
<1>. QED  BY <1>4 DEF Max

\* The extrema of two integers.
LEMMA MaxOfTwo ==
  ASSUME NEW a \in Int, NEW b \in Int
  PROVE  Max({a, b}) = IF a >= b THEN a ELSE b
BY DEF Max

\* The smaller of two integers, without CHOOSE.
LEMMA MinOfTwo ==
  ASSUME NEW a \in Int, NEW b \in Int
  PROVE  Min({a, b}) = IF a <= b THEN a ELSE b
BY DEF Min

\* The candidates are widths from MinGamma to MaxGamma and include both.
LEMMA CandidateFacts ==
  /\ Gammas \subseteq 0 .. MaxGamma /\ Gammas \subseteq Nat
  /\ MinGamma \in Gammas /\ MaxGamma \in Gammas
BY CandidateAssumption DEF Gammas, Stride

\* No member is nearer than the nearest one.
LEMMA NearestIsClosest ==
  ASSUME NEW S \in (SUBSET Gammas) \ {{}}, NEW x \in 0 .. MaxGamma
  PROVE  /\ Nearest[S][x] \in S
         /\ \A h \in S : Distance(Nearest[S][x], x) <= Distance(h, x)
<1>. DEFINE reach == {Distance(g, x) : g \in S}
            Near(g) ==
              \A h \in S : \/ Distance(g, x) < Distance(h, x)
                           \/ Distance(g, x) = Distance(h, x) /\ g >= h
<1>1. /\ S \subseteq 0 .. MaxGamma /\ MaxGamma \in Nat
      /\ reach \in SUBSET Nat /\ reach # {}
  BY CandidateFacts, CandidateAssumption DEF Distance
<1>2. PICK d \in reach : \A e \in reach : d <= e
  BY <1>1, LeastMember
<1>. DEFINE near == {g \in S : Distance(g, x) = d}
<1>3. near \in SUBSET (0 .. MaxGamma) /\ near # {}
  BY <1>1
<1>4. PICK m \in near : \A h \in near : h <= m
  BY <1>1, <1>3, MaxOfNats
<1>5. Near(m)
  <2>1. ASSUME NEW h \in S
        PROVE  \/ Distance(m, x) < Distance(h, x)
               \/ Distance(m, x) = Distance(h, x) /\ m >= h
    <3>1. d \in Nat /\ Distance(m, x) = d /\ Distance(h, x) \in Nat /\ d <= Distance(h, x)
      BY <1>1, <1>2
    <3>2. Distance(h, x) = d => h <= m /\ h \in Nat /\ m \in Nat
      BY <1>1, <1>4
    <3>. QED  BY <3>1, <3>2
  <2>. QED  BY <2>1
<1>6. Nearest[S][x] = CHOOSE g \in S : Near(g)
  BY DEF Nearest
<1>7. ASSUME NEW g \in S, Near(g)
      PROVE  \A h \in S : Distance(g, x) <= Distance(h, x)
  <2>1. \A h \in S : Distance(h, x) \in Nat
    BY <1>1 DEF Distance
  <2>. QED  BY <1>7, <2>1
<1>. HIDE DEF Near
<1>. QED  BY <1>5, <1>6, <1>7

\* Nearest[S][x] is a member of S.
LEMMA NearestMember ==
  ASSUME NEW S \in (SUBSET Gammas) \ {{}}, NEW x \in 0 .. MaxGamma
  PROVE  Nearest[S][x] \in S
BY NearestIsClosest

\* The anchor is a candidate.
LEMMA AnchorCandidate == Anchor \in Gammas
<1>1. CASE HasInitial
  <2>1. CASE Method = "draft_model" /\ MinGamma <= 2 /\ 2 <= MaxGamma
    BY <1>1, <2>1, CandidateAssumption DEF Anchor, Initial, Gammas, Stride
  <2>2. CASE Method = "eagle3"
    <3>1. Anchor = Min({MaxGamma, Max({MinGamma, 5})})
      BY <1>1, <2>2 DEF Anchor, Initial
    <3>2. Anchor \in MinGamma .. MaxGamma
      BY <3>1, MaxOfTwo, MinOfTwo, CandidateAssumption
    <3>. QED  BY <2>2, <3>2, CandidateAssumption DEF Gammas, Stride
  <2>3. CASE Method = "mtp"
    <3>. DEFINE start == Min({MaxGamma, Max({MinGamma, 4})})
    <3>1. Anchor = start - (start % 2)
      BY <1>1, <2>3 DEF Anchor, Initial
    <3>2. start \in MinGamma .. MaxGamma
      BY MaxOfTwo, MinOfTwo, CandidateAssumption
    <3>. QED  BY <2>3, <3>1, <3>2, CandidateAssumption DEF Gammas, Stride
  <2>. QED  BY <1>1, <2>1, <2>2, <2>3, CandidateAssumption DEF HasInitial, Initial
<1>2. CASE ~HasInitial
  <2>1. CASE MinGamma = MaxGamma
    <3>1. (MinGamma + MaxGamma + 1) \div 2 = MaxGamma
      BY <2>1, CandidateAssumption
    <3>. QED  BY <1>2, <3>1, NearestMember, CandidateFacts, CandidateAssumption DEF Anchor
  <2>2. CASE MinGamma < MaxGamma
    <3>1. (MinGamma + MaxGamma + 1) \div 2 \in 0 .. MaxGamma
      BY <2>2, CandidateAssumption
    <3>. QED  BY <1>2, <3>1, NearestMember, CandidateFacts DEF Anchor
  <2>. QED  BY <2>1, <2>2, CandidateAssumption
<1>. QED  BY <1>1, <1>2

\* Some candidate fits every batch the scheduler reports.
LEMMA FeasibleFacts ==
  ASSUME NEW batch \in Batches
  PROVE  /\ Feasible[batch] \in (SUBSET Gammas) \ {{}}
         /\ Bucket(batch) \in Keys
BY BatchAssumption DEF Feasible, Keys

\* A step towards a candidate ends on a feasible width.
LEMMA StepIsFeasible ==
  ASSUME NEW F \in (SUBSET Gammas) \ {{}}, NEW current \in Gammas, NEW target \in Gammas
  PROVE  StepToward(current, target, F) \in F
<1>1. /\ F \in SUBSET (0 .. MaxGamma) /\ F \in SUBSET Nat /\ MaxGamma \in Nat /\ MaxStep \in Nat
      /\ current \in Nat /\ target \in Nat
  BY CandidateFacts, CandidateAssumption
<1>2. /\ Min(F) \in F /\ Max(F) \in F
  BY <1>1, MinOfNats, MaxOfNats
<1>3. Clipped(current, target, F) \in 0 .. MaxGamma
  <2>. DEFINE floor == Min(F)
              ceiling == Max(F)
              lower == Max({floor, current - MaxStep})
              upper == Min({ceiling, current + MaxStep})
  <2>1. /\ floor \in Nat /\ ceiling \in 0 .. MaxGamma
    BY <1>1, <1>2
  <2>. HIDE DEF floor, ceiling
  <2>2. current - MaxStep \in Int /\ current + MaxStep \in Nat
    BY <1>1
  <2>3. lower \in Nat
    BY <2>1, <2>2, MaxOfTwo
  <2>4. upper \in 0 .. MaxGamma
    BY <1>1, <2>1, <2>2, MinOfTwo
  <2>. HIDE DEF lower, upper
  <2>5. Max({target, lower}) \in Nat
    BY <1>1, <2>3, MaxOfTwo
  <2>6. Min({Max({target, lower}), upper}) \in 0 .. MaxGamma
    BY <1>1, <2>4, <2>5, MinOfTwo
  <2>. QED  BY <2>6 DEF Clipped, lower, upper, floor, ceiling
<1>. QED  BY <1>3, NearestMember DEF StepToward

-----------------------------------------------------------------------------
(* Steps.                                                                   *)

\* Where a step ends on the width it was clipped to: it is a whole number of
\* candidates, and the widths feasible for a batch have no gap.  EAGLE3's have
\* one above width 0, which alone has no batch limit.
Gapless == Method = "eagle3" => MinGamma > 0
StepsAligned == MaxStep % Stride = 0 /\ Gapless

\* A width within one step of the present one.
Short(g, current) == StepsAligned => Distance(g, current) <= MaxStep

\* A smaller width of EAGLE3 has a smaller batch limit.
LEMMA LimitGrows ==
  ASSUME Gapless, NEW a \in Gammas, NEW g \in Gammas, a <= g,
         NEW batch \in 1 .. MaxNumSeqs, batch <= BatchLimit(a)
  PROVE  batch <= BatchLimit(g)
<1>. DEFINE floor == Max({1, Min({MaxGamma, 5}) - 1})
<1>1. /\ a \in Nat /\ g \in Nat /\ a >= MinGamma /\ MaxNumSeqs \in Nat \ {0}
      /\ MinGamma \in Nat
  BY BatchAssumption, CandidateAssumption DEF Gammas
<1>2. floor \in 1 .. 4
  <2>1. Min({MaxGamma, 5}) \in 0 .. 5
    BY CandidateAssumption, MinOfTwo
  <2>2. Min({MaxGamma, 5}) - 1 \in Int
    BY <2>1
  <2>. QED  BY <2>1, <2>2, MaxOfTwo
<1>3. ASSUME NEW h \in Gammas
      PROVE  BatchLimit(h) =
               IF Method # "eagle3" \/ h = 0 \/ h >= floor THEN MaxNumSeqs
               ELSE Max({1, MaxNumSeqs \div 2 ^ (floor - h)})
  BY DEF BatchLimit
<1>. HIDE DEF floor
<1>10. CASE Method # "eagle3" \/ g >= floor
  <2>1. BatchLimit(g) = MaxNumSeqs
    BY <1>3, <1>10
  <2>. QED  BY <1>1, <2>1
<1>. SUFFICES ASSUME Method = "eagle3", g < floor
              PROVE  batch <= BatchLimit(g)
  BY <1>1, <1>2, <1>10
<1>4. a # 0 /\ g # 0
  BY <1>1 DEF Gapless
<1>5. ASSUME NEW n \in 1 .. 3
      PROVE  2 ^ n = IF n = 1 THEN 2 ELSE IF n = 2 THEN 4 ELSE 8
  <2>1. n = 1 \/ n = 2 \/ n = 3
    OBVIOUS
  <2>2. 2 ^ 1 = 2 /\ 2 ^ 2 = 4 /\ 2 ^ 3 = 8
    OBVIOUS
  <2>. QED  BY <2>1, <2>2
<1>. DEFINE Rows(n) == MaxNumSeqs \div 2 ^ n
<1>6. ASSUME NEW n \in 1 .. 3
      PROVE  /\ Rows(n) \in Nat
             /\ \A m \in 1 .. 3 : m <= n => Rows(n) <= Rows(m)
  <2>1. /\ Rows(1) = MaxNumSeqs \div 2 /\ Rows(2) = MaxNumSeqs \div 4
        /\ Rows(3) = MaxNumSeqs \div 8
    BY <1>5
  <2>2. /\ MaxNumSeqs \div 8 \in Nat /\ MaxNumSeqs \div 4 \in Nat
        /\ MaxNumSeqs \div 2 \in Nat
        /\ MaxNumSeqs \div 8 <= MaxNumSeqs \div 4
        /\ MaxNumSeqs \div 4 <= MaxNumSeqs \div 2
    BY <1>1
  <2>3. \A m \in 1 .. 3 : m = 1 \/ m = 2 \/ m = 3
    OBVIOUS
  <2>. HIDE DEF Rows
  <2>. QED  BY <2>1, <2>2, <2>3
<1>7. floor - a \in 1 .. 3 /\ floor - g \in 1 .. 3 /\ floor - g <= floor - a
  BY <1>1, <1>2, <1>4
<1>8. /\ BatchLimit(a) = Max({1, Rows(floor - a)})
      /\ BatchLimit(g) = Max({1, Rows(floor - g)})
  BY <1>1, <1>3, <1>4, <1>2
<1>9. /\ Rows(floor - a) \in Nat /\ Rows(floor - g) \in Nat
      /\ Rows(floor - a) <= Rows(floor - g)
  BY <1>6, <1>7
<1>. HIDE DEF Rows
<1>. QED  BY <1>1, <1>8, <1>9, MaxOfTwo

\* The widths feasible for a batch have no gap.
LEMMA NoGap ==
  ASSUME Gapless, NEW batch \in Batches, NEW a \in Feasible[batch],
         NEW c \in Feasible[batch], NEW g \in Gammas, a <= g, g <= c
  PROVE  g \in Feasible[batch]
<1>1. /\ batch \in 1 .. MaxNumSeqs /\ MaxNumSeqs \in Nat /\ Budget \in Nat
      /\ Feasible[batch] = {h \in Gammas : batch <= BatchLimit(h)
                                           /\ batch * (h + 1) <= Budget}
  BY BatchAssumption DEF Feasible
<1>2. /\ a \in Gammas /\ batch <= BatchLimit(a)
      /\ c \in Gammas /\ batch * (c + 1) <= Budget
  BY <1>1
<1>3. a \in Nat /\ c \in Nat /\ g \in Nat /\ batch \in Nat
  BY <1>1, <1>2, CandidateFacts
<1>4. batch * (g + 1) <= Budget
  BY <1>1, <1>2, <1>3
<1>5. batch <= BatchLimit(g)
  BY <1>1, <1>2, LimitGrows
<1>. QED  BY <1>1, <1>4, <1>5

\* A width that belongs to the set is the nearest one to itself.
LEMMA NearestItself ==
  ASSUME NEW S \in (SUBSET Gammas) \ {{}}, NEW x \in S
  PROVE  Nearest[S][x] = x
<1>1. x \in 0 .. MaxGamma /\ S \subseteq Nat
  BY CandidateFacts
<1>2. \A h \in S : Distance(h, x) \in Nat /\ (Distance(h, x) = 0 <=> h = x)
  BY <1>1 DEF Distance
<1>. DEFINE Near(g) ==
       \A h \in S : \/ Distance(g, x) < Distance(h, x)
                    \/ Distance(g, x) = Distance(h, x) /\ g >= h
<1>3. Near(x)
  BY <1>1, <1>2
<1>4. ASSUME NEW g \in S, Near(g) PROVE g = x
  BY <1>1, <1>2, <1>4
<1>5. Nearest[S][x] = CHOOSE g \in S : Near(g)
  BY <1>1 DEF Nearest
<1>. HIDE DEF Near
<1>. QED  BY <1>3, <1>4, <1>5

\* A step towards a candidate is short: the width it is clipped to is feasible, so
\* the nearest feasible width is that one.
LEMMA StepIsShort ==
  ASSUME NEW batch \in Batches, Feasible[batch] \in (SUBSET Gammas) \ {{}},
         NEW current \in Feasible[batch], NEW target \in Gammas
  PROVE  Short(StepToward(current, target, Feasible[batch]), current)
<1>. SUFFICES ASSUME StepsAligned
              PROVE  Distance(StepToward(current, target, Feasible[batch]), current)
                       <= MaxStep
  BY DEF Short
<1>. DEFINE F == Feasible[batch]
            floor == Min(F)
            ceiling == Max(F)
            lower == Max({floor, current - MaxStep})
            upper == Min({ceiling, current + MaxStep})
            x == Min({Max({target, lower}), upper})
<1>1. /\ F \in SUBSET (0 .. MaxGamma) /\ F \in SUBSET Nat /\ F \in SUBSET Gammas
      /\ F # {} /\ current \in F
      /\ MaxGamma \in Nat /\ MaxStep \in Nat /\ target \in Nat /\ current \in Nat
  BY CandidateFacts, CandidateAssumption
<1>2. /\ floor \in F /\ ceiling \in F /\ floor <= current /\ current <= ceiling
      /\ floor \in Nat /\ ceiling \in Nat
  BY <1>1, MinOfNats, MaxOfNats
<1>. HIDE DEF floor, ceiling, F
<1>3. lower = IF floor >= current - MaxStep THEN floor ELSE current - MaxStep
  BY <1>1, <1>2, MaxOfTwo
<1>4. upper = IF ceiling <= current + MaxStep THEN ceiling ELSE current + MaxStep
  BY <1>1, <1>2, MinOfTwo
<1>5. lower \in Nat /\ upper \in Nat /\ lower <= current /\ current <= upper
  BY <1>1, <1>2, <1>3, <1>4
<1>6. Max({target, lower}) = IF target >= lower THEN target ELSE lower
  BY <1>1, <1>5, MaxOfTwo
<1>7. x = IF target <= lower THEN lower ELSE IF target >= upper THEN upper ELSE target
  <2>. DEFINE high == Max({target, lower})
  <2>1. high \in Nat
    BY <1>1, <1>5, <1>6
  <2>2. x = Min({high, upper})
    OBVIOUS
  <2>. HIDE DEF upper, lower, x
  <2>3. high = IF target >= lower THEN target ELSE lower
    BY <1>6
  <2>. HIDE DEF high
  <2>4. x = IF high <= upper THEN high ELSE upper
    BY <1>5, <2>1, <2>2, MinOfTwo
  <2>. QED  BY <1>1, <1>5, <2>1, <2>3, <2>4
<1>. HIDE DEF lower, upper, x
<1>8. x \in Nat /\ floor <= x /\ x <= ceiling /\ Distance(x, current) <= MaxStep
  BY <1>1, <1>2, <1>3, <1>4, <1>5, <1>7 DEF Distance
<1>9. x \in {floor, ceiling, target, current - MaxStep, current + MaxStep}
  BY <1>3, <1>4, <1>7
<1>10. x \in Gammas
  <2>1. /\ floor \in Gammas /\ ceiling \in Gammas /\ current \in Gammas
    BY <1>1, <1>2
  <2>2. MinGamma \in Nat /\ Stride \in {1, 2} /\ MaxStep % Stride = 0
    BY CandidateAssumption DEF Stride, StepsAligned
  <2>3. floor >= MinGamma /\ ceiling <= MaxGamma
    BY <2>1 DEF Gammas
  <2>4. x \in MinGamma .. MaxGamma
    BY <1>1, <1>2, <1>8, <2>2, <2>3
  <2>5. CASE x \in {floor, ceiling, target}
    BY <2>1, <2>5
  <2>6. CASE x \in {current - MaxStep, current + MaxStep}
    <3>1. (current - MinGamma) % Stride = 0
      BY <2>1 DEF Gammas
    <3>2. (x - MinGamma) % Stride = 0
      <4>1. CASE Stride = 1
        BY <1>8, <2>2, <4>1
      <4>2. CASE Stride = 2
        BY <1>1, <1>8, <2>2, <2>6, <3>1, <4>2
      <4>. QED  BY <2>2, <4>1, <4>2
    <3>. QED  BY <2>4, <3>2 DEF Gammas
  <2>. QED  BY <1>9, <2>5, <2>6
<1>11. x \in F
  BY <1>2, <1>8, <1>10, NoGap DEF F, StepsAligned
<1>12. Clipped(current, target, F) = x
  BY DEF Clipped, x, lower, upper, floor, ceiling
<1>13. StepToward(current, target, F) = x
  BY <1>1, <1>11, <1>12, NearestItself DEF StepToward
<1>. QED  BY <1>8, <1>13 DEF F

-----------------------------------------------------------------------------
(* Buckets.                                                                 *)

\* The saturation bounds of the model are naturals that cover the windows.
LEMMA BoundFacts ==
  /\ ObsBound \in Nat
  /\ SchedBound \in Nat /\ 1 <= SchedBound /\ ControlInterval <= SchedBound
<1>1. /\ SafeObservations \in Nat /\ Padding \in Nat
      /\ Window \in Nat /\ WarmupSamples \in Nat /\ ControlInterval \in Nat \ {0}
  BY WindowAssumption DEF SafeObservations, Padding
<1>2. ObsBound \in Nat
  <2>. DEFINE S == {Window, WarmupSamples, SafeObservations}
  <2>1. Window + WarmupSamples + SafeObservations \in Nat
    BY <1>1
  <2>2. S \in SUBSET (0 .. Window + WarmupSamples + SafeObservations) /\ S # {}
    BY <1>1
  <2>3. Max(S) \in S
    BY <2>1, <2>2, MaxOfNats
  <2>. QED  BY <1>1, <2>3 DEF ObsBound
<1>3. SchedBound = IF ControlInterval >= WarmupSamples + Padding
                   THEN ControlInterval ELSE WarmupSamples + Padding
  BY <1>1, MaxOfTwo DEF SchedBound
<1>. QED  BY <1>1, <1>2, <1>3

\* A saturated counter stays within its bound.
LEMMA SatBounded ==
  ASSUME NEW bound \in Nat, NEW n \in 0 .. bound
  PROVE  Sat(n, bound) \in 0 .. bound
BY DEF Sat

\* Selecting a width keeps a bucket well typed.
LEMMA ActivatedType ==
  ASSUME NEW B \in BucketType, NEW g \in Gammas
  PROVE  Activated(B, g) \in BucketType
<1>1. ASSUME NEW h \in BOOLEAN, NEW n \in 0 .. SchedBound
      PROVE  [B EXCEPT !.selected = g, !.heard = h, !.sched = n] \in BucketType
  BY DEF BucketType
<1>2. FALSE \in BOOLEAN /\ 1 \in 0 .. SchedBound
  BY BoundFacts
<1>. QED  BY <1>1, <1>2, Zenon DEF Activated

\* Counting one more frame keeps a bucket well typed.
LEMMA CountedType ==
  ASSUME NEW B \in BucketType
  PROVE  Counted(B) \in BucketType
<1>1. Sat(B.sched, SchedBound) \in 0 .. SchedBound
  BY BoundFacts, SatBounded DEF BucketType
<1>. QED  BY <1>1 DEF Counted, BucketType

\* A bucket in which the controller follows its current width is well typed.
LEMMA SettledType ==
  ASSUME NEW B \in BucketType, gamma \in Gammas
  PROVE  Settled(B) \in BucketType /\ Launched(Settled(B)) \in BucketType
<1>1. Settled(B) \in BucketType
  <2>. DEFINE C == [B EXCEPT !.boot = None, !.wtarget = None]
  <2>1. C \in BucketType
    BY DEF BucketType
  <2>2. ASSUME NEW h \in BOOLEAN, NEW n \in 0 .. SchedBound
        PROVE  [C EXCEPT !.selected = gamma, !.heard = h, !.sched = n] \in BucketType
    <3>. HIDE DEF C
    <3>. QED  BY <2>1 DEF BucketType
  <2>3. FALSE \in BOOLEAN /\ 0 \in 0 .. SchedBound
    BY BoundFacts
  <2>. QED  BY <2>1, <2>2, <2>3, Zenon DEF Settled
<1>2. ASSUME NEW C \in BucketType PROVE Launched(C) \in BucketType
  BY <1>2 DEF Launched, BucketType
<1>. QED  BY <1>1, <1>2

\* A recorded reward keeps the bucket well typed.
LEMMA RecordedType ==
  ASSUME NEW B \in BucketType, NEW g \in Gammas
  PROVE  Recorded(B, g) \in BucketType
<1>1. Sat(B.obs[g], ObsBound) \in 0 .. ObsBound
  BY BoundFacts, SatBounded DEF BucketType
<1>2. ASSUME B.reval # <<>>
      PROVE  <<g, Sat(B.reval[2], Window)>> \in Gammas \X (0 .. Window)
  BY <1>2, SatBounded, WindowAssumption DEF BucketType
<1>. QED  BY <1>1, <1>2, ZenonT(60) DEF Recorded, BucketType

BucketsType == buckets \in [Keys -> BucketType \cup {Absent}]

\* Looking a bucket up, with or without seeding it, yields a well-typed bucket.
LEMMA OpenedType ==
  ASSUME BucketsType, NEW k \in Keys, NEW B \in Opened(k)
  PROVE  B \in BucketType
<1>1. NewBucket \in BucketType
  BY BoundFacts DEF NewBucket, BucketType
<1>. DEFINE C == IF buckets[k] = Absent THEN NewBucket ELSE buckets[k]
<1>2. C \in BucketType
  BY <1>1 DEF BucketsType
<1>3. ASSUME NEW t \in SourceOf(k)
      PROVE  2 * k \in Keys /\ buckets[2 * k] \in BucketType /\ t \in Gammas
  BY <1>3 DEF SourceOf, BucketsType, BucketType
<1>4. ASSUME NEW t \in Gammas, NEW S \in BucketType
      PROVE  Seeded(C, S, t) \in BucketType
  <2>. HIDE DEF C
  <2>1. SweepComplete(S) \in BOOLEAN
    BY DEF SweepComplete, BucketType
  <2>2. ASSUME NEW h \in BOOLEAN, NEW l \in SUBSET Gammas, NEW r \in BOOLEAN
        PROVE  [C EXCEPT !.seeded = h, !.boot = t, !.launched = l, !.returned = r]
                 \in BucketType
    BY <1>2, ZenonT(60) DEF BucketType
  <2>3. C.launched \in SUBSET Gammas /\ C.returned \in BOOLEAN
    BY <1>2 DEF BucketType
  <2>4. /\ TRUE \in BOOLEAN
        /\ (IF SweepComplete(S) THEN Gammas ELSE C.launched) \in SUBSET Gammas
        /\ (C.returned \/ SweepComplete(S)) \in BOOLEAN
    BY <2>3, Zenon
  <2>. QED  BY <2>2, <2>4, Zenon DEF Seeded
<1>. QED  BY <1>2, <1>3, <1>4 DEF Opened

-----------------------------------------------------------------------------
(* Decisions.                                                               *)

\* What every decision for a batch leaves behind.  Only a width that the batch does
\* not fit is left by more than a step.
Decided(batch) ==
  /\ gamma' \in Feasible[batch]
  /\ gamma \in Feasible[batch] => Short(gamma', gamma)
  /\ BucketsType'
  /\ active' \in Keys \cup {None}
  /\ burn' = burn /\ stamped' = stamped

\* Where the branches of choose start.
Serving(batch, B) ==
  /\ BucketsType /\ active \in Keys \cup {None}
  /\ batch \in Batches /\ gamma \in Feasible[batch] /\ B \in BucketType

\* What the branches of choose may assume: the feasible widths are candidates, and
\* every nearest width and every step of theirs is feasible, and steps are short.
LEMMA ServingFacts ==
  ASSUME NEW batch, NEW B, Serving(batch, B)
  PROVE  /\ Feasible[batch] \in (SUBSET Gammas) \ {{}}
         /\ gamma \in Gammas
         /\ Anchor \in 0 .. MaxGamma
         /\ \A x \in 0 .. MaxGamma : Nearest[Feasible[batch]][x] \in Feasible[batch]
         /\ \A t \in Gammas : /\ StepToward(gamma, t, Feasible[batch]) \in Feasible[batch]
                             /\ Short(StepToward(gamma, t, Feasible[batch]), gamma)
         /\ Short(gamma, gamma)
<1>1. /\ Feasible[batch] \in (SUBSET Gammas) \ {{}}
      /\ gamma \in Gammas /\ gamma \in Feasible[batch] /\ batch \in Batches
      /\ Anchor \in 0 .. MaxGamma
  BY FeasibleFacts, AnchorCandidate, CandidateFacts DEF Serving
<1>2. \A x \in 0 .. MaxGamma : Nearest[Feasible[batch]][x] \in Feasible[batch]
  BY <1>1, NearestMember
<1>3. ASSUME NEW t \in Gammas
      PROVE  /\ StepToward(gamma, t, Feasible[batch]) \in Feasible[batch]
             /\ Short(StepToward(gamma, t, Feasible[batch]), gamma)
  BY <1>1, StepIsFeasible, StepIsShort
<1>4. Short(gamma, gamma)
  BY <1>1, CandidateFacts, CandidateAssumption DEF Short, Distance
<1>. QED  BY <1>1, <1>2, <1>3, <1>4

\* Every branch ends in Return with a well-typed bucket and a feasible width that
\* is at most a step away.
LEMMA ReturnDecides ==
  ASSUME NEW batch \in Batches, BucketsType, NEW B \in BucketType,
         NEW g \in Feasible[batch], Short(g, gamma), Return(batch, B, g)
  PROVE  Decided(batch)
BY FeasibleFacts DEF Return, Decided, BucketsType

\* A width that no candidate set contains is replaced by the widest that fits.
LEMMA ForceDecides ==
  ASSUME NEW batch \in Batches, BucketsType, active \in Keys \cup {None},
         gamma \notin Feasible[batch],
         ForceWidth(Max(Feasible[batch]), batch)
  PROVE  Decided(batch)
<1>1. Feasible[batch] \in SUBSET (0 .. MaxGamma) /\ Feasible[batch] # {}
  BY FeasibleFacts, CandidateFacts
<1>2. Max(Feasible[batch]) \in Feasible[batch]
  BY <1>1, MaxOfNats, CandidateAssumption
<1>3. PICK B \in Opened(Bucket(batch)) :
        buckets' = [buckets EXCEPT ![Bucket(batch)] = B]
  BY DEF ForceWidth
<1>4. B \in BucketType
  BY OpenedType, FeasibleFacts
<1>. QED  BY <1>2, <1>3, <1>4, FeasibleFacts DEF ForceWidth, Decided, BucketsType

\* The branches that move or stay and only count frames.
LEMMA MoveOrWaitDecides ==
  ASSUME NEW batch, NEW B, Serving(batch, B), NEW target \in Gammas,
         MoveOrWait(batch, B, Feasible[batch], target)
  PROVE  Decided(batch)
<1>. DEFINE g == StepToward(gamma, target, Feasible[batch])
<1>1. g \in Feasible[batch] /\ g \in Gammas /\ Short(g, gamma)
  BY ServingFacts
<1>. HIDE DEF g
<1>2. (IF g = gamma THEN Counted(B) ELSE Activated(B, g)) \in BucketType
  BY <1>1, ActivatedType, CountedType DEF Serving
<1>3. Return(batch, IF g = gamma THEN Counted(B) ELSE Activated(B, g), g)
  BY DEF MoveOrWait, g
<1>. QED  BY <1>1, <1>2, <1>3, ReturnDecides DEF Serving

\* The branches that stay and count one more frame.
LEMMA ResidesDecides ==
  ASSUME NEW batch, NEW B, Serving(batch, B), Resides(batch, B)
  PROVE  Decided(batch)
BY CountedType, ReturnDecides, ServingFacts DEF Serving, Resides

\* The branches that travel and note where they are bound.
LEMMA TravelType ==
  ASSUME NEW B \in BucketType, NEW g \in Gammas, NEW t \in Gammas \cup {None}
  PROVE  /\ [Activated(B, g) EXCEPT !.boot = t] \in BucketType
         /\ [Activated(B, g) EXCEPT !.wtarget = t] \in BucketType
         /\ [Activated(B, g) EXCEPT !.launched = @ \cup {g}] \in BucketType
         /\ [Activated(B, g) EXCEPT !.sched = ControlInterval] \in BucketType
         /\ \A r \in BOOLEAN : [Activated(B, g) EXCEPT !.returned = r] \in BucketType
<1>. DEFINE A == Activated(B, g)
<1>1. A \in BucketType
  BY ActivatedType
<1>. HIDE DEF A
<1>2. ControlInterval \in 0 .. SchedBound
  BY BoundFacts, WindowAssumption
<1>3. /\ [A EXCEPT !.boot = t] \in BucketType
      /\ [A EXCEPT !.wtarget = t] \in BucketType
      /\ [A EXCEPT !.launched = @ \cup {g}] \in BucketType
      /\ [A EXCEPT !.sched = ControlInterval] \in BucketType
      /\ \A r \in BOOLEAN : [A EXCEPT !.returned = r] \in BucketType
  BY <1>1, <1>2, ZenonT(60) DEF BucketType
<1>. QED  BY <1>3 DEF A

\* A width that a bucket records as a destination keeps its type.
LEMMA DestinationFacts ==
  ASSUME NEW B \in BucketType, NEW g \in Gammas
  PROVE  /\ Activated(B, g).boot = B.boot /\ B.boot \in Gammas \cup {None}
         /\ Activated(B, g).wtarget = B.wtarget /\ B.wtarget \in Gammas \cup {None}
BY DEF Activated, BucketType

\* A changed bucket resumes a measured width (online_ucb_bucket_resume).
LEMMA ResumeDecides ==
  ASSUME NEW batch, NEW B, Serving(batch, B),
         NEW target \in ResumeTargets(B, Feasible[batch]),
         Resume(batch, B, Feasible[batch], target)
  PROVE  Decided(batch)
<1>. DEFINE g == StepToward(gamma, target, Feasible[batch])
<1>1. target \in Gammas
  BY ServingFacts DEF ResumeTargets, MeasuredArms
<1>2. g \in Feasible[batch] /\ g \in Gammas /\ Short(g, gamma)
  BY <1>1, ServingFacts
<1>. HIDE DEF g
<1>. DEFINE t == IF g = target THEN None ELSE target
<1>3. t \in Gammas \cup {None}
  BY <1>1
<1>4. Return(batch, [Activated(B, g) EXCEPT !.boot = t], g)
  BY DEF Resume, g
<1>. HIDE DEF t
<1>. QED  BY <1>2, <1>3, <1>4, TravelType, ReturnDecides DEF Serving

\* The burn-in at the middle of a wide range that includes 0.
LEMMA SafeBurnInDecides ==
  ASSUME NEW batch, NEW B, Serving(batch, B), SafeBurnIn(batch, B, Feasible[batch])
  PROVE  Decided(batch)
<1>. DEFINE g == StepToward(gamma, Nearest[Feasible[batch]][Anchor], Feasible[batch])
<1>1. g \in Feasible[batch] /\ g \in Gammas /\ Short(g, gamma)
  BY ServingFacts
<1>. HIDE DEF g
<1>2. Return(batch, [Activated(B, g) EXCEPT !.launched = @ \cup {g}], g)
  BY DEF SafeBurnIn, g
<1>3. None \in Gammas \cup {None}
  OBVIOUS
<1>. QED  BY <1>1, <1>2, <1>3, TravelType, ReturnDecides DEF Serving

\* The trip to the width a bucket was seeded with.
LEMMA TransferDecides ==
  ASSUME NEW batch, NEW B, Serving(batch, B), Travels(B.boot, Feasible[batch]),
         Transfer(batch, B, Feasible[batch])
  PROVE  Decided(batch)
<1>. DEFINE target == Nearest[Feasible[batch]][B.boot]
            g == StepToward(gamma, target, Feasible[batch])
<1>1. B.boot \in 0 .. MaxGamma
  BY CandidateFacts DEF Travels, Serving, BucketType
<1>2. target \in Gammas
  BY <1>1, ServingFacts
<1>3. g \in Feasible[batch] /\ g \in Gammas /\ Short(g, gamma)
  BY <1>2, ServingFacts
<1>. DEFINE t == IF g = target THEN None ELSE Activated(B, g).boot
<1>4. Return(batch, [Activated(B, g) EXCEPT !.boot = t], g)
  BY DEF Transfer
<1>. HIDE DEF g, target
<1>5. t \in Gammas \cup {None}
  BY <1>3, DestinationFacts DEF Serving
<1>. HIDE DEF t
<1>. QED  BY <1>3, <1>4, <1>5, TravelType, ReturnDecides DEF Serving

\* The trip to the next arm of the cold-start sweep.
LEMMA WarmupStepDecides ==
  ASSUME NEW batch, NEW B, Serving(batch, B), Travels(B.wtarget, Feasible[batch]),
         WarmupStep(batch, B, Feasible[batch])
  PROVE  Decided(batch)
<1>. DEFINE target == Nearest[Feasible[batch]][B.wtarget]
            g == StepToward(gamma, target, Feasible[batch])
<1>1. B.wtarget \in 0 .. MaxGamma
  BY CandidateFacts DEF Travels, Serving, BucketType
<1>2. target \in Gammas
  BY <1>1, ServingFacts
<1>3. g \in Feasible[batch] /\ g \in Gammas /\ Short(g, gamma)
  BY <1>2, ServingFacts
<1>. DEFINE t == IF g = target THEN None ELSE Activated(B, g).wtarget
<1>4. Return(batch, [Activated(B, g) EXCEPT !.wtarget = t], g)
  BY DEF WarmupStep
<1>. HIDE DEF g, target
<1>5. t \in Gammas \cup {None}
  BY <1>3, DestinationFacts DEF Serving
<1>. HIDE DEF t
<1>. QED  BY <1>3, <1>4, <1>5, TravelType, ReturnDecides DEF Serving

\* The choice of the next arm of the sweep.
LEMMA WarmupDecides ==
  ASSUME NEW batch, NEW B, Serving(batch, B),
         NEW targets \in SUBSET Feasible[batch], targets # {},
         Warmup(batch, B, Feasible[batch], targets)
  PROVE  Decided(batch)
<1>. DEFINE target == Nearest[targets][gamma]
            g == StepToward(gamma, target, Feasible[batch])
<1>1. targets \in (SUBSET Gammas) \ {{}} /\ gamma \in 0 .. MaxGamma
  BY ServingFacts, CandidateFacts
<1>2. target \in Gammas
  BY <1>1, NearestMember
<1>3. g \in Feasible[batch] /\ g \in Gammas /\ Short(g, gamma)
  BY <1>2, ServingFacts
<1>. DEFINE t == IF g = target THEN Activated(B, g).wtarget ELSE target
<1>4. Return(batch, [Activated(B, g) EXCEPT !.wtarget = t], g)
  BY DEF Warmup
<1>. HIDE DEF g, target
<1>5. t \in Gammas \cup {None}
  BY <1>2, <1>3, DestinationFacts DEF Serving
<1>. HIDE DEF t
<1>. QED  BY <1>3, <1>4, <1>5, TravelType, ReturnDecides DEF Serving

\* The return to the anchor before its rewards are refreshed.
LEMMA ReturnToAnchorDecides ==
  ASSUME NEW batch, NEW B, Serving(batch, B), ReturnToAnchor(batch, B, Feasible[batch])
  PROVE  Decided(batch)
<1>. DEFINE g == StepToward(gamma, Nearest[Feasible[batch]][Anchor], Feasible[batch])
<1>1. g \in Feasible[batch] /\ g \in Gammas /\ Short(g, gamma)
  BY ServingFacts
<1>2. Return(batch, Activated(B, g), g)
  BY DEF ReturnToAnchor
<1>. HIDE DEF g
<1>. QED  BY <1>1, <1>2, ActivatedType, ReturnDecides DEF Serving

\* The stay at the anchor when no probe promises a gain.
LEMMA HoldModelDecides ==
  ASSUME NEW batch, NEW B, Serving(batch, B), HoldModel(batch, B)
  PROVE  Decided(batch)
<1>1. ASSUME NEW r \in BOOLEAN PROVE [B EXCEPT !.returned = r] \in BucketType
  BY DEF Serving, BucketType
<1>2. [B EXCEPT !.returned = TRUE] \in BucketType
  BY <1>1, Zenon
<1>3. Activated([B EXCEPT !.returned = TRUE], gamma) \in BucketType
  BY <1>2, ActivatedType, ServingFacts
<1>. QED  BY <1>3, ReturnDecides, ServingFacts DEF HoldModel, Serving

\* The return to the best measured arm between two probes.
LEMMA FrontierReturnDecides ==
  ASSUME NEW batch, NEW B, Serving(batch, B), NEW best \in Feasible[batch],
         FrontierReturn(batch, B, Feasible[batch], best)
  PROVE  Decided(batch)
<1>. DEFINE g == StepToward(gamma, best, Feasible[batch])
<1>1. g \in Feasible[batch] /\ g \in Gammas /\ Short(g, gamma)
  BY ServingFacts
<1>2. Return(batch, [Activated(B, g) EXCEPT !.sched = ControlInterval], g)
  BY DEF FrontierReturn
<1>. HIDE DEF g
<1>3. None \in Gammas \cup {None}
  OBVIOUS
<1>. QED  BY <1>1, <1>2, <1>3, TravelType, ReturnDecides DEF Serving

\* The bookkeeping of the frontier keeps a bucket well typed.
LEMMA FrontierType ==
  ASSUME NEW B \in BucketType, NEW anchor \in Gammas
  PROVE  /\ [B EXCEPT !.reval = <<>>] \in BucketType
         /\ [B EXCEPT !.deferred = FALSE] \in BucketType
         /\ [B EXCEPT !.deferred = TRUE] \in BucketType
         /\ [B EXCEPT !.deferred = TRUE, !.reval = <<anchor, 0>>] \in BucketType
<1>1. ASSUME NEW d \in BOOLEAN, NEW C \in BucketType
      PROVE  [C EXCEPT !.deferred = d] \in BucketType
  BY DEF BucketType
<1>2. ASSUME NEW v \in {<<>>} \cup (Gammas \X (0 .. Window)), NEW C \in BucketType
      PROVE  [C EXCEPT !.reval = v] \in BucketType
  BY DEF BucketType
<1>3. <<anchor, 0>> \in Gammas \X (0 .. Window)
  BY WindowAssumption
<1>4. [B EXCEPT !.deferred = TRUE, !.reval = <<anchor, 0>>]
        = [[B EXCEPT !.deferred = TRUE] EXCEPT !.reval = <<anchor, 0>>]
  OBVIOUS
<1>5. TRUE \in BOOLEAN /\ FALSE \in BOOLEAN
  OBVIOUS
<1>6. [B EXCEPT !.deferred = FALSE] \in BucketType /\ [B EXCEPT !.deferred = TRUE] \in BucketType
  BY <1>1, <1>5, Zenon
<1>7. [B EXCEPT !.reval = <<>>] \in BucketType
  BY <1>2
<1>8. [[B EXCEPT !.deferred = TRUE] EXCEPT !.reval = <<anchor, 0>>] \in BucketType
  BY <1>2, <1>3, <1>6
<1>. QED  BY <1>4, <1>6, <1>7, <1>8

\* The whole frontier: revalidation, return, probe or hold.
LEMMA FrontierDecides ==
  ASSUME NEW batch, NEW B, Serving(batch, B), Frontier(batch, B, Feasible[batch])
  PROVE  Decided(batch)
<1>. DEFINE F == Feasible[batch]
<1>. PICK anchor \in {Nearest[F][Anchor]}, C \in {[B EXCEPT !.reval = <<>>]} :
       FrontierFrom(batch, B, C, F, anchor)
  BY DEF Frontier
<1>1. anchor \in Gammas
  BY ServingFacts
<1>2. Serving(batch, C)
  BY FrontierType, <1>1 DEF Serving
<1>3. PICK best \in MeasuredArms(B, F), short \in Revalidates(B, anchor) :
        IF B.reval # <<>> /\ gamma # anchor THEN ReturnToAnchor(batch, B, F)
        ELSE IF short THEN Resides(batch, B)
        ELSE IF Ready(C, gamma) /\ gamma # best THEN FrontierReturn(batch, C, F, best)
        ELSE \E supported \in SUBSET Supportable(C, F) :
               IF supported # {}
               THEN Warmup(batch, [C EXCEPT !.deferred = FALSE], F, supported)
               ELSE IF gamma # anchor
               THEN ReturnToAnchor(batch, [C EXCEPT !.deferred = TRUE,
                                                    !.reval = <<anchor, 0>>], F)
               ELSE HoldModel(batch, [C EXCEPT !.deferred = TRUE])
  BY DEF FrontierFrom
<1>4. best \in F
  BY DEF MeasuredArms
<1>5. Supportable(C, F) \subseteq F
  BY DEF Supportable, Unlaunched
<1>6. /\ Serving(batch, [C EXCEPT !.deferred = FALSE])
      /\ Serving(batch, [C EXCEPT !.deferred = TRUE])
      /\ Serving(batch, [C EXCEPT !.deferred = TRUE, !.reval = <<anchor, 0>>])
  BY FrontierType, <1>1, <1>2 DEF Serving
<1>7. CASE B.reval # <<>> /\ gamma # anchor
  BY <1>3, <1>7, ReturnToAnchorDecides
<1>8. CASE ~(B.reval # <<>> /\ gamma # anchor) /\ short
  BY <1>3, <1>8, ResidesDecides
<1>9. CASE ~(B.reval # <<>> /\ gamma # anchor) /\ ~short /\ Ready(C, gamma) /\ gamma # best
  BY <1>2, <1>3, <1>4, <1>9, FrontierReturnDecides
<1>10. CASE ~(B.reval # <<>> /\ gamma # anchor) /\ ~short /\ ~(Ready(C, gamma) /\ gamma # best)
  <2>1. PICK supported \in SUBSET Supportable(C, F) :
          IF supported # {}
          THEN Warmup(batch, [C EXCEPT !.deferred = FALSE], F, supported)
          ELSE IF gamma # anchor
          THEN ReturnToAnchor(batch, [C EXCEPT !.deferred = TRUE,
                                               !.reval = <<anchor, 0>>], F)
          ELSE HoldModel(batch, [C EXCEPT !.deferred = TRUE])
    BY <1>3, <1>10
  <2>2. CASE supported # {}
    BY <1>5, <1>6, <2>1, <2>2, WarmupDecides
  <2>3. CASE supported = {} /\ gamma # anchor
    BY <1>6, <2>1, <2>3, ReturnToAnchorDecides
  <2>4. CASE supported = {} /\ gamma = anchor
    BY <1>6, <2>1, <2>4, HoldModelDecides
  <2>. QED  BY <2>2, <2>3, <2>4
<1>. QED  BY <1>7, <1>8, <1>9, <1>10

\* The return to the best arm after the sweep.
LEMMA WarmupReturnDecides ==
  ASSUME NEW batch, NEW B, Serving(batch, B), NEW incumbent \in Feasible[batch],
         WarmupReturn(batch, B, Feasible[batch], incumbent)
  PROVE  Decided(batch)
<1>. DEFINE g == StepToward(gamma, incumbent, Feasible[batch])
<1>1. g \in Feasible[batch] /\ g \in Gammas /\ Short(g, gamma)
  BY ServingFacts
<1>2. Return(batch, [Activated(B, g) EXCEPT !.returned = (g = incumbent)], g)
  BY DEF WarmupReturn
<1>. HIDE DEF g
<1>3. None \in Gammas \cup {None} /\ (g = incumbent) \in BOOLEAN
  OBVIOUS
<1>4. \A r \in BOOLEAN : [Activated(B, g) EXCEPT !.returned = r] \in BucketType
  BY <1>1, <1>3, TravelType DEF Serving
<1>5. [Activated(B, g) EXCEPT !.returned = (g = incumbent)] \in BucketType
  BY <1>3, <1>4, Zenon
<1>. QED  BY <1>1, <1>2, <1>5, ReturnDecides DEF Serving

\* The steady state: stay, keep, or step towards the best score.
LEMMA UcbDecides ==
  ASSUME NEW batch, NEW B, Serving(batch, B), Ucb(batch, B, Feasible[batch])
  PROVE  Decided(batch)
<1>1. CASE Resides(batch, B)
  BY <1>1, ResidesDecides
<1>2. CASE Return(batch, Activated(B, gamma), gamma)
  BY <1>2, ActivatedType, ServingFacts, ReturnDecides DEF Serving
<1>3. ASSUME NEW best \in Feasible[batch],
             Return(batch, Activated(B, StepToward(gamma, best, Feasible[batch])),
                    StepToward(gamma, best, Feasible[batch]))
      PROVE  Decided(batch)
  <2>. DEFINE g == StepToward(gamma, best, Feasible[batch])
  <2>1. g \in Feasible[batch] /\ g \in Gammas /\ Short(g, gamma)
    BY ServingFacts
  <2>2. Return(batch, Activated(B, g), g)
    BY <1>3
  <2>. HIDE DEF g
  <2>. QED  BY <2>1, <2>2, ActivatedType, ReturnDecides DEF Serving
<1>. QED  BY <1>1, <1>2, <1>3 DEF Ucb

\* The middle of the feasible widths is a width of the range.
LEMMA MiddleFeasible ==
  ASSUME NEW F \in (SUBSET Gammas) \ {{}}
  PROVE  Nearest[F][RoundedMiddle(F)] \in F
<1>. DEFINE low == Min(F)
            high == Max(F)
<1>1. F \in SUBSET (0 .. MaxGamma) /\ F # {} /\ F \in SUBSET Nat
  BY CandidateFacts
<1>2. low \in F /\ high \in F /\ low <= high
  BY <1>1, MinOfNats, MaxOfNats, CandidateAssumption
<1>3. low \in 0 .. MaxGamma /\ high \in 0 .. MaxGamma
  BY <1>1, <1>2
<1>4. RoundedMiddle(F) = IF (low + high) % 2 = 0 \/ ((low + high) \div 2) % 2 = 0
                         THEN (low + high) \div 2 ELSE (low + high) \div 2 + 1
  BY DEF RoundedMiddle
<1>. HIDE DEF low, high
<1>5. RoundedMiddle(F) \in 0 .. MaxGamma
  BY <1>2, <1>3, <1>4, CandidateAssumption
<1>. QED  BY <1>5, NearestMember

\* Every feasible arm is launched: wait, return, then UCB.
LEMMA SteadyDecides ==
  ASSUME NEW batch, NEW B, Serving(batch, B), Steady(batch, B, Feasible[batch])
  PROVE  Decided(batch)
<1>. DEFINE F == Feasible[batch]
<1>1. Nearest[F][RoundedMiddle(F)] \in Gammas
  BY MiddleFeasible, ServingFacts
<1>2. ASSUME NEW r \in BOOLEAN PROVE Serving(batch, [B EXCEPT !.returned = r])
  BY DEF Serving, BucketType
<1>3. Serving(batch, [B EXCEPT !.returned = TRUE])
  BY <1>2, Zenon
<1>4. Incumbents(B, F) \subseteq F
  BY ServingFacts, CandidateFacts, NearestMember DEF Incumbents
<1>5. CASE Awaited(B, F) # {}
  BY <1>1, <1>5, MoveOrWaitDecides DEF Steady
<1>6. CASE Awaited(B, F) = {} /\ B.returned
  BY <1>6, UcbDecides DEF Steady
<1>7. CASE Awaited(B, F) = {} /\ ~B.returned
  BY <1>3, <1>4, <1>7, WarmupReturnDecides, UcbDecides DEF Steady
<1>. QED  BY <1>5, <1>6, <1>7

\* The window at the current width is over.
LEMMA DecideDecides ==
  ASSUME NEW batch, NEW B, Serving(batch, B), Decide(batch, B, Feasible[batch])
  PROVE  Decided(batch)
<1>. DEFINE F == Feasible[batch]
<1>1. CASE Unlaunched(B, F) = {} /\ Steady(batch, B, F)
  BY <1>1, SteadyDecides
<1>2. CASE Frontier(batch, B, F)
  BY <1>2, FrontierDecides
<1>3. CASE Unlaunched(B, F) # {} /\ Warmup(batch, B, F, Unlaunched(B, F))
  BY <1>3, WarmupDecides DEF Unlaunched
<1>4. ASSUME NEW target \in F, MoveOrWait(batch, B, F, target)
      PROVE  Decided(batch)
  BY <1>4, MoveOrWaitDecides, ServingFacts
<1>5. Nearest[F][Anchor] \in F /\ ProbeTargets(B, F) \subseteq F
  BY ServingFacts DEF ProbeTargets
<1>. QED  BY <1>1, <1>2, <1>3, <1>4, <1>5 DEF Decide

\* The branches of choose after a changed bucket has resumed.
LEMMA ContinueDecides ==
  ASSUME NEW batch, NEW B, Serving(batch, B), Continue(batch, B, Feasible[batch])
  PROVE  Decided(batch)
<1>. DEFINE F == Feasible[batch]
<1>1. CASE SafeBurnIn(batch, B, F)
  BY <1>1, SafeBurnInDecides
<1>2. CASE Travels(B.boot, F) /\ Transfer(batch, B, F)
  BY <1>2, TransferDecides
<1>3. CASE Travels(B.wtarget, F) /\ WarmupStep(batch, [B EXCEPT !.boot = None], F)
  <2>. DEFINE C == [B EXCEPT !.boot = None]
  <2>1. Serving(batch, C) /\ C.wtarget = B.wtarget
    BY DEF Serving, BucketType
  <2>. QED  BY <1>3, <2>1, WarmupStepDecides
<1>4. /\ Serving(batch, Settled(B)) /\ Serving(batch, Launched(Settled(B)))
  BY SettledType, ServingFacts DEF Serving
<1>5. CASE Resides(batch, Settled(B))
  BY <1>4, <1>5, ResidesDecides
<1>6. CASE Decide(batch, Launched(Settled(B)), F)
  BY <1>4, <1>6, DecideDecides
<1>. QED  BY <1>1, <1>2, <1>3, <1>5, <1>6 DEF Continue

\* Whatever branch choose takes, the decision fits the batch.
LEMMA ChooseDecides ==
  ASSUME NEW batch \in Batches, BucketsType, active \in Keys \cup {None}, Choose(batch)
  PROVE  Decided(batch)
<1>. DEFINE F == Feasible[batch]
<1>1. CASE gamma \notin F
  BY <1>1, ForceDecides DEF Choose
<1>2. CASE gamma \in F
  <2>1. PICK B \in Opened(Bucket(batch)) :
          IF active \notin {None, Bucket(batch)} /\ HasInitial
          THEN \E target \in ResumeTargets(B, F) :
                 IF gamma # target THEN Resume(batch, B, F, target)
                 ELSE Continue(batch, B, F)
          ELSE Continue(batch, B, F)
    BY <1>2 DEF Choose
  <2>2. Serving(batch, B)
    BY <1>2, OpenedType, FeasibleFacts DEF Serving
  <2>. QED  BY <2>1, <2>2, ResumeDecides, ContinueDecides
<1>. QED  BY <1>1, <1>2

-----------------------------------------------------------------------------
(* The two invariants.                                                      *)

\* A decision is feasible only for a well-typed controller, the frames in flight
\* were decided earlier, and a held width was decided for the batch it is held
\* from: the invariants are inductive together.
FitInv ==
  /\ TypeOK /\ FramesFit
  /\ asked # 0 => gamma \in Feasible[asked]
  /\ last.batch # 0 => asked # 0

\* The width a new scheduler has is a candidate.
LEMMA NativeCandidate == NativeGamma \in Gammas
<1>1. CASE HasInitial
  BY <1>1, AnchorCandidate DEF NativeGamma, Anchor
<1>2. CASE ~HasInitial
  <2>1. MaxGamma \in MinGamma .. MaxGamma /\ (MaxGamma - MinGamma) % Stride = 0
    BY CandidateAssumption DEF Stride
  <2>. QED  BY <1>2, <2>1 DEF NativeGamma, Gammas
<1>. QED  BY <1>1, <1>2

\* A width that fits a batch fits every smaller one.
LEMMA SmallerBatchFits ==
  ASSUME NEW a \in Batches, NEW b \in Batches, b <= a
  PROVE  Feasible[a] \subseteq Feasible[b]
<1>. SUFFICES ASSUME NEW g \in Feasible[a] PROVE g \in Feasible[b]
  OBVIOUS
<1>1. /\ a \in Nat /\ b \in Nat /\ Budget \in Nat
      /\ Feasible[a] = {h \in Gammas : a <= BatchLimit(h) /\ a * (h + 1) <= Budget}
      /\ Feasible[b] = {h \in Gammas : b <= BatchLimit(h) /\ b * (h + 1) <= Budget}
  BY BatchAssumption DEF Feasible
<1>2. g \in Gammas /\ g \in Nat /\ a <= BatchLimit(g) /\ a * (g + 1) <= Budget
  BY <1>1, CandidateFacts
<1>3. BatchLimit(g) \in Int
  <2>1. MaxNumSeqs \in Nat /\ MaxGamma \in Nat /\ 0 .. MaxGamma \subseteq Int
    BY CandidateAssumption, BatchAssumption
  <2>2. Max({1, Min({MaxGamma, 5}) - 1}) \in 1 .. 4
    BY <2>1, MinOfTwo, MaxOfTwo
  <2>. DEFINE floor == Max({1, Min({MaxGamma, 5}) - 1})
  <2>3. BatchLimit(g) = IF Method # "eagle3" \/ g = 0 \/ g >= floor THEN MaxNumSeqs
                        ELSE Max({1, MaxNumSeqs \div 2 ^ (floor - g)})
    BY DEF BatchLimit
  <2>. HIDE DEF floor
  <2>4. CASE g # 0 /\ ~(g >= floor)
    <3>1. floor - g \in {1, 2, 3}
      BY <1>2, <2>2, <2>4 DEF floor
    <3>2. 2 ^ (floor - g) \in {2, 4, 8}
      <4>1. 2 ^ 1 = 2 /\ 2 ^ 2 = 4 /\ 2 ^ 3 = 8
        OBVIOUS
      <4>. QED  BY <3>1, <4>1
    <3>3. MaxNumSeqs \div 2 ^ (floor - g) \in Int
      BY <2>1, <3>2
    <3>. HIDE DEF floor
    <3>4. Max({1, MaxNumSeqs \div 2 ^ (floor - g)}) \in Int
      BY <3>3, MaxOfTwo
    <3>. QED  BY <2>1, <2>3, <3>4
  <2>. QED  BY <2>1, <2>3, <2>4
<1>4. b <= BatchLimit(g)
  BY <1>1, <1>2, <1>3
<1>5. b * (g + 1) <= a * (g + 1)
  BY <1>1, <1>2
<1>6. b * (g + 1) \in Nat /\ a * (g + 1) \in Nat
  BY <1>1, <1>2
<1>7. b * (g + 1) <= Budget
  BY <1>1, <1>2, <1>5, <1>6
<1>. QED  BY <1>1, <1>2, <1>4, <1>7

\* A new scheduler satisfies the invariants.
LEMMA InitFits == Init => FitInv
<1>. SUFFICES ASSUME Init PROVE FitInv
  OBVIOUS
<1>1. gamma \in Gammas
  BY AnchorCandidate, CandidateFacts DEF Init, CtlInit
<1>2. burn \in 0 .. WarmupSamples /\ active \in Keys \cup {None}
  BY WindowAssumption DEF Init, CtlInit
<1>3. stamped \in BOOLEAN
  BY Zenon DEF Init, CtlInit
<1>4. buckets \in [Keys -> BucketType \cup {Absent}]
  BY DEF Init, CtlInit
<1>5. pipe \in Seq(Frames) /\ Len(pipe) <= MaxInflight /\ FramesFit
  BY DEF Init, MaxInflight, FramesFit
<1>6. /\ last \in [batch : Batches \cup {0}, slots : Gammas]
      /\ last.batch = 0 /\ asked = 0 /\ hold \in Holds
  BY NativeCandidate DEF Init
<1>. QED  BY <1>1, <1>2, <1>3, <1>4, <1>5, <1>6 DEF FitInv, TypeOK

\* A frame whose width was decided for its batch, or is held, keeps the invariants.
LEMMA DispatchFits ==
  ASSUME FitInv, NEW batch \in Batches, NEW new \in BOOLEAN, NEW rows,
         NEW gs \in Gammas, Dispatch(batch, new, rows, gs), Len(pipe) < MaxInflight,
         hold' = hold, gamma' \in Gammas, asked' \in Batches, gamma' \in Feasible[asked'],
         gamma' \in Feasible[batch] \/ (hold # "off" /\ batch > asked')
  PROVE  /\ pipe' \in Seq(Frames) /\ Len(pipe') <= MaxInflight
         /\ FramesFit'
         /\ last' \in [batch : Batches \cup {0}, slots : Gammas]
         /\ asked' # 0 /\ last'.batch = batch
<1>. DEFINE f == [gamma |-> gamma', batch |-> batch, decided |-> asked',
                  stable |-> ~new /\ rows = {gamma'}]
<1>1. (~new /\ rows = {gamma'}) \in BOOLEAN
  OBVIOUS
<1>2. f \in Frames /\ f.gamma = gamma' /\ f.batch = batch /\ f.decided = asked'
  BY <1>1 DEF Frames
<1>3. pipe' = Append(pipe, f) /\ pipe \in Seq(Frames) /\ MaxInflight \in Nat
  BY DEF Dispatch, FitInv, TypeOK, MaxInflight
<1>. HIDE DEF f
<1>4. pipe' \in Seq(Frames) /\ Len(pipe') <= MaxInflight
  BY <1>2, <1>3
<1>5. FramesFit'
  BY <1>2, <1>3 DEF FramesFit, FitInv
<1>6. NextSlots(gs, gamma') \in Gammas
  BY DEF NextSlots
<1>7. last' \in [batch : Batches \cup {0}, slots : Gammas] /\ last'.batch = batch
  BY <1>6 DEF Dispatch
<1>8. asked' # 0
  BY BatchAssumption
<1>. QED  BY <1>4, <1>5, <1>7, <1>8

\* What a decision leaves of the controller.
LEMMA DecidedFacts ==
  ASSUME FitInv, NEW batch \in Batches, Choose(batch)
  PROVE  /\ Decided(batch) /\ gamma' \in Gammas /\ gamma' \in Feasible[batch]
         /\ active' \in Keys \cup {None} /\ burn' \in 0 .. WarmupSamples
         /\ stamped' \in BOOLEAN /\ buckets' \in [Keys -> BucketType \cup {Absent}]
<1>1. Decided(batch)
  BY ChooseDecides DEF FitInv, TypeOK, BucketsType
<1>. QED  BY <1>1, FeasibleFacts DEF Decided, BucketsType, FitInv, TypeOK

\* A decision before the host schedules keeps the invariants: the batch that enters
\* is no larger than the one decided for.
LEMMA PreselectedFits ==
  ASSUME FitInv, NEW anticipated \in Batches, SchedulePreselected(anticipated)
  PROVE  FitInv'
<1>1. /\ Choose(anticipated) /\ asked' = anticipated /\ hold' = hold
      /\ Len(pipe) < MaxInflight
  BY DEF SchedulePreselected
<1>2. /\ gamma' \in Gammas /\ gamma' \in Feasible[anticipated]
      /\ active' \in Keys \cup {None} /\ burn' \in 0 .. WarmupSamples
      /\ stamped' \in BOOLEAN /\ buckets' \in [Keys -> BucketType \cup {Absent}]
  BY <1>1, DecidedFacts
<1>3. /\ pipe' \in Seq(Frames) /\ Len(pipe') <= MaxInflight /\ FramesFit'
      /\ last' \in [batch : Batches \cup {0}, slots : Gammas] /\ asked' # 0
  <2>1. CASE \E batch \in Batches, new \in BOOLEAN :
               batch <= anticipated /\ Dispatch(batch, new, {0}, gamma')
    <3>1. PICK batch \in Batches, new \in BOOLEAN :
            batch <= anticipated /\ Dispatch(batch, new, {0}, gamma')
      BY <2>1
    <3>2. gamma' \in Feasible[batch]
      BY <1>2, <3>1, SmallerBatchFits
    <3>. QED  BY <1>1, <1>2, <3>1, <3>2, DispatchFits
  <2>2. CASE UNCHANGED pipe /\ last' = [last EXCEPT !.batch = 0]
    BY <1>1, <2>2, BatchAssumption DEF FitInv, TypeOK, FramesFit
  <2>. QED  BY <2>1, <2>2 DEF SchedulePreselected
<1>4. hold' \in Holds
  BY <1>1 DEF FitInv, TypeOK
<1>. QED  BY <1>1, <1>2, <1>3, <1>4 DEF FitInv, TypeOK

\* A held width keeps the invariants: it still fits the batch it was decided for.
LEMMA HeldFits ==
  ASSUME FitInv, NEW batch \in Batches, NEW joins \in BOOLEAN, NEW new \in BOOLEAN,
         ScheduleHeld(batch, joins, new)
  PROVE  FitInv'
<1>1. /\ gamma \in Gammas /\ asked \in Batches /\ gamma \in Feasible[asked]
      /\ hold # "off" /\ hold' = hold /\ asked' = asked /\ Len(pipe) < MaxInflight
      /\ hold \in Holds /\ BucketsType
  BY DEF ScheduleHeld, DispatchRunning, FitInv, TypeOK, BucketsType
<1>2. /\ gamma' = gamma /\ active' = active /\ burn' = burn /\ stamped' = stamped
      /\ buckets' \in [Keys -> BucketType \cup {Absent}]
  <2>1. CASE UNCHANGED ctlVars
    BY <2>1 DEF ctlVars, FitInv, TypeOK
  <2>2. CASE ForceWidth(gamma, batch)
    <3>1. PICK B \in Opened(Bucket(batch)) : buckets' = [buckets EXCEPT ![Bucket(batch)] = B]
      BY <2>2 DEF ForceWidth
    <3>2. B \in BucketType
      BY <1>1, FeasibleFacts, OpenedType
    <3>. QED  BY <1>1, <2>2, <3>1, <3>2, FeasibleFacts DEF ForceWidth, BucketsType
  <2>. QED  BY <2>1, <2>2 DEF ScheduleHeld
<1>3. gamma' \in Feasible[batch] \/ (hold # "off" /\ batch > asked')
  <2>1. CASE batch <= asked
    BY <1>1, <1>2, <2>1, SmallerBatchFits
  <2>2. CASE ~(batch <= asked)
    BY <1>1, <2>2, BatchAssumption
  <2>. QED  BY <2>1, <2>2
<1>4. PICK rows \in Verified(joins) : Dispatch(batch, new, rows, gamma)
  BY DEF ScheduleHeld, DispatchRunning
<1>5. /\ pipe' \in Seq(Frames) /\ Len(pipe') <= MaxInflight /\ FramesFit'
      /\ last' \in [batch : Batches \cup {0}, slots : Gammas] /\ asked' # 0
  BY <1>1, <1>2, <1>3, <1>4, DispatchFits
<1>. QED  BY <1>1, <1>2, <1>5 DEF FitInv, TypeOK

\* A decision for the batch the host scheduled keeps the invariants.
LEMMA ChosenFits ==
  ASSUME FitInv, NEW batch \in Batches, NEW joins \in BOOLEAN, NEW new \in BOOLEAN,
         ScheduleChosen(batch, joins, new)
  PROVE  FitInv'
<1>1. /\ Choose(batch) /\ asked' = batch /\ hold' = hold /\ Len(pipe) < MaxInflight
      /\ gamma \in Gammas /\ hold \in Holds
  BY DEF ScheduleChosen, FitInv, TypeOK
<1>2. /\ gamma' \in Gammas /\ gamma' \in Feasible[batch]
      /\ active' \in Keys \cup {None} /\ burn' \in 0 .. WarmupSamples
      /\ stamped' \in BOOLEAN /\ buckets' \in [Keys -> BucketType \cup {Absent}]
  BY <1>1, DecidedFacts
<1>3. PICK rows \in Verified(joins) : Dispatch(batch, new, rows, gamma)
  BY DEF ScheduleChosen, DispatchRunning
<1>4. /\ pipe' \in Seq(Frames) /\ Len(pipe') <= MaxInflight /\ FramesFit'
      /\ last' \in [batch : Batches \cup {0}, slots : Gammas] /\ asked' # 0
  BY <1>1, <1>2, <1>3, DispatchFits
<1>. QED  BY <1>1, <1>2, <1>4 DEF FitInv, TypeOK

\* adaptive_update_from_output keeps the invariants.
LEMMA FeedbackFits ==
  ASSUME FitInv, Feedback
  PROVE  FitInv'
<1>. DEFINE f == Head(pipe)
<1>1. /\ pipe \in Seq(Frames) /\ pipe # <<>> /\ pipe' = Tail(pipe)
      /\ last' = last /\ hold' = hold /\ asked' = asked
  BY DEF Feedback, FitInv, TypeOK
<1>2. f \in Frames
  BY <1>1
<1>. HIDE DEF f
<1>3. f.gamma \in Gammas /\ f.batch \in Batches
  BY <1>2 DEF Frames
<1>4. pipe' \in Seq(Frames) /\ Len(pipe') <= MaxInflight /\ FramesFit'
  BY <1>1 DEF FitInv, TypeOK, FramesFit, MaxInflight
<1>5. CASE CompleteStep(f.gamma, f.batch)
  <2>1. gamma' = gamma /\ active' = active /\ stamped' = TRUE /\ burn' \in 0 .. WarmupSamples
    BY <1>5, WindowAssumption DEF CompleteStep, FitInv, TypeOK
  <2>2. BucketsType /\ Bucket(f.batch) \in Keys
    BY <1>3, FeasibleFacts DEF FitInv, TypeOK, BucketsType
  <2>3. ASSUME NEW B \in Opened(Bucket(f.batch))
        PROVE  Recorded(B, f.gamma) \in BucketType
    BY <1>3, <2>2, OpenedType, RecordedType
  <2>4. buckets' \in [Keys -> BucketType \cup {Absent}]
    BY <1>5, <2>2, <2>3 DEF CompleteStep, BucketsType
  <2>. QED  BY <1>1, <1>4, <2>1, <2>4 DEF FitInv, TypeOK
<1>6. CASE DiscardStep
  BY <1>1, <1>4, <1>6 DEF DiscardStep, FitInv, TypeOK
<1>. QED  BY <1>5, <1>6 DEF Feedback, f

\* A step that changes nothing keeps the invariants.
LEMMA StutterFits ==
  ASSUME FitInv, UNCHANGED vars
  PROVE  FitInv'
BY DEF FitInv, TypeOK, FramesFit, vars, ctlVars

\* The state of the controller and of the pipe stays within its types, and every
\* frame in flight fits max_num_batched_tokens and its width's batch limit, unless
\* a held cohort has outgrown the batch its width was decided for.
THEOREM InvariantHolds == Spec => []FitInv
<1>1. FitInv /\ [Next]_vars => FitInv'
  BY PreselectedFits, HeldFits, ChosenFits, FeedbackFits, StutterFits DEF Next
<1>. QED  BY InitFits, <1>1, PTL DEF Spec

\* The values of OnlineGammaController and of the frames in flight keep their
\* types for every method, range of widths and set of batches.
THEOREM ControllerTyped == Spec => []TypeOK
<1>1. FitInv => TypeOK
  BY DEF FitInv
<1>. QED  BY <1>1, InvariantHolds, PTL

\* candidate_is_feasible holds of every frame for the batch choose decided it for,
\* and for its own unless the cohort hold kept the width as the batch grew,
\* whatever the bucket it was learned in and the order of the feedback.
THEOREM EveryFrameFits == Spec => []FramesFit
<1>1. FitInv => FramesFit
  BY DEF FitInv
<1>. QED  BY <1>1, InvariantHolds, PTL

\* max_gamma_step bounds the change of every decision whose batch still fits the
\* present width, whichever branch of choose takes it; a hold changes no width.
THEOREM StepsShort ==
  ASSUME StepsAligned
  PROVE  Spec => StepBounded
<1>. DEFINE Bounded == gamma' # gamma /\ gamma \in Feasible[asked']
                         => Distance(gamma', gamma) <= MaxStep
<1>1. ASSUME FitInv, NEW batch \in Batches, Choose(batch), asked' = batch
      PROVE  Bounded
  BY <1>1, DecidedFacts DEF Decided, Short
<1>2. ASSUME NEW batch \in Batches, NEW joins \in BOOLEAN, NEW new \in BOOLEAN,
             ScheduleHeld(batch, joins, new)
      PROVE  gamma' = gamma
  BY <1>2 DEF ScheduleHeld, ForceWidth, ctlVars
<1>3. Feedback => gamma' = gamma
  BY DEF Feedback, CompleteStep, DiscardStep
<1>4. FitInv /\ [Next]_vars => [Bounded]_vars
  BY <1>1, <1>2, <1>3 DEF Next, SchedulePreselected, ScheduleChosen
<1>. QED  BY <1>4, InvariantHolds, PTL DEF Spec, StepBounded

-----------------------------------------------------------------------------
(* Evidence: the widths on the way from the anchor to a launched arm.       *)

\* The anchor of a batch: the feasible width nearest to the controller's.
AnchorOf(b) == Nearest[Feasible[b]][Anchor]

\* Where the chain of evidence holds: choose decides for every frame of a running
\* engine, a frame always proposes drafts, and a batch that does not fit every width
\* forces the anchor of every batch.
EvidenceKept ==
  /\ Holds = {"off"} /\ MinGamma > 0
  /\ \A b, c \in Batches :
       Feasible[b] # Gammas => Max(Feasible[b]) = AnchorOf(c)

\* Widths from a to g.
Between(h, g, a) == (a <= h /\ h <= g) \/ (g <= h /\ h <= a)

\* What a target among the feasible widths is clipped to.
LEMMA ClippedIs ==
  ASSUME NEW F \in (SUBSET Gammas) \ {{}}, NEW current \in F, NEW target \in F
  PROVE  Clipped(current, target, F) =
           IF target >= current
           THEN IF target <= current + MaxStep THEN target ELSE current + MaxStep
           ELSE IF target >= current - MaxStep THEN target ELSE current - MaxStep
<1>. DEFINE floor == Min(F)
            ceiling == Max(F)
            lower == Max({floor, current - MaxStep})
            upper == Min({ceiling, current + MaxStep})
            high == Max({target, lower})
<1>1. /\ F \in SUBSET (0 .. MaxGamma) /\ F \in SUBSET Nat /\ F # {}
      /\ MaxGamma \in Nat /\ MaxStep \in Nat /\ target \in Nat /\ current \in Nat
  BY CandidateFacts, CandidateAssumption
<1>2. /\ floor \in Nat /\ ceiling \in Nat /\ floor <= current /\ current <= ceiling
      /\ floor <= target /\ target <= ceiling
  BY <1>1, MinOfNats, MaxOfNats
<1>3. Clipped(current, target, F) = Min({high, upper})
  BY DEF Clipped
<1>. HIDE DEF floor, ceiling
<1>4. lower = IF floor >= current - MaxStep THEN floor ELSE current - MaxStep
  BY <1>1, <1>2, MaxOfTwo
<1>5. upper = IF ceiling <= current + MaxStep THEN ceiling ELSE current + MaxStep
  BY <1>1, <1>2, MinOfTwo
<1>6. lower \in Nat /\ upper \in Nat
  BY <1>1, <1>2, <1>4, <1>5
<1>. HIDE DEF lower, upper
<1>7. high = IF target >= lower THEN target ELSE lower
  BY <1>1, <1>6, MaxOfTwo
<1>8. high \in Nat
  BY <1>1, <1>6, <1>7
<1>. HIDE DEF high
<1>9. Min({high, upper}) = IF high <= upper THEN high ELSE upper
  BY <1>6, <1>8, MinOfTwo
<1>. QED  BY <1>1, <1>2, <1>3, <1>4, <1>5, <1>7, <1>9

\* A step towards another feasible width moves, and not beyond it.
LEMMA StepMoves ==
  ASSUME Gapless, NEW batch \in Batches, NEW current \in Feasible[batch],
         NEW target \in Feasible[batch]
  PROVE  /\ Between(StepToward(current, target, Feasible[batch]), target, current)
         /\ StepToward(current, target, Feasible[batch]) = current => target = current
<1>. DEFINE F == Feasible[batch]
            x == Clipped(current, target, F)
            g == Nearest[F][x]
<1>1. /\ F \in (SUBSET Gammas) \ {{}} /\ F \subseteq 0 .. MaxGamma
      /\ current \in F /\ target \in F /\ current \in Nat /\ target \in Nat
      /\ MaxStep \in Nat \ {0} /\ MaxGamma \in Nat
  BY FeasibleFacts, CandidateFacts, CandidateAssumption
<1>2. x = IF target >= current
          THEN IF target <= current + MaxStep THEN target ELSE current + MaxStep
          ELSE IF target >= current - MaxStep THEN target ELSE current - MaxStep
  BY <1>1, ClippedIs
<1>3. x \in 0 .. MaxGamma /\ Between(x, target, current)
  BY <1>1, <1>2 DEF Between
<1>4. /\ g \in F /\ g \in Nat
      /\ Distance(g, x) <= Distance(current, x) /\ Distance(g, x) <= Distance(target, x)
  BY <1>1, <1>3, NearestIsClosest
<1>5. StepToward(current, target, F) = g
  BY DEF StepToward
<1>6. \A h \in F : Distance(g, x) <= Distance(h, x)
  BY <1>1, <1>3, NearestIsClosest
<1>7. ASSUME target # current
      PROVE  \E h \in F : Distance(h, x) < Distance(current, x)
  <2>1. /\ Stride \in {1, 2} /\ MaxStep >= Stride /\ MinGamma \in Nat
        /\ \A w \in Gammas : /\ w \in MinGamma .. MaxGamma
                             /\ (w - MinGamma) % Stride = 0
    <3>1. MinGamma < MaxGamma
      BY <1>1, <1>7, CandidateAssumption DEF Gammas
    <3>. QED  BY <3>1, CandidateAssumption DEF Gammas, Stride
  <2>2. /\ current \in Gammas /\ target \in Gammas
    BY <1>1
  <2>3. CASE target > current
    <3>1. target >= current + Stride
      BY <1>1, <2>1, <2>2, <2>3
    <3>2. current + Stride \in Gammas
      <4>. DEFINE h == current + Stride
      <4>1. h \in MinGamma .. MaxGamma
        BY <1>1, <2>1, <2>2, <3>1
      <4>2. (h - MinGamma) % Stride = 0
        BY <1>1, <2>1, <2>2
      <4>. HIDE DEF h
      <4>3. h \in Gammas
        BY <4>1, <4>2 DEF Gammas
      <4>. QED  BY <4>3 DEF h
    <3>3. current + Stride \in F
      BY <1>1, <2>1, <3>1, <3>2, NoGap
    <3>4. current + Stride <= x /\ x \in Nat
      BY <1>1, <1>2, <1>3, <2>1, <2>3, <3>1
    <3>5. Distance(current + Stride, x) < Distance(current, x)
      BY <1>1, <2>1, <3>4 DEF Distance
    <3>. QED  BY <3>3, <3>5
  <2>4. CASE target < current
    <3>1. target <= current - Stride
      BY <1>1, <2>1, <2>2, <2>4
    <3>2. current - Stride \in Gammas
      <4>. DEFINE h == current - Stride
      <4>1. h \in MinGamma .. MaxGamma
        BY <1>1, <2>1, <2>2, <3>1
      <4>2. (h - MinGamma) % Stride = 0
        BY <1>1, <2>1, <2>2
      <4>. HIDE DEF h
      <4>3. h \in Gammas
        BY <4>1, <4>2 DEF Gammas
      <4>. QED  BY <4>3 DEF h
    <3>3. current - Stride \in F
      BY <1>1, <2>1, <3>1, <3>2, NoGap
    <3>4. x <= current - Stride /\ x \in Nat /\ current - Stride \in Nat
      BY <1>1, <1>2, <1>3, <2>1, <2>4, <3>1, <3>2
    <3>5. Distance(current - Stride, x) < Distance(current, x)
      BY <1>1, <2>1, <3>4 DEF Distance
    <3>. QED  BY <3>3, <3>5
  <2>. QED  BY <1>1, <1>7, <2>3, <2>4
<1>8. Between(g, target, current)
  <2>1. x \in Nat
    BY <1>3
  <2>. HIDE DEF x, g, F
  <2>. QED  BY <1>1, <1>3, <1>4, <2>1 DEF Between, Distance
<1>9. ASSUME g = current PROVE target = current
  <2>1. SUFFICES ASSUME target # current PROVE FALSE
    OBVIOUS
  <2>2. PICK h \in F : Distance(h, x) < Distance(current, x)
    BY <1>7, <2>1
  <2>3. Distance(g, x) <= Distance(h, x)
    BY <1>6
  <2>4. Distance(h, x) \in Nat /\ Distance(current, x) \in Nat
    BY <1>1, <1>3 DEF Distance
  <2>. HIDE DEF g, x
  <2>. QED  BY <1>9, <2>2, <2>3, <2>4
<1>. HIDE DEF g, x
<1>. QED  BY <1>5, <1>8, <1>9

\* A power of two is a natural number and no smaller than its exponent.
LEMMA PowerFacts ==
  ASSUME NEW n \in Nat
  PROVE  2 ^ n \in Nat /\ n <= 2 ^ n
<1>. DEFINE S == 1 .. n
            singles == {{x} : x \in S}
<1>1. IsFiniteSet(S) /\ Cardinality(S) = n
  BY FS_Interval
<1>2. IsFiniteSet(SUBSET S) /\ Cardinality(SUBSET S) = 2 ^ n
  BY <1>1, FS_SUBSET
<1>3. Cardinality(SUBSET S) \in Nat
  BY <1>2, FS_CardinalityType
<1>4. singles \subseteq SUBSET S
  OBVIOUS
<1>5. Cardinality(singles) = n
  <2>. DEFINE f == [x \in S |-> {x}]
  <2>1. f \in Bijection(S, singles)
    BY DEF Bijection, Injection, Surjection, IsInjective
  <2>2. ExistsBijection(S, singles)
    BY <2>1 DEF ExistsBijection
  <2>. QED  BY <1>1, <2>2, FS_Bijection
<1>6. Cardinality(singles) <= Cardinality(SUBSET S)
  BY <1>2, <1>4, FS_Subset
<1>. QED  BY <1>2, <1>3, <1>5, <1>6

\* The anchor of every batch.
Origin == AnchorOf(CHOOSE b \in Batches : TRUE)

\* A launched arm with its warmup samples.
Measured(B, h) == h \in B.launched /\ Ready(B, h)

\* Every width short of g on the way from the anchor is measured.
Supported(B, g) == \A h \in Gammas : Between(h, g, Origin) /\ h # g => Measured(B, h)

\* The arms a bucket has launched or has rewards of, and the widths it travels to,
\* are supported.
Evidence(B) ==
  /\ \A g \in Gammas : g \in B.launched \/ B.obs[g] > 0 => Supported(B, g)
  /\ B.boot # None => Supported(B, B.boot)
  /\ B.wtarget # None => Supported(B, B.wtarget)

\* A bucket a step later: more arms launched and more rewards.
Extends(C, B) ==
  /\ B.launched \subseteq C.launched
  /\ \A g \in Gammas : B.obs[g] <= C.obs[g]
  /\ C.seeded = B.seeded

\* One anchor for every batch, in every bucket.
LEMMA OneAnchor ==
  ASSUME EvidenceKept, NEW b \in Batches
  PROVE  AnchorOf(b) = Origin
<1>1. ASSUME NEW c \in Batches PROVE AnchorOf(b) = AnchorOf(c)
  <2>1. CASE Feasible[b] # Gammas
    BY <2>1 DEF EvidenceKept
  <2>2. CASE Feasible[c] # Gammas
    BY <2>2 DEF EvidenceKept
  <2>3. CASE Feasible[b] = Gammas /\ Feasible[c] = Gammas
    BY <2>3 DEF AnchorOf
  <2>. QED  BY <2>1, <2>2, <2>3
<1>. QED  BY <1>1 DEF Origin

\* The anchor of every batch is a width that fits it.
LEMMA OriginFacts ==
  ASSUME EvidenceKept, NEW b \in Batches
  PROVE  /\ Nearest[Feasible[b]][Anchor] = Origin
         /\ Origin \in Feasible[b] /\ Origin \in Gammas /\ Origin \in Nat
<1>1. Nearest[Feasible[b]][Anchor] = Origin
  BY OneAnchor DEF AnchorOf
<1>2. Feasible[b] \in (SUBSET Gammas) \ {{}} /\ Anchor \in 0 .. MaxGamma
  BY FeasibleFacts, AnchorCandidate, CandidateFacts
<1>3. Origin \in Feasible[b]
  BY <1>1, <1>2, NearestMember
<1>. QED  BY <1>1, <1>2, <1>3, CandidateFacts

\* The anchor needs no evidence.
LEMMA OriginSupported ==
  ASSUME NEW B, Origin \in Nat
  PROVE  Supported(B, Origin)
BY CandidateFacts DEF Supported, Between

\* Evidence is never lost.
LEMMA SupportGrows ==
  ASSUME NEW B \in BucketType, NEW C \in BucketType, Extends(C, B), NEW g, Supported(B, g)
  PROVE  Supported(C, g)
<1>1. ASSUME NEW h \in Gammas, Measured(B, h) PROVE Measured(C, h)
  <2>1. B.obs[h] \in Nat /\ C.obs[h] \in Nat /\ B.obs[h] <= C.obs[h]
    BY BoundFacts DEF BucketType, Extends
  <2>. QED  BY <1>1, <2>1, WindowAssumption DEF Measured, Ready, Extends
<1>. QED  BY <1>1 DEF Supported

\* Widths between two supported ones are supported.
LEMMA SupportConvex ==
  ASSUME NEW B, Origin \in Nat, NEW x \in Nat, NEW y \in Nat, NEW g \in Nat,
         Supported(B, x), Supported(B, y), Between(g, x, y)
  PROVE  Supported(B, g)
<1>1. SUFFICES ASSUME NEW h \in Gammas, Between(h, g, Origin), h # g
               PROVE  Measured(B, h)
  BY DEF Supported
<1>2. h \in Nat
  BY CandidateFacts
<1>3. \/ Between(h, x, Origin) /\ h # x
      \/ Between(h, y, Origin) /\ h # y
  BY <1>1, <1>2 DEF Between
<1>. QED  BY <1>1, <1>3 DEF Supported

\* The feasible width nearest to a supported width is supported.
LEMMA NearestSupported ==
  ASSUME EvidenceKept, NEW batch \in Batches, NEW B, NEW t \in Gammas, Supported(B, t)
  PROVE  /\ Nearest[Feasible[batch]][t] \in Feasible[batch]
         /\ Supported(B, Nearest[Feasible[batch]][t])
<1>. DEFINE F == Feasible[batch]
            n == Nearest[F][t]
<1>1. /\ F \in (SUBSET Gammas) \ {{}} /\ t \in 0 .. MaxGamma /\ t \in Nat
      /\ Origin \in F /\ Origin \in Nat
  BY FeasibleFacts, CandidateFacts, OriginFacts
<1>2. n \in F /\ Distance(n, t) <= Distance(Origin, t)
  BY <1>1, NearestIsClosest
<1>3. n \in Nat
  BY <1>1, <1>2, CandidateFacts
<1>4. CASE t \in F
  BY <1>1, <1>4, NearestItself
<1>5. CASE t \notin F
  <2>1. ~(n <= t /\ t <= Origin) /\ ~(Origin <= t /\ t <= n)
    BY <1>1, <1>2, <1>5, NoGap DEF EvidenceKept, Gapless
  <2>. HIDE DEF n, F
  <2>2. Between(n, t, Origin)
    BY <1>1, <1>2, <1>3, <2>1 DEF Distance, Between
  <2>3. Supported(B, n)
    BY <1>1, <1>3, <2>2, OriginSupported, SupportConvex
  <2>. QED  BY <1>2, <2>3 DEF n, F
<1>. QED  BY <1>4, <1>5, <1>2

\* The boundary of a width is its neighbour on the anchor's side.
LEMMA BoundaryFacts ==
  ASSUME Origin \in Gammas, NEW g \in Gammas \ {Origin}
  PROVE  /\ Boundary(g, Origin) \in Gammas /\ Boundary(g, Origin) # g
         /\ Between(Boundary(g, Origin), g, Origin)
         /\ \A h \in Gammas : Between(h, g, Origin) /\ h # g
                                => Between(h, Boundary(g, Origin), Origin)
<1>. DEFINE side == {h \in Gammas : IF g > Origin THEN h < g ELSE h > g}
            n == Nearest[side][g]
<1>1. g \in 0 .. MaxGamma /\ g \in Nat /\ Origin \in Nat /\ Gammas \subseteq Nat
  BY CandidateFacts
<1>2. Origin \in side /\ side \in (SUBSET Gammas) \ {{}}
  BY <1>1
<1>3. Boundary(g, Origin) = n
  BY <1>2 DEF Boundary
<1>4. n \in side /\ \A h \in side : Distance(n, g) <= Distance(h, g)
  BY <1>1, <1>2, NearestIsClosest
<1>5. n \in Gammas /\ n \in Nat /\ (IF g > Origin THEN n < g ELSE n > g)
  BY <1>1, <1>4
<1>6. Distance(n, g) <= Distance(Origin, g)
  BY <1>2, <1>4
<1>7. ASSUME NEW h \in Gammas, Between(h, g, Origin), h # g
      PROVE  h \in side /\ h \in Nat /\ Distance(n, g) <= Distance(h, g)
  <2>1. h \in Nat
    BY <1>1
  <2>2. h \in side
    BY <1>1, <1>7, <2>1 DEF Between
  <2>. QED  BY <1>4, <2>1, <2>2
<1>. HIDE DEF n, side
<1>8. Between(n, g, Origin) /\ n # g
  BY <1>1, <1>5, <1>6 DEF Distance, Between
<1>9. ASSUME NEW h \in Gammas, Between(h, g, Origin), h # g
      PROVE  Between(h, n, Origin)
  BY <1>1, <1>5, <1>7, <1>9 DEF Distance, Between
<1>. QED  BY <1>3, <1>5, <1>8, <1>9

\* A width next to a measured and supported one is supported.
LEMMA BoundarySupports ==
  ASSUME Origin \in Gammas, NEW B, NEW g \in Gammas,
         Measured(B, Boundary(g, Origin)), Supported(B, Boundary(g, Origin))
  PROVE  Supported(B, g)
<1>1. CASE g = Origin
  BY <1>1, CandidateFacts, OriginSupported
<1>2. CASE g # Origin
  BY <1>2, BoundaryFacts DEF Supported
<1>. QED  BY <1>1, <1>2

\* The key of a batch is a power of two.
LEMMA KeyIsNat ==
  ASSUME NEW batch \in Batches
  PROVE  Bucket(batch) \in Nat
<1>. DEFINE powers == {2 ^ e : e \in 0 .. batch}
            covers == {p \in powers : batch <= p}
<1>1. batch \in Nat
  BY BatchAssumption
<1>2. powers \subseteq Nat
  BY <1>1, PowerFacts
<1>3. 2 ^ batch \in covers
  BY <1>1, PowerFacts
<1>4. PICK k \in covers : \A j \in covers : k <= j
  BY <1>2, <1>3, LeastMember
<1>5. Bucket(batch) = CHOOSE p \in powers :
        batch <= p /\ \A j \in powers : batch <= j => p <= j
  BY DEF Bucket
<1>6. k \in powers /\ batch <= k /\ \A j \in powers : batch <= j => k <= j
  BY <1>4
<1>. HIDE DEF powers, covers
<1>7. Bucket(batch) \in powers
  BY <1>5, <1>6
<1>. QED  BY <1>2, <1>7

\* A bucket is not the absence of one.
LEMMA BucketPresent ==
  ASSUME NEW B \in BucketType
  PROVE  B # Absent
<1>1. "obs" \in DOMAIN B
  BY DEF BucketType
<1>2. DOMAIN Absent = {}
  BY DEF Absent
<1>. QED  BY <1>1, <1>2

\* A bucket with the same arms and rewards.
Alike(C, B) == C.launched = B.launched /\ C.obs = B.obs /\ C.seeded = B.seeded

\* Where the branches of choose start: a bucket whose evidence is kept.
Chained(batch, B) ==
  /\ Serving(batch, B) /\ HasInitial /\ EvidenceKept
  /\ ~B.seeded => Evidence(B)

\* Where the branches start that no longer travel: the present width is supported.
Founded(batch, B) ==
  /\ Chained(batch, B)
  /\ B.boot = None /\ B.wtarget = None
  /\ ~B.seeded => Supported(B, gamma)

\* What every decision leaves of the evidence: a bucket that no longer travels, a
\* frame that stays at its width and one that leaves the anchor are at a supported
\* one.
Kept(batch, B) ==
  \E C \in BucketType :
    /\ Return(batch, C, gamma')
    /\ Extends(C, B)
    /\ ~C.seeded => /\ Evidence(C)
                    /\ C.boot = None /\ C.wtarget = None => Supported(C, gamma')
                    /\ gamma \in {gamma', Origin} => Supported(C, gamma')

\* What the branches of choose may assume of the widths.
LEMMA ChainedFacts ==
  ASSUME NEW batch, NEW B, Chained(batch, B)
  PROVE  /\ batch \in Batches /\ B \in BucketType /\ Gapless
         /\ Feasible[batch] \in (SUBSET Gammas) \ {{}} /\ Feasible[batch] \subseteq Nat
         /\ gamma \in Feasible[batch] /\ gamma \in Nat
         /\ Nearest[Feasible[batch]][Anchor] = Origin
         /\ Origin \in Feasible[batch] /\ Origin \in Gammas /\ Origin \in Nat
         /\ Supported(B, Origin)
<1>1. batch \in Batches /\ B \in BucketType /\ gamma \in Feasible[batch] /\ Gapless
  BY DEF Chained, Serving, EvidenceKept, Gapless
<1>. QED  BY <1>1, FeasibleFacts, CandidateFacts, OriginFacts, OriginSupported DEF Chained

\* A bucket with the same arms and rewards has the same evidence.
LEMMA AlikeFacts ==
  ASSUME NEW B \in BucketType, NEW C, Alike(C, B)
  PROVE  /\ Extends(C, B)
         /\ \A g : Supported(C, g) <=> Supported(B, g)
<1>1. Extends(C, B)
  BY BoundFacts DEF Extends, Alike, BucketType
<1>2. \A h : Measured(C, h) <=> Measured(B, h)
  BY DEF Measured, Ready, Alike
<1>. QED  BY <1>1, <1>2 DEF Supported

\* Selecting, counting and the notes of a bucket leave its arms and rewards alone.
LEMMA AlikeBuckets ==
  ASSUME NEW B \in BucketType, NEW g \in Gammas
  PROVE  /\ Alike(Activated(B, g), B) /\ Alike(Counted(B), B)
         /\ \A t : /\ Alike([Activated(B, g) EXCEPT !.boot = t], B)
                   /\ Alike([Activated(B, g) EXCEPT !.wtarget = t], B)
                   /\ Alike([Activated(B, g) EXCEPT !.sched = t], B)
                   /\ Alike([Activated(B, g) EXCEPT !.returned = t], B)
BY DEF Alike, Activated, Counted, BucketType

\* Where a bucket is bound after a selection.
LEMMA DestinationsOf ==
  ASSUME NEW B \in BucketType, NEW g \in Gammas
  PROVE  /\ Activated(B, g).boot = B.boot /\ Activated(B, g).wtarget = B.wtarget
         /\ Counted(B).boot = B.boot /\ Counted(B).wtarget = B.wtarget
         /\ \A t : /\ [Activated(B, g) EXCEPT !.boot = t].boot = t
                   /\ [Activated(B, g) EXCEPT !.boot = t].wtarget = B.wtarget
                   /\ [Activated(B, g) EXCEPT !.wtarget = t].wtarget = t
                   /\ [Activated(B, g) EXCEPT !.wtarget = t].boot = B.boot
                   /\ [Activated(B, g) EXCEPT !.sched = t].boot = B.boot
                   /\ [Activated(B, g) EXCEPT !.sched = t].wtarget = B.wtarget
                   /\ [Activated(B, g) EXCEPT !.returned = t].boot = B.boot
                   /\ [Activated(B, g) EXCEPT !.returned = t].wtarget = B.wtarget
BY DEF Activated, Counted, BucketType

\* A bucket that travels to supported widths keeps its evidence.
LEMMA TravelKeeps ==
  ASSUME NEW batch, NEW B, Chained(batch, B), NEW C \in BucketType, Alike(C, B),
         ~B.seeded => /\ C.boot # None => Supported(B, C.boot)
                      /\ C.wtarget # None => Supported(B, C.wtarget),
         NEW g, Return(batch, C, g), g # gamma,
         C.boot = None /\ C.wtarget = None /\ ~B.seeded => Supported(B, g),
         gamma = Origin /\ ~B.seeded => Supported(B, g)
  PROVE  Kept(batch, B)
<1>1. gamma' = g
  BY DEF Return
<1>2. B \in BucketType /\ (~B.seeded => Evidence(B))
  BY DEF Chained, Serving
<1>3. Extends(C, B) /\ \A h : Supported(C, h) <=> Supported(B, h)
  BY <1>2, AlikeFacts
<1>4. ASSUME ~C.seeded
      PROVE  /\ Evidence(C)
             /\ C.boot = None /\ C.wtarget = None => Supported(C, gamma')
             /\ gamma = Origin => Supported(C, gamma')
  BY <1>1, <1>2, <1>3, <1>4 DEF Evidence, Alike
<1>. QED  BY <1>1, <1>3, <1>4 DEF Kept

\* So does a bucket that stays, or steps towards a supported width.
LEMMA MoveKeeps ==
  ASSUME NEW batch, NEW B, Founded(batch, B), NEW C \in BucketType, Alike(C, B),
         NEW target \in Feasible[batch], ~B.seeded => Supported(B, target),
         C.boot = None, C.wtarget \in {None, target},
         NEW g \in {gamma, StepToward(gamma, target, Feasible[batch])},
         Return(batch, C, g)
  PROVE  Kept(batch, B)
<1>1. gamma' = g
  BY DEF Return
<1>2. Chained(batch, B) /\ B \in BucketType /\ (~B.seeded => Evidence(B) /\ Supported(B, gamma))
  BY DEF Founded, Chained, Serving
<1>3. Extends(C, B) /\ \A h : Supported(C, h) <=> Supported(B, h)
  BY <1>2, AlikeFacts
<1>4. ASSUME ~B.seeded PROVE Supported(B, g)
  <2>1. /\ batch \in Batches /\ gamma \in Feasible[batch] /\ Gapless /\ Origin \in Nat
        /\ Feasible[batch] \in (SUBSET Gammas) \ {{}} /\ Feasible[batch] \subseteq Nat
        /\ gamma \in Gammas
    BY <1>2, ChainedFacts
  <2>. DEFINE s == StepToward(gamma, target, Feasible[batch])
  <2>2. s \in Nat
    BY <2>1, StepIsFeasible
  <2>3. Between(s, target, gamma)
    BY <2>1, StepMoves
  <2>. HIDE DEF s
  <2>4. Supported(B, s)
    BY <1>2, <1>4, <2>1, <2>2, <2>3, SupportConvex
  <2>. QED  BY <1>2, <1>4, <2>4 DEF s
<1>5. ASSUME ~C.seeded PROVE Evidence(C) /\ Supported(C, gamma')
  BY <1>1, <1>2, <1>3, <1>4, <1>5 DEF Evidence, Alike
<1>. QED  BY <1>1, <1>3, <1>5 DEF Kept

\* A step towards another width leaves the present one.
LEMMA StepLeaves ==
  ASSUME NEW batch, NEW B, Chained(batch, B), NEW target \in Feasible[batch],
         gamma # target
  PROVE  /\ StepToward(gamma, target, Feasible[batch]) # gamma
         /\ StepToward(gamma, target, Feasible[batch]) \in Feasible[batch]
         /\ StepToward(gamma, target, Feasible[batch]) \in Gammas
<1>1. /\ batch \in Batches /\ gamma \in Feasible[batch] /\ Gapless
      /\ Feasible[batch] \in (SUBSET Gammas) \ {{}}
  BY ChainedFacts
<1>. QED  BY <1>1, StepMoves, StepIsFeasible

\* A step from the anchor towards a supported width ends on one.
LEMMA StepFromAnchor ==
  ASSUME NEW batch, NEW B, Chained(batch, B), NEW target \in Feasible[batch],
         ~B.seeded => Supported(B, target)
  PROVE  gamma = Origin /\ ~B.seeded
           => Supported(B, StepToward(gamma, target, Feasible[batch]))
<1>. DEFINE s == StepToward(gamma, target, Feasible[batch])
<1>1. /\ batch \in Batches /\ gamma \in Feasible[batch] /\ Gapless /\ Origin \in Nat
      /\ Feasible[batch] \in (SUBSET Gammas) \ {{}} /\ Feasible[batch] \subseteq Nat
      /\ Supported(B, Origin)
  BY ChainedFacts
<1>2. s \in Nat
  BY <1>1, StepIsFeasible
<1>3. Between(s, target, gamma)
  BY <1>1, StepMoves
<1>. HIDE DEF s
<1>4. gamma = Origin /\ ~B.seeded => Supported(B, s)
  BY <1>1, <1>2, <1>3, SupportConvex
<1>. QED  BY <1>4 DEF s

-----------------------------------------------------------------------------
(* The decisions keep the evidence.                                         *)

\* A changed bucket resumes an arm it has measured, its prior's width or the anchor.
LEMMA TargetSupported ==
  ASSUME NEW batch, NEW B, Chained(batch, B),
         NEW target \in ResumeTargets(B, Feasible[batch])
  PROVE  target \in Feasible[batch] /\ (~B.seeded => Supported(B, target))
<1>1. /\ Nearest[Feasible[batch]][Anchor] = Origin /\ Origin \in Feasible[batch]
      /\ Supported(B, Origin) /\ Feasible[batch] \in SUBSET Gammas
      /\ None \notin Gammas
  BY ChainedFacts, CandidateFacts DEF None
<1>2. CASE B.boot \in Feasible[batch]
  BY <1>1, <1>2 DEF ResumeTargets, Chained, Evidence
<1>3. CASE B.boot \notin Feasible[batch]
  BY <1>1, <1>3 DEF ResumeTargets, MeasuredArms, Chained, Evidence
<1>. QED  BY <1>2, <1>3

\* The step to the width a changed bucket resumes.
LEMMA ResumeKeeps ==
  ASSUME NEW batch, NEW B, Chained(batch, B),
         NEW target \in ResumeTargets(B, Feasible[batch]), gamma # target,
         Resume(batch, B, Feasible[batch], target)
  PROVE  Kept(batch, B)
<1>. DEFINE g == StepToward(gamma, target, Feasible[batch])
            t == IF g = target THEN None ELSE target
            C == [Activated(B, g) EXCEPT !.boot = t]
<1>1. target \in Feasible[batch] /\ target \in Gammas /\ (~B.seeded => Supported(B, target))
  BY TargetSupported, ChainedFacts
<1>2. /\ g # gamma /\ g \in Gammas
      /\ gamma = Origin /\ ~B.seeded => Supported(B, g)
  BY <1>1, StepLeaves, StepFromAnchor
<1>3. Return(batch, C, g)
  BY DEF Resume
<1>. HIDE DEF g
<1>4. t \in Gammas \cup {None} /\ B \in BucketType /\ None \notin Gammas
  BY <1>1, ChainedFacts, CandidateFacts DEF None
<1>. HIDE DEF t
<1>5. /\ C \in BucketType /\ Alike(C, B) /\ C.boot = t /\ C.wtarget = B.wtarget
  <2>1. C \in BucketType
    BY <1>2, <1>4, TravelType
  <2>2. Alike(C, B)
    BY <1>2, <1>4, AlikeBuckets
  <2>3. C.boot = t /\ C.wtarget = B.wtarget
    BY <1>2, <1>4, DestinationsOf
  <2>. QED  BY <2>1, <2>2, <2>3
<1>. HIDE DEF C
<1>6. ~B.seeded => /\ C.boot # None => Supported(B, C.boot)
                   /\ C.wtarget # None => Supported(B, C.wtarget)
  BY <1>1, <1>5 DEF t, Chained, Evidence
<1>7. C.boot = None /\ C.wtarget = None /\ ~B.seeded => Supported(B, g)
  BY <1>1, <1>4, <1>5 DEF t
<1>. QED  BY <1>2, <1>3, <1>5, <1>6, <1>7, TravelKeeps

\* No burn-in where every frame proposes drafts.
LEMMA NoBurnIn ==
  ASSUME EvidenceKept, NEW B, NEW F
  PROVE  ~BurnsIn(B, F)
BY CandidateAssumption DEF EvidenceKept, BurnsIn, SafeObservations

\* The trip to the width a bucket was seeded with or resumes.
LEMMA TransferKeeps ==
  ASSUME NEW batch, NEW B, Chained(batch, B), Travels(B.boot, Feasible[batch]),
         Transfer(batch, B, Feasible[batch])
  PROVE  Kept(batch, B)
<1>. DEFINE target == Nearest[Feasible[batch]][B.boot]
            g == StepToward(gamma, target, Feasible[batch])
            t == IF g = target THEN None ELSE Activated(B, g).boot
            C == [Activated(B, g) EXCEPT !.boot = t]
<1>1. /\ batch \in Batches /\ B \in BucketType /\ B.boot \in Gammas
      /\ Feasible[batch] \in (SUBSET Gammas) \ {{}} /\ B.boot \in 0 .. MaxGamma
      /\ B.boot # None /\ gamma # target /\ EvidenceKept
  BY ChainedFacts, CandidateFacts DEF Travels, Chained, Serving, BucketType
<1>2. target \in Feasible[batch] /\ (~B.seeded => Supported(B, target))
  BY <1>1, NearestMember, NearestSupported DEF Chained, Evidence
<1>. HIDE DEF target
<1>3. /\ g # gamma /\ g \in Gammas
      /\ gamma = Origin /\ ~B.seeded => Supported(B, g)
  BY <1>1, <1>2, StepLeaves, StepFromAnchor
<1>4. Return(batch, C, g)
  BY DEF Transfer, target
<1>. HIDE DEF g
<1>5. t = IF g = target THEN None ELSE B.boot
  BY <1>1, <1>3, DestinationsOf
<1>. HIDE DEF t
<1>6. t \in Gammas \cup {None}
  BY <1>1, <1>5
<1>7. /\ C \in BucketType /\ Alike(C, B) /\ C.boot = t /\ C.wtarget = B.wtarget
  <2>1. C \in BucketType
    BY <1>1, <1>3, <1>6, TravelType
  <2>2. Alike(C, B)
    BY <1>1, <1>3, AlikeBuckets
  <2>3. C.boot = t /\ C.wtarget = B.wtarget
    BY <1>1, <1>3, DestinationsOf
  <2>. QED  BY <2>1, <2>2, <2>3
<1>. HIDE DEF C
<1>8. ~B.seeded => /\ C.boot # None => Supported(B, C.boot)
                   /\ C.wtarget # None => Supported(B, C.wtarget)
  BY <1>5, <1>7 DEF Chained, Evidence
<1>9. C.boot = None /\ C.wtarget = None /\ ~B.seeded => Supported(B, g)
  BY <1>1, <1>2, <1>5, <1>7
<1>. QED  BY <1>3, <1>4, <1>7, <1>8, <1>9, TravelKeeps

\* The trip to the next arm of the sweep.
LEMMA WarmupStepKeeps ==
  ASSUME NEW batch, NEW B, Chained(batch, B), Travels(B.wtarget, Feasible[batch]),
         WarmupStep(batch, B, Feasible[batch])
  PROVE  Kept(batch, B)
<1>. DEFINE target == Nearest[Feasible[batch]][B.wtarget]
            g == StepToward(gamma, target, Feasible[batch])
            t == IF g = target THEN None ELSE Activated(B, g).wtarget
            C == [Activated(B, g) EXCEPT !.wtarget = t]
<1>1. /\ batch \in Batches /\ B \in BucketType /\ B.wtarget \in Gammas
      /\ Feasible[batch] \in (SUBSET Gammas) \ {{}} /\ B.wtarget \in 0 .. MaxGamma
      /\ B.wtarget # None /\ gamma # target /\ EvidenceKept
  BY ChainedFacts, CandidateFacts DEF Travels, Chained, Serving, BucketType
<1>2. target \in Feasible[batch] /\ (~B.seeded => Supported(B, target))
  BY <1>1, NearestMember, NearestSupported DEF Chained, Evidence
<1>. HIDE DEF target
<1>3. /\ g # gamma /\ g \in Gammas
      /\ gamma = Origin /\ ~B.seeded => Supported(B, g)
  BY <1>1, <1>2, StepLeaves, StepFromAnchor
<1>4. Return(batch, C, g)
  BY DEF WarmupStep, target
<1>. HIDE DEF g
<1>5. t = IF g = target THEN None ELSE B.wtarget
  BY <1>1, <1>3, DestinationsOf
<1>. HIDE DEF t
<1>6. t \in Gammas \cup {None}
  BY <1>1, <1>5
<1>7. /\ C \in BucketType /\ Alike(C, B) /\ C.wtarget = t /\ C.boot = B.boot
  <2>1. C \in BucketType
    BY <1>1, <1>3, <1>6, TravelType
  <2>2. Alike(C, B)
    BY <1>1, <1>3, AlikeBuckets
  <2>3. C.wtarget = t /\ C.boot = B.boot
    BY <1>1, <1>3, DestinationsOf
  <2>. QED  BY <2>1, <2>2, <2>3
<1>. HIDE DEF C
<1>8. ~B.seeded => /\ C.boot # None => Supported(B, C.boot)
                   /\ C.wtarget # None => Supported(B, C.wtarget)
  BY <1>5, <1>7 DEF Chained, Evidence
<1>9. C.boot = None /\ C.wtarget = None /\ ~B.seeded => Supported(B, g)
  BY <1>1, <1>2, <1>5, <1>7
<1>. QED  BY <1>3, <1>4, <1>7, <1>8, <1>9, TravelKeeps

\* What a decision from a richer bucket keeps, it keeps of the poorer one.
LEMMA KeptFrom ==
  ASSUME NEW batch, NEW B \in BucketType, NEW C \in BucketType, Extends(C, B),
         Kept(batch, C)
  PROVE  Kept(batch, B)
<1>1. PICK D \in BucketType :
        /\ Return(batch, D, gamma')
        /\ Extends(D, C)
        /\ ~D.seeded => /\ Evidence(D)
                        /\ D.boot = None /\ D.wtarget = None => Supported(D, gamma')
                        /\ gamma \in {gamma', Origin} => Supported(D, gamma')
  BY DEF Kept
<1>2. \A g \in Gammas : B.obs[g] \in Nat /\ C.obs[g] \in Nat /\ D.obs[g] \in Nat
  BY BoundFacts DEF BucketType
<1>3. Extends(D, B)
  BY <1>1, <1>2 DEF Extends
<1>. QED  BY <1>1, <1>3 DEF Kept

\* A bucket with the same arms and rewards that goes nowhere is as well founded.
LEMMA FoundedAlike ==
  ASSUME NEW batch, NEW B, Founded(batch, B), NEW C \in BucketType, Alike(C, B),
         C.boot = B.boot, C.wtarget = B.wtarget
  PROVE  Founded(batch, C)
<1>1. B \in BucketType
  BY DEF Founded, Chained, Serving
<1>2. \A g : Supported(C, g) <=> Supported(B, g)
  BY <1>1, AlikeFacts
<1>. QED  BY <1>2 DEF Founded, Chained, Serving, Evidence, Alike

\* What the branches of the decision may assume.
LEMMA FoundedFacts ==
  ASSUME NEW batch, NEW B, Founded(batch, B)
  PROVE  /\ Chained(batch, B) /\ B \in BucketType /\ gamma \in Feasible[batch]
         /\ gamma \in Gammas /\ gamma \in Nat
         /\ B.boot = None /\ B.wtarget = None
         /\ Nearest[Feasible[batch]][Anchor] = Origin
         /\ Origin \in Feasible[batch] /\ Supported(B, Origin)
         /\ Feasible[batch] \in (SUBSET Gammas) \ {{}}
         /\ \A t \in Feasible[batch] :
              StepToward(gamma, t, Feasible[batch]) \in Gammas
<1>1. Chained(batch, B) /\ B.boot = None /\ B.wtarget = None
  BY DEF Founded
<1>2. Feasible[batch] \in (SUBSET Gammas) \ {{}} /\ gamma \in Feasible[batch]
  BY <1>1, ChainedFacts
<1>3. \A t \in Feasible[batch] : StepToward(gamma, t, Feasible[batch]) \in Gammas
  BY <1>2, StepIsFeasible
<1>. QED  BY <1>1, <1>2, <1>3, ChainedFacts

\* An arm with the rewards of a warmup is supported.
LEMMA ReadySupported ==
  ASSUME NEW batch, NEW B, Founded(batch, B), ~B.seeded, NEW g \in Gammas,
         g \in B.launched \/ Ready(B, g) \/ Observed(B, g)
  PROVE  Supported(B, g)
<1>1. Evidence(B) /\ B.obs[g] \in Nat
  BY BoundFacts DEF Founded, Chained, Serving, BucketType
<1>2. g \in B.launched \/ B.obs[g] > 0
  BY <1>1, WindowAssumption DEF Ready, Observed
<1>. QED  BY <1>1, <1>2 DEF Evidence

\* One more frame at the present width.
LEMMA ResidesKeeps ==
  ASSUME NEW batch, NEW B, Founded(batch, B), Resides(batch, B)
  PROVE  Kept(batch, B)
<1>1. /\ B \in BucketType /\ gamma \in Feasible[batch] /\ gamma \in Gammas
      /\ B.boot = None /\ B.wtarget = None
  BY FoundedFacts
<1>2. /\ Counted(B) \in BucketType /\ Alike(Counted(B), B)
      /\ Counted(B).boot = None /\ Counted(B).wtarget = None
  BY <1>1, CountedType, AlikeBuckets, DestinationsOf
<1>3. Return(batch, Counted(B), gamma)
  BY DEF Resides
<1>4. ~B.seeded => Supported(B, gamma)
  BY DEF Founded
<1>. QED  BY <1>1, <1>2, <1>3, <1>4, MoveKeeps

\* The present width is selected again.
LEMMA StayKeeps ==
  ASSUME NEW batch, NEW B, Founded(batch, B), Return(batch, Activated(B, gamma), gamma)
  PROVE  Kept(batch, B)
<1>1. /\ B \in BucketType /\ gamma \in Feasible[batch] /\ gamma \in Gammas
      /\ B.boot = None /\ B.wtarget = None
  BY FoundedFacts
<1>2. /\ Activated(B, gamma) \in BucketType /\ Alike(Activated(B, gamma), B)
      /\ Activated(B, gamma).boot = None /\ Activated(B, gamma).wtarget = None
  BY <1>1, ActivatedType, AlikeBuckets, DestinationsOf
<1>3. ~B.seeded => Supported(B, gamma)
  BY DEF Founded
<1>. QED  BY <1>1, <1>2, <1>3, MoveKeeps

\* A step towards a supported width, whatever it notes besides.
LEMMA StepKeeps ==
  ASSUME NEW batch, NEW B, Founded(batch, B), NEW target \in Feasible[batch],
         ~B.seeded => Supported(B, target),
         LET g == StepToward(gamma, target, Feasible[batch])
         IN  \/ Return(batch, Activated(B, g), g)
             \/ Return(batch, [Activated(B, g) EXCEPT !.sched = ControlInterval], g)
             \/ Return(batch, [Activated(B, g) EXCEPT !.returned = (g = target)], g)
             \/ Return(batch, [Activated(B, g) EXCEPT !.wtarget =
                                 IF g = target THEN @ ELSE target], g)
  PROVE  Kept(batch, B)
<1>. DEFINE g == StepToward(gamma, target, Feasible[batch])
            A == Activated(B, g)
            v == IF g = target THEN A.wtarget ELSE target
            r == g = target
<1>1. /\ B \in BucketType /\ g \in Gammas /\ target \in Gammas
      /\ B.boot = None /\ B.wtarget = None
  BY FoundedFacts
<1>2. \/ Return(batch, A, g)
      \/ Return(batch, [A EXCEPT !.sched = ControlInterval], g)
      \/ Return(batch, [A EXCEPT !.returned = r], g)
      \/ Return(batch, [A EXCEPT !.wtarget = v], g)
  OBVIOUS
<1>3. g \in {gamma, StepToward(gamma, target, Feasible[batch])}
  OBVIOUS
<1>. HIDE DEF g
<1>4. v \in {None, target} /\ r \in BOOLEAN
  BY <1>1, DestinationsOf
<1>. HIDE DEF v, r
<1>5. ASSUME NEW C \in BucketType, Alike(C, B), C.boot = None, C.wtarget \in {None, target},
             Return(batch, C, g)
      PROVE  Kept(batch, B)
  BY <1>3, <1>5, MoveKeeps
<1>6. /\ A \in BucketType /\ Alike(A, B) /\ A.boot = None /\ A.wtarget = None
  BY <1>1, ActivatedType, AlikeBuckets, DestinationsOf
<1>7. CASE Return(batch, A, g)
  BY <1>5, <1>6, <1>7
<1>8. CASE Return(batch, [A EXCEPT !.sched = ControlInterval], g)
  <2>. DEFINE C == [A EXCEPT !.sched = ControlInterval]
  <2>1. C \in BucketType
    BY <1>1, TravelType
  <2>2. Alike(C, B)
    BY <1>1, AlikeBuckets
  <2>3. C.boot = None /\ C.wtarget = None
    BY <1>1, DestinationsOf
  <2>. HIDE DEF C
  <2>. QED  BY <1>5, <1>8, <2>1, <2>2, <2>3 DEF C
<1>9. CASE Return(batch, [A EXCEPT !.returned = r], g)
  <2>. DEFINE C == [A EXCEPT !.returned = r]
  <2>1. C \in BucketType
    <3>1. \A s \in BOOLEAN : [A EXCEPT !.returned = s] \in BucketType
      BY <1>1, TravelType
    <3>. QED  BY <1>4, <3>1, Zenon
  <2>2. Alike(C, B)
    BY <1>1, AlikeBuckets
  <2>3. C.boot = None /\ C.wtarget = None
    BY <1>1, DestinationsOf
  <2>. HIDE DEF C
  <2>. QED  BY <1>5, <1>9, <2>1, <2>2, <2>3 DEF C
<1>10. CASE Return(batch, [A EXCEPT !.wtarget = v], g)
  <2>. DEFINE C == [A EXCEPT !.wtarget = v]
  <2>1. C \in BucketType
    <3>1. v \in Gammas \cup {None}
      BY <1>1, <1>4
    <3>. QED  BY <1>1, <3>1, TravelType
  <2>2. Alike(C, B)
    BY <1>1, AlikeBuckets
  <2>3. C.boot = None /\ C.wtarget = v
    BY <1>1, DestinationsOf
  <2>. HIDE DEF C
  <2>. QED  BY <1>4, <1>5, <1>10, <2>1, <2>2, <2>3 DEF C
<1>. QED  BY <1>2, <1>7, <1>8, <1>9, <1>10

\* The branches that move or stay and only count frames.
LEMMA MoveOrWaitKeeps ==
  ASSUME NEW batch, NEW B, Founded(batch, B), NEW target \in Feasible[batch],
         ~B.seeded => Supported(B, target),
         MoveOrWait(batch, B, Feasible[batch], target)
  PROVE  Kept(batch, B)
<1>. DEFINE g == StepToward(gamma, target, Feasible[batch])
<1>1. CASE g = gamma
  <2>1. Resides(batch, B)
    BY <1>1 DEF MoveOrWait, Resides
  <2>. QED  BY <2>1, ResidesKeeps
<1>2. CASE g # gamma
  <2>1. Return(batch, Activated(B, g), g)
    BY <1>2 DEF MoveOrWait
  <2>. QED  BY <2>1, StepKeeps
<1>. QED  BY <1>1, <1>2

\* The choice of the next arm of the sweep among supported ones.
LEMMA WarmupKeeps ==
  ASSUME NEW batch, NEW B, Founded(batch, B), NEW targets \in SUBSET Feasible[batch],
         targets # {}, ~B.seeded => \A t \in targets : Supported(B, t),
         Warmup(batch, B, Feasible[batch], targets)
  PROVE  Kept(batch, B)
<1>. DEFINE target == Nearest[targets][gamma]
<1>1. targets \in (SUBSET Gammas) \ {{}} /\ gamma \in 0 .. MaxGamma
  BY FoundedFacts, CandidateFacts
<1>2. target \in targets
  BY <1>1, NearestMember
<1>3. LET g == StepToward(gamma, target, Feasible[batch])
      IN  Return(batch, [Activated(B, g) EXCEPT !.wtarget = IF g = target THEN @ ELSE target], g)
  BY DEF Warmup
<1>. HIDE DEF target
<1>. QED  BY <1>2, <1>3, StepKeeps

\* The return to the anchor.
LEMMA ReturnToAnchorKeeps ==
  ASSUME NEW batch, NEW B, Founded(batch, B), ReturnToAnchor(batch, B, Feasible[batch])
  PROVE  Kept(batch, B)
<1>1. /\ Nearest[Feasible[batch]][Anchor] = Origin /\ Origin \in Feasible[batch]
      /\ Supported(B, Origin)
  BY FoundedFacts
<1>2. LET g == StepToward(gamma, Origin, Feasible[batch])
      IN  Return(batch, Activated(B, g), g)
  BY <1>1 DEF ReturnToAnchor
<1>. QED  BY <1>1, <1>2, StepKeeps

\* What the frontier and the return note of a bucket.
Noted(B, anchor) ==
  {[B EXCEPT !.reval = <<>>], [B EXCEPT !.deferred = FALSE],
   [B EXCEPT !.deferred = TRUE], [B EXCEPT !.returned = TRUE],
   [B EXCEPT !.deferred = TRUE, !.reval = <<anchor, 0>>]}

\* The notes of the frontier and the return leave the evidence alone.
LEMMA NotesFounded ==
  ASSUME NEW batch, NEW B, Founded(batch, B), NEW anchor \in Gammas,
         NEW C \in Noted(B, anchor)
  PROVE  Founded(batch, C) /\ Extends(C, B) /\ C \in BucketType /\ Alike(C, B)
<1>1. B \in BucketType
  BY FoundedFacts
<1>2. /\ [B EXCEPT !.reval = <<>>] \in BucketType
      /\ [B EXCEPT !.deferred = FALSE] \in BucketType
      /\ [B EXCEPT !.deferred = TRUE] \in BucketType
      /\ [B EXCEPT !.deferred = TRUE, !.reval = <<anchor, 0>>] \in BucketType
  BY <1>1, FrontierType
<1>3. [B EXCEPT !.returned = TRUE] \in BucketType
  <2>1. ASSUME NEW r \in BOOLEAN PROVE [B EXCEPT !.returned = r] \in BucketType
    BY <1>1 DEF BucketType
  <2>. QED  BY <2>1, Zenon
<1>4. C \in BucketType
  BY <1>2, <1>3 DEF Noted
<1>5. Alike(C, B) /\ C.boot = B.boot /\ C.wtarget = B.wtarget
  BY <1>1 DEF Noted, Alike, BucketType
<1>. QED  BY <1>1, <1>4, <1>5, FoundedAlike, AlikeFacts

\* No probe promises a gain: the present width is kept.
LEMMA HoldModelKeeps ==
  ASSUME NEW batch, NEW B, Founded(batch, B), HoldModel(batch, B)
  PROVE  Kept(batch, B)
<1>. DEFINE C == [B EXCEPT !.returned = TRUE]
<1>1. B \in BucketType /\ gamma \in Gammas /\ C \in Noted(B, gamma)
  BY FoundedFacts DEF Noted
<1>2. Return(batch, Activated(C, gamma), gamma)
  BY DEF HoldModel
<1>. HIDE DEF C
<1>3. Founded(batch, C) /\ Extends(C, B) /\ C \in BucketType
  BY <1>1, NotesFounded
<1>. QED  BY <1>1, <1>2, <1>3, StayKeeps, KeptFrom

\* "a farther arm becomes eligible only through a measured adjacent boundary".
LEMMA SupportableSupported ==
  ASSUME NEW batch, NEW B, Founded(batch, B), NEW g \in Supportable(B, Feasible[batch])
  PROVE  g \in Feasible[batch] /\ (~B.seeded => Supported(B, g))
<1>. DEFINE n == Boundary(g, Origin)
<1>1. /\ Nearest[Feasible[batch]][Anchor] = Origin /\ Origin \in Gammas
      /\ Feasible[batch] \in SUBSET Gammas
  BY FoundedFacts
<1>2. g \in Feasible[batch] /\ n \in MeasuredArms(B, Feasible[batch])
  BY <1>1 DEF Supportable, Unlaunched
<1>. HIDE DEF n
<1>3. n \in Gammas /\ Measured(B, n)
  BY <1>1, <1>2 DEF MeasuredArms, Measured
<1>4. ~B.seeded => Supported(B, n)
  BY <1>3, ReadySupported DEF Measured
<1>. QED  BY <1>1, <1>2, <1>3, <1>4, BoundarySupports DEF n

\* The whole frontier: revalidation, return, probe or hold.
LEMMA FrontierKeeps ==
  ASSUME NEW batch, NEW B, Founded(batch, B), Frontier(batch, B, Feasible[batch])
  PROVE  Kept(batch, B)
<1>. DEFINE F == Feasible[batch]
<1>. PICK anchor \in {Nearest[F][Anchor]}, C \in {[B EXCEPT !.reval = <<>>]} :
       FrontierFrom(batch, B, C, F, anchor)
  BY DEF Frontier
<1>1. anchor \in Gammas /\ B \in BucketType
  BY FoundedFacts
<1>2. Founded(batch, C) /\ Extends(C, B) /\ C \in BucketType /\ Alike(C, B)
  <2>1. C \in Noted(B, anchor)
    BY DEF Noted
  <2>. QED  BY <1>1, <2>1, NotesFounded
<1>3. PICK best \in MeasuredArms(B, F), short \in Revalidates(B, anchor) :
        IF B.reval # <<>> /\ gamma # anchor THEN ReturnToAnchor(batch, B, F)
        ELSE IF short THEN Resides(batch, B)
        ELSE IF Ready(C, gamma) /\ gamma # best THEN FrontierReturn(batch, C, F, best)
        ELSE \E supported \in SUBSET Supportable(C, F) :
               IF supported # {}
               THEN Warmup(batch, [C EXCEPT !.deferred = FALSE], F, supported)
               ELSE IF gamma # anchor
               THEN ReturnToAnchor(batch, [C EXCEPT !.deferred = TRUE,
                                                    !.reval = <<anchor, 0>>], F)
               ELSE HoldModel(batch, [C EXCEPT !.deferred = TRUE])
  BY DEF FrontierFrom
<1>4. best \in F /\ (~B.seeded => Supported(B, best)) /\ (~C.seeded => Supported(C, best))
  <2>1. best \in F /\ best \in B.launched /\ best \in C.launched /\ best \in Gammas
    BY <1>2, FoundedFacts DEF MeasuredArms, Alike
  <2>. QED  BY <1>2, <2>1, ReadySupported
<1>5. ASSUME NEW D, Kept(batch, D), D \in BucketType, Extends(D, C)
      PROVE  Kept(batch, B)
  BY <1>1, <1>2, <1>5, KeptFrom
<1>6. ASSUME NEW D \in {[C EXCEPT !.deferred = FALSE], [C EXCEPT !.deferred = TRUE],
                        [C EXCEPT !.deferred = TRUE, !.reval = <<anchor, 0>>]}
      PROVE  Founded(batch, D) /\ Extends(D, C) /\ D \in BucketType /\ Alike(D, C)
  <2>1. D \in Noted(C, anchor)
    BY <1>6 DEF Noted
  <2>. QED  BY <1>1, <1>2, <2>1, NotesFounded
<1>7. CASE B.reval # <<>> /\ gamma # anchor
  BY <1>3, <1>7, ReturnToAnchorKeeps
<1>8. CASE ~(B.reval # <<>> /\ gamma # anchor) /\ short
  BY <1>3, <1>8, ResidesKeeps
<1>9. CASE ~(B.reval # <<>> /\ gamma # anchor) /\ ~short /\ Ready(C, gamma) /\ gamma # best
  <2>1. FrontierReturn(batch, C, F, best)
    BY <1>3, <1>9
  <2>2. LET g == StepToward(gamma, best, F)
        IN  Return(batch, [Activated(C, g) EXCEPT !.sched = ControlInterval], g)
    BY <2>1 DEF FrontierReturn
  <2>3. Kept(batch, C)
    BY <1>2, <1>4, <2>2, StepKeeps
  <2>. QED  BY <1>1, <1>2, <2>3, KeptFrom
<1>10. CASE ~(B.reval # <<>> /\ gamma # anchor) /\ ~short /\ ~(Ready(C, gamma) /\ gamma # best)
  <2>1. PICK supported \in SUBSET Supportable(C, F) :
          IF supported # {}
          THEN Warmup(batch, [C EXCEPT !.deferred = FALSE], F, supported)
          ELSE IF gamma # anchor
          THEN ReturnToAnchor(batch, [C EXCEPT !.deferred = TRUE,
                                               !.reval = <<anchor, 0>>], F)
          ELSE HoldModel(batch, [C EXCEPT !.deferred = TRUE])
    BY <1>3, <1>10
  <2>2. CASE supported # {}
    <3>. DEFINE D == [C EXCEPT !.deferred = FALSE]
    <3>1. Founded(batch, D) /\ Extends(D, C) /\ D \in BucketType /\ Alike(D, C)
      BY <1>6
    <3>2. Warmup(batch, D, F, supported)
      BY <2>1, <2>2
    <3>. HIDE DEF D
    <3>3. \A t \in supported : t \in F /\ (~C.seeded => Supported(C, t))
      BY <1>2, SupportableSupported
    <3>4. ~D.seeded => \A t \in supported : Supported(D, t)
      BY <1>2, <3>1, <3>3, AlikeFacts DEF Alike
    <3>5. Kept(batch, D)
      BY <2>2, <3>1, <3>2, <3>3, <3>4, WarmupKeeps
    <3>. QED  BY <1>5, <3>1, <3>5
  <2>3. CASE supported = {} /\ gamma # anchor
    <3>. DEFINE D == [C EXCEPT !.deferred = TRUE, !.reval = <<anchor, 0>>]
    <3>1. Founded(batch, D) /\ Extends(D, C) /\ D \in BucketType
      BY <1>6
    <3>2. ReturnToAnchor(batch, D, F)
      BY <2>1, <2>3
    <3>. HIDE DEF D
    <3>. QED  BY <1>5, <3>1, <3>2, ReturnToAnchorKeeps
  <2>4. CASE supported = {} /\ gamma = anchor
    <3>. DEFINE D == [C EXCEPT !.deferred = TRUE]
    <3>1. Founded(batch, D) /\ Extends(D, C) /\ D \in BucketType
      BY <1>6
    <3>2. HoldModel(batch, D)
      BY <2>1, <2>4
    <3>. HIDE DEF D
    <3>. QED  BY <1>5, <3>1, <3>2, HoldModelKeeps
  <2>. QED  BY <2>2, <2>3, <2>4
<1>. QED  BY <1>7, <1>8, <1>9, <1>10

\* The steady state among launched arms.
LEMMA UcbKeeps ==
  ASSUME NEW batch, NEW B, Founded(batch, B),
         ~B.seeded => \A t \in Feasible[batch] : Supported(B, t),
         Ucb(batch, B, Feasible[batch])
  PROVE  Kept(batch, B)
<1>1. CASE Resides(batch, B)
  BY <1>1, ResidesKeeps
<1>2. CASE Return(batch, Activated(B, gamma), gamma)
  BY <1>2, StayKeeps
<1>3. ASSUME NEW best \in Feasible[batch],
             Return(batch, Activated(B, StepToward(gamma, best, Feasible[batch])),
                    StepToward(gamma, best, Feasible[batch]))
      PROVE  Kept(batch, B)
  BY <1>3, StepKeeps
<1>. QED  BY <1>1, <1>2, <1>3 DEF Ucb

\* Every feasible arm is launched: wait, return, then UCB.
LEMMA SteadyKeeps ==
  ASSUME NEW batch, NEW B, Founded(batch, B), Unlaunched(B, Feasible[batch]) = {},
         Steady(batch, B, Feasible[batch])
  PROVE  Kept(batch, B)
<1>. DEFINE F == Feasible[batch]
            C == [B EXCEPT !.returned = TRUE]
<1>1. /\ B \in BucketType /\ F \in (SUBSET Gammas) \ {{}}
      /\ Nearest[F][Anchor] = Origin /\ Origin \in F
  BY FoundedFacts
<1>2. ~B.seeded => \A t \in F : Supported(B, t)
  BY <1>1, ReadySupported DEF Unlaunched
<1>3. Founded(batch, C) /\ Extends(C, B) /\ C \in BucketType /\ Alike(C, B)
  <2>1. gamma \in Gammas /\ C \in Noted(B, gamma)
    BY FoundedFacts DEF Noted
  <2>. HIDE DEF C
  <2>. QED  BY <2>1, NotesFounded
<1>4. ASSUME Ucb(batch, C, F) PROVE Kept(batch, B)
  <2>. HIDE DEF C
  <2>1. ~C.seeded => \A t \in F : Supported(C, t)
    BY <1>1, <1>2, <1>3, AlikeFacts DEF Alike
  <2>2. Kept(batch, C)
    BY <1>3, <1>4, <2>1, UcbKeeps
  <2>. QED  BY <1>1, <1>3, <2>2, KeptFrom
<1>5. Incumbents(B, F) \subseteq F
  BY <1>1 DEF Incumbents
<1>6. ASSUME NEW incumbent \in F, WarmupReturn(batch, B, F, incumbent)
      PROVE  Kept(batch, B)
  <2>1. LET g == StepToward(gamma, incumbent, F)
        IN  Return(batch, [Activated(B, g) EXCEPT !.returned = (g = incumbent)], g)
    BY <1>6 DEF WarmupReturn
  <2>. QED  BY <1>2, <2>1, StepKeeps
<1>7. CASE Awaited(B, F) # {}
  <2>1. MoveOrWait(batch, B, F, Nearest[F][RoundedMiddle(F)])
    BY <1>7 DEF Steady
  <2>2. Nearest[F][RoundedMiddle(F)] \in F
    BY <1>1, MiddleFeasible
  <2>. QED  BY <1>2, <2>1, <2>2, MoveOrWaitKeeps
<1>8. CASE Awaited(B, F) = {} /\ B.returned
  BY <1>2, <1>8, UcbKeeps DEF Steady
<1>9. CASE Awaited(B, F) = {} /\ ~B.returned
  <2>. HIDE DEF C
  <2>. QED  BY <1>4, <1>5, <1>6, <1>9 DEF Steady, C
<1>. QED  BY <1>7, <1>8, <1>9

\* The window at the current width is over.
LEMMA DecideKeeps ==
  ASSUME NEW batch, NEW B, Founded(batch, B), gamma \in B.launched,
         Decide(batch, B, Feasible[batch])
  PROVE  Kept(batch, B)
<1>. DEFINE F == Feasible[batch]
<1>1. /\ B \in BucketType /\ F \in (SUBSET Gammas) \ {{}} /\ gamma \in F
      /\ Nearest[F][Anchor] = Origin /\ Origin \in F /\ Supported(B, Origin)
      /\ HasInitial /\ Origin \in Nat /\ gamma \in Nat
  BY FoundedFacts, ChainedFacts DEF Founded, Chained
<1>2. ASSUME ~AwaitsAnchor(B, F) PROVE MeasuredArms(B, F) # {}
  <2>1. Ready(B, Origin)
    BY <1>1, <1>2 DEF AwaitsAnchor
  <2>2. CASE B.seeded \/ gamma = Origin
    <3>1. gamma \in MeasuredArms(B, F)
      BY <1>1, <2>1, <2>2 DEF MeasuredArms, Ready
    <3>. QED  BY <3>1
  <2>3. CASE ~B.seeded /\ gamma # Origin
    <3>1. Supported(B, gamma) /\ Between(Origin, gamma, Origin)
      BY <1>1, <2>3 DEF Founded, Between
    <3>2. Measured(B, Origin)
      BY <1>1, <2>3, <3>1 DEF Supported
    <3>3. Origin \in MeasuredArms(B, F)
      BY <1>1, <3>2 DEF MeasuredArms, Measured
    <3>. QED  BY <3>3
  <2>. QED  BY <2>2, <2>3
<1>3. ASSUME ~AwaitsAnchor(B, F),
             IF Unlaunched(B, F) = {} THEN Steady(batch, B, F)
             ELSE IF HasInitial /\ MeasuredArms(B, F) # {} THEN Frontier(batch, B, F)
             ELSE Warmup(batch, B, F, Unlaunched(B, F))
      PROVE  Kept(batch, B)
  <2>1. CASE Unlaunched(B, F) = {}
    BY <1>3, <2>1, SteadyKeeps
  <2>2. CASE Unlaunched(B, F) # {}
    BY <1>1, <1>2, <1>3, <2>2, FrontierKeeps
  <2>. QED  BY <2>1, <2>2
<1>4. ProbeTargets(B, F) \subseteq F
  BY <1>1 DEF ProbeTargets
<1>5. ASSUME NEW target \in ProbeTargets(B, F), ~B.seeded
      PROVE  Supported(B, target)
  BY <1>1, <1>5, ReadySupported DEF ProbeTargets
<1>6. ASSUME NEW target \in ProbeTargets(B, F), MoveOrWait(batch, B, F, target)
      PROVE  Kept(batch, B)
  BY <1>4, <1>5, <1>6, MoveOrWaitKeeps
<1>7. CASE AwaitsAnchor(B, F)
  <2>1. MoveOrWait(batch, B, F, Origin)
    BY <1>1, <1>7 DEF Decide
  <2>. QED  BY <1>1, <2>1, MoveOrWaitKeeps
<1>8. CASE ~AwaitsAnchor(B, F)
  BY <1>1, <1>3, <1>6, <1>8 DEF Decide
<1>. QED  BY <1>7, <1>8

\* The branches of choose after a changed bucket has resumed.
LEMMA ContinueKeeps ==
  ASSUME NEW batch, NEW B, Chained(batch, B),
         ~B.seeded /\ B.boot = None /\ B.wtarget = None => Supported(B, gamma),
         Continue(batch, B, Feasible[batch])
  PROVE  Kept(batch, B)
<1>. DEFINE F == Feasible[batch]
<1>1. /\ batch \in Batches /\ B \in BucketType /\ gamma \in F /\ gamma \in Gammas
      /\ EvidenceKept /\ (~B.seeded => Evidence(B))
  BY ChainedFacts DEF Chained
<1>2. ~BurnsIn(B, F)
  BY <1>1, NoBurnIn
<1>3. CASE ~BurnsIn(B, F) /\ Travels(B.boot, F)
  BY <1>3, TransferKeeps DEF Continue
<1>4. CASE ~BurnsIn(B, F) /\ ~Travels(B.boot, F) /\ Travels(B.wtarget, F)
  <2>. DEFINE C == [B EXCEPT !.boot = None]
  <2>1. WarmupStep(batch, C, F)
    BY <1>4 DEF Continue
  <2>2. C \in BucketType /\ Alike(C, B) /\ C.boot = None /\ C.wtarget = B.wtarget
    BY <1>1 DEF Alike, BucketType
  <2>. HIDE DEF C
  <2>3. Extends(C, B) /\ \A g : Supported(C, g) <=> Supported(B, g)
    BY <1>1, <2>2, AlikeFacts
  <2>4. Chained(batch, C)
    BY <1>1, <2>2, <2>3 DEF Chained, Serving, Evidence, Alike
  <2>5. Kept(batch, C)
    BY <1>4, <2>1, <2>2, <2>4, WarmupStepKeeps
  <2>. QED  BY <1>1, <2>2, <2>3, <2>5, KeptFrom
<1>5. CASE ~BurnsIn(B, F) /\ ~Travels(B.boot, F) /\ ~Travels(B.wtarget, F)
  <2>. DEFINE C == Settled(B)
              L == Launched(C)
  <2>1. /\ C \in BucketType /\ L \in BucketType
    BY <1>1, SettledType
  <2>2. Alike(C, B) /\ C.boot = None /\ C.wtarget = None
    BY <1>1 DEF Settled, Alike, BucketType
  <2>3. IF InWindow(C) THEN Resides(batch, C) ELSE Decide(batch, L, F)
    BY <1>5 DEF Continue
  <2>. HIDE DEF C
  <2>4. Extends(C, B) /\ \A g : Supported(C, g) <=> Supported(B, g)
    BY <1>1, <2>2, AlikeFacts
  <2>5. ~B.seeded => Supported(B, gamma)
    <3>1. CASE B.boot = None /\ B.wtarget = None
      BY <3>1
    <3>2. CASE B.boot # None
      <4>1. B.boot \in Gammas /\ gamma = Nearest[F][B.boot]
        BY <1>1, <1>5, <3>2 DEF Travels, BucketType
      <4>. QED  BY <1>1, <3>2, <4>1, NearestSupported DEF Evidence
    <3>3. CASE B.wtarget # None
      <4>1. B.wtarget \in Gammas /\ gamma = Nearest[F][B.wtarget]
        BY <1>1, <1>5, <3>3 DEF Travels, BucketType
      <4>. QED  BY <1>1, <3>3, <4>1, NearestSupported DEF Evidence
    <3>. QED  BY <3>1, <3>2, <3>3
  <2>6. Founded(batch, C)
    BY <1>1, <2>1, <2>2, <2>4, <2>5 DEF Founded, Chained, Serving, Evidence, Alike
  <2>7. CASE InWindow(C)
    BY <1>1, <2>1, <2>3, <2>4, <2>6, <2>7, ResidesKeeps, KeptFrom
  <2>8. CASE ~InWindow(C)
    <3>1. /\ L.launched = C.launched \cup {gamma} /\ L.obs = C.obs /\ L.seeded = C.seeded
          /\ L.boot = C.boot /\ L.wtarget = C.wtarget
      BY <2>1 DEF Launched, BucketType
    <3>. HIDE DEF L
    <3>2. Extends(L, C)
      BY <2>1, <3>1, BoundFacts DEF Extends, BucketType
    <3>3. \A g : Supported(C, g) => Supported(L, g)
      BY <2>1, <3>2, SupportGrows
    <3>4. ~L.seeded => Evidence(L) /\ Supported(L, gamma)
      BY <2>6, <3>1, <3>3 DEF Founded, Chained, Evidence
    <3>5. Founded(batch, L)
      BY <2>1, <2>6, <3>1, <3>4 DEF Founded, Chained, Serving
    <3>6. Decide(batch, L, F) /\ gamma \in L.launched
      BY <2>3, <2>8, <3>1
    <3>7. Kept(batch, L)
      BY <3>5, <3>6, DecideKeeps
    <3>8. Kept(batch, C)
      BY <2>1, <3>2, <3>7, KeptFrom
    <3>. QED  BY <1>1, <2>1, <2>4, <3>8, KeptFrom
  <2>. QED  BY <2>7, <2>8
<1>. QED  BY <1>2, <1>3, <1>4, <1>5

-----------------------------------------------------------------------------
(* The invariant of the evidence.                                           *)

\* The bucket under a key, new if there is none yet.
Found(bs, k) == IF bs[k] = Absent THEN NewBucket ELSE bs[k]

\* A bucket without a prior keeps its evidence.
BucketsKept == \A k \in Keys : ~Found(buckets, k).seeded => Evidence(Found(buckets, k))

\* The width of a bucket that is served and goes nowhere is supported.
PresentKept ==
  \A k \in Keys :
    LET B == Found(buckets, k)
    IN  active = k /\ ~B.seeded /\ B.boot = None /\ B.wtarget = None => Supported(B, gamma)

\* Before a bucket is served the width is the anchor.
StartKept == active = None => \A b \in Batches : gamma \in Feasible[b] => gamma = Origin

\* A frame whose reward will be recorded ran at a supported width.
FramesKept ==
  \A i \in DOMAIN pipe :
    LET B == Found(buckets, Bucket(pipe[i].batch))
    IN  pipe[i].stable /\ ~B.seeded => Supported(B, pipe[i].gamma)

ChainInv ==
  /\ BucketsKept /\ PresentKept /\ StartKept /\ FramesKept
  /\ last.batch # 0 => last.slots = gamma \/ (Async /\ gamma = NativeGamma)

\* A bucket that is found is well typed, and a lookup that seeds nothing finds it.
LEMMA FoundFacts ==
  ASSUME BucketsType, NEW k \in Keys
  PROVE  /\ Found(buckets, k) \in BucketType
         /\ \A B \in Opened(k) : B \in BucketType /\ (~B.seeded => B = Found(buckets, k))
<1>1. NewBucket \in BucketType
  BY BoundFacts DEF NewBucket, BucketType
<1>2. Found(buckets, k) \in BucketType
  BY <1>1 DEF Found, BucketsType
<1>3. \A t : Seeded(Found(buckets, k), buckets[2 * k], t).seeded = TRUE
  BY <1>2 DEF Seeded, BucketType
<1>4. \A B \in Opened(k) : \/ B = Found(buckets, k)
                           \/ \E t : B = Seeded(Found(buckets, k), buckets[2 * k], t)
  BY DEF Opened, Found
<1>. QED  BY <1>2, <1>3, <1>4, OpenedType

\* Arms and rewards added to one bucket take no evidence from any.
LEMMA Advance ==
  ASSUME BucketsType, NEW k \in Keys, NEW B \in Opened(k), NEW C \in BucketType,
         Extends(C, B), buckets' = [buckets EXCEPT ![k] = C]
  PROVE  /\ Found(buckets', k) = C
         /\ \A j \in Keys : j # k => Found(buckets', j) = Found(buckets, j)
         /\ ~C.seeded => B = Found(buckets, k)
         /\ \A j \in Keys :
              ~Found(buckets', j).seeded =>
                /\ ~Found(buckets, j).seeded
                /\ \A g : Supported(Found(buckets, j), g) => Supported(Found(buckets', j), g)
<1>1. C # Absent
  BY BucketPresent
<1>2. Found(buckets', k) = C
  BY <1>1 DEF Found, BucketsType
<1>3. \A j \in Keys : j # k => Found(buckets', j) = Found(buckets, j)
  BY DEF Found, BucketsType
<1>4. B \in BucketType /\ (~C.seeded => ~B.seeded /\ B = Found(buckets, k))
  BY FoundFacts DEF Extends
<1>5. \A g : Supported(B, g) => Supported(C, g)
  BY <1>4, SupportGrows
<1>. QED  BY <1>2, <1>3, <1>4, <1>5

\* A new scheduler has no evidence and needs none.
LEMMA InitChained ==
  ASSUME HasInitial, EvidenceKept, Init
  PROVE  ChainInv
<1>1. \A k \in Keys : Found(buckets, k) = NewBucket
  BY DEF Init, CtlInit, Found
<1>2. Evidence(NewBucket)
  BY DEF Evidence, NewBucket
<1>3. \A k \in Keys : k # active
  BY KeyIsNat DEF Keys, Init, CtlInit, None
<1>4. ASSUME NEW b \in Batches, gamma \in Feasible[b] PROVE gamma = Origin
  <2>1. gamma = Anchor
    BY DEF Init, CtlInit
  <2>2. Feasible[b] \in (SUBSET Gammas) \ {{}}
    BY FeasibleFacts
  <2>3. Nearest[Feasible[b]][gamma] = gamma
    BY <1>4, <2>2, NearestItself
  <2>. QED  BY <2>1, <2>3, OriginFacts
<1>5. pipe = <<>> /\ last.batch = 0
  BY DEF Init
<1>. QED  BY <1>1, <1>2, <1>3, <1>4, <1>5
          DEF ChainInv, BucketsKept, PresentKept, StartKept, FramesKept

\* The bucket choose finds is one whose evidence is kept, and so is the decision.
LEMMA ChooseKeeps ==
  ASSUME HasInitial, EvidenceKept, FitInv, ChainInv, NEW batch \in Batches, Choose(batch),
         gamma \in Feasible[batch]
  PROVE  \E B \in Opened(Bucket(batch)) : Kept(batch, B)
<1>. DEFINE F == Feasible[batch]
            k == Bucket(batch)
<1>1. PICK B \in Opened(k) :
        IF active \notin {None, k} /\ HasInitial
        THEN \E target \in ResumeTargets(B, F) :
               IF gamma # target THEN Resume(batch, B, F, target)
               ELSE Continue(batch, B, F)
        ELSE Continue(batch, B, F)
  BY DEF Choose
<1>2. /\ k \in Keys /\ BucketsType /\ active \in Keys \cup {None}
      /\ Origin \in Nat
  BY FeasibleFacts, OriginFacts DEF FitInv, TypeOK, BucketsType
<1>3. B \in BucketType /\ (~B.seeded => B = Found(buckets, k))
  BY <1>2, FoundFacts
<1>4. Chained(batch, B)
  BY <1>2, <1>3 DEF Chained, Serving, ChainInv, BucketsKept
<1>. HIDE DEF k, F
<1>5. CASE active \notin {None, k}
  <2>1. PICK target \in ResumeTargets(B, F) :
          IF gamma # target THEN Resume(batch, B, F, target)
          ELSE Continue(batch, B, F)
    BY <1>1, <1>5
  <2>2. CASE gamma # target
    BY <1>4, <2>1, <2>2, ResumeKeeps DEF F, k
  <2>3. CASE gamma = target
    <3>1. ~B.seeded => Supported(B, gamma)
      BY <1>4, <2>1, <2>3, TargetSupported DEF F
    <3>. QED  BY <1>4, <2>1, <2>3, <3>1, ContinueKeeps DEF F, k
  <2>. QED  BY <2>2, <2>3
<1>6. CASE active \in {None, k}
  <2>1. Continue(batch, B, F)
    BY <1>1, <1>6
  <2>2. CASE active = None
    <3>1. gamma = Origin
      BY <2>2 DEF ChainInv, StartKept
    <3>2. Supported(B, gamma)
      BY <1>2, <3>1, OriginSupported
    <3>. QED  BY <1>4, <2>1, <3>2, ContinueKeeps DEF F, k
  <2>3. CASE active = k
    <3>1. ~B.seeded /\ B.boot = None /\ B.wtarget = None => Supported(B, gamma)
      BY <1>2, <1>3, <2>3 DEF ChainInv, PresentKept
    <3>. QED  BY <1>4, <2>1, <3>1, ContinueKeeps DEF F, k
  <2>. QED  BY <1>6, <2>2, <2>3
<1>. QED  BY <1>5, <1>6

\* A decision keeps the evidence of the buckets, and the width it takes from the
\* present one or the anchor is supported.
LEMMA ChoiceChained ==
  ASSUME HasInitial, EvidenceKept, FitInv, ChainInv, NEW batch \in Batches, Choose(batch)
  PROVE  /\ BucketsKept' /\ PresentKept' /\ StartKept'
         /\ \A j \in Keys :
              ~Found(buckets', j).seeded =>
                /\ ~Found(buckets, j).seeded
                /\ \A g : Supported(Found(buckets, j), g) => Supported(Found(buckets', j), g)
         /\ gamma \in {gamma', Anchor} /\ ~Found(buckets', Bucket(batch)).seeded
              => Supported(Found(buckets', Bucket(batch)), gamma')
<1>. DEFINE k == Bucket(batch)
<1>1. /\ k \in Keys /\ BucketsType /\ gamma \in Gammas /\ Origin \in Nat /\ k \in Nat
  BY FeasibleFacts, OriginFacts, KeyIsNat DEF FitInv, TypeOK, BucketsType
<1>. HIDE DEF k
<1>2. \E B \in Opened(k), C \in BucketType :
        /\ Extends(C, B) /\ buckets' = [buckets EXCEPT ![k] = C]
        /\ ~C.seeded => Evidence(C)
        /\ ~C.seeded /\ C.boot = None /\ C.wtarget = None => Supported(C, gamma')
        /\ ~C.seeded /\ gamma \in {gamma', Anchor} => Supported(C, gamma')
        /\ (gamma' = Origin /\ active' = active) \/ active' = k
  <2>1. CASE gamma \notin Feasible[batch]
    <3>1. ForceWidth(Max(Feasible[batch]), batch)
      BY <2>1 DEF Choose
    <3>2. gamma' = Origin /\ active' = active
      <4>1. Feasible[batch] # Gammas
        BY <1>1, <2>1
      <4>. QED  BY <3>1, <4>1, OriginFacts DEF ForceWidth, EvidenceKept, AnchorOf
    <3>3. PICK B \in Opened(k) : buckets' = [buckets EXCEPT ![k] = B]
      BY <3>1 DEF ForceWidth, k
    <3>4. B \in BucketType /\ (~B.seeded => B = Found(buckets, k))
      BY <1>1, FoundFacts
    <3>5. Extends(B, B)
      BY <3>4, BoundFacts DEF Extends, BucketType
    <3>6. Supported(B, gamma')
      BY <1>1, <3>2, OriginSupported
    <3>7. ~B.seeded => Evidence(B)
      BY <1>1, <3>4 DEF ChainInv, BucketsKept
    <3>. QED  BY <3>2, <3>3, <3>4, <3>5, <3>6, <3>7
  <2>2. CASE gamma \in Feasible[batch]
    <3>1. PICK B \in Opened(k) : Kept(batch, B)
      BY <2>2, ChooseKeeps DEF k
    <3>2. PICK C \in BucketType :
            /\ Return(batch, C, gamma')
            /\ Extends(C, B)
            /\ ~C.seeded => /\ Evidence(C)
                            /\ C.boot = None /\ C.wtarget = None => Supported(C, gamma')
                            /\ gamma \in {gamma', Origin} => Supported(C, gamma')
      BY <3>1 DEF Kept
    <3>3. active' = k /\ buckets' = [buckets EXCEPT ![k] = C]
      BY <3>2 DEF Return, k
    <3>4. gamma = Anchor => gamma = Origin
      BY <2>2, FeasibleFacts, NearestItself, OriginFacts
    <3>. QED  BY <3>2, <3>3, <3>4
  <2>. QED  BY <2>1, <2>2
<1>3. PICK B \in Opened(k), C \in BucketType :
        /\ Extends(C, B) /\ buckets' = [buckets EXCEPT ![k] = C]
        /\ ~C.seeded => Evidence(C)
        /\ ~C.seeded /\ C.boot = None /\ C.wtarget = None => Supported(C, gamma')
        /\ ~C.seeded /\ gamma \in {gamma', Anchor} => Supported(C, gamma')
        /\ (gamma' = Origin /\ active' = active) \/ active' = k
  BY <1>2
<1>4. /\ Found(buckets', k) = C
      /\ \A j \in Keys : j # k => Found(buckets', j) = Found(buckets, j)
      /\ \A j \in Keys :
           ~Found(buckets', j).seeded =>
             /\ ~Found(buckets, j).seeded
             /\ \A g : Supported(Found(buckets, j), g) => Supported(Found(buckets', j), g)
  BY <1>1, <1>3, Advance
<1>5. BucketsKept'
  BY <1>3, <1>4 DEF ChainInv, BucketsKept
<1>6. PresentKept'
  <2>. SUFFICES ASSUME NEW j \in Keys, active' = j, ~Found(buckets', j).seeded,
                       Found(buckets', j).boot = None, Found(buckets', j).wtarget = None
                PROVE  Supported(Found(buckets', j), gamma')
    BY DEF PresentKept
  <2>1. CASE gamma' = Origin
    BY <1>1, <2>1, OriginSupported
  <2>2. CASE active' = k
    BY <1>3, <1>4, <2>2
  <2>. QED  BY <1>3, <2>1, <2>2
<1>7. StartKept'
  BY <1>1, <1>3 DEF StartKept, None
<1>. QED  BY <1>3, <1>4, <1>5, <1>6, <1>7 DEF k

\* A frame scheduled after a decision keeps the evidence where its reward is not
\* recorded, or it takes its width from the present one or the anchor.
LEMMA DispatchChained ==
  ASSUME HasInitial, EvidenceKept, FitInv, ChainInv, NEW batch \in Batches, Choose(batch),
         NEW f, f \in Frames, pipe' = Append(pipe, f), f.gamma = gamma',
         f.stable => f.batch = batch /\ gamma \in {gamma', Anchor}
  PROVE  FramesKept'
<1>. SUFFICES ASSUME NEW i \in DOMAIN pipe', pipe'[i].stable,
                     ~Found(buckets', Bucket(pipe'[i].batch)).seeded
              PROVE  Supported(Found(buckets', Bucket(pipe'[i].batch)), pipe'[i].gamma)
  BY DEF FramesKept
<1>1. pipe \in Seq(Frames)
  BY DEF FitInv, TypeOK
<1>2. CASE i \in DOMAIN pipe
  <2>1. pipe'[i] = pipe[i] /\ pipe[i] \in Frames
    BY <1>1, <1>2
  <2>2. Bucket(pipe[i].batch) \in Keys
    BY <2>1, FeasibleFacts DEF Frames
  <2>. QED  BY <1>2, <2>1, <2>2, ChoiceChained DEF ChainInv, FramesKept
<1>3. CASE i \notin DOMAIN pipe
  <2>1. pipe'[i] = f
    BY <1>1, <1>3
  <2>. QED  BY <2>1, ChoiceChained
<1>. QED  BY <1>2, <1>3

\* The reward of a preselected frame is not recorded: its rows verify no drafts.
LEMMA PreselectedChained ==
  ASSUME HasInitial, EvidenceKept, FitInv, ChainInv, NEW anticipated \in Batches,
         SchedulePreselected(anticipated)
  PROVE  ChainInv'
<1>1. /\ Choose(anticipated) /\ asked' = anticipated
      /\ gamma' \in Gammas /\ gamma' # 0
  BY DecidedFacts, CandidateFacts DEF SchedulePreselected, EvidenceKept, Gammas
<1>2. BucketsKept' /\ PresentKept' /\ StartKept'
  BY <1>1, ChoiceChained
<1>3. CASE \E batch \in Batches, new \in BOOLEAN :
             batch <= anticipated /\ Dispatch(batch, new, {0}, gamma')
  <2>1. PICK batch \in Batches, new \in BOOLEAN : Dispatch(batch, new, {0}, gamma')
    BY <1>3
  <2>. DEFINE f == [gamma |-> gamma', batch |-> batch, decided |-> asked',
                    stable |-> ~new /\ {0} = {gamma'}]
  <2>2. (~new /\ {0} = {gamma'}) = FALSE
    BY <1>1
  <2>3. f \in Frames /\ f.gamma = gamma' /\ ~f.stable
    BY <1>1, <2>2 DEF Frames
  <2>4. pipe' = Append(pipe, f) /\ last'.slots = gamma'
    BY <2>1 DEF Dispatch, NextSlots
  <2>. HIDE DEF f
  <2>5. FramesKept'
    BY <1>1, <2>3, <2>4, DispatchChained
  <2>. QED  BY <1>2, <2>4, <2>5 DEF ChainInv
<1>4. CASE UNCHANGED pipe /\ last' = [last EXCEPT !.batch = 0]
  <2>1. ASSUME NEW i \in DOMAIN pipe PROVE Bucket(pipe[i].batch) \in Keys
    <3>1. pipe[i] \in Frames
      BY DEF FitInv, TypeOK
    <3>. QED  BY <3>1, FeasibleFacts DEF Frames
  <2>2. FramesKept'
    BY <1>1, <1>4, <2>1, ChoiceChained DEF ChainInv, FramesKept
  <2>3. last'.batch = 0
    BY <1>4 DEF FitInv, TypeOK
  <2>. QED  BY <1>2, <2>2, <2>3 DEF ChainInv
<1>. QED  BY <1>3, <1>4 DEF SchedulePreselected

\* The reward of a frame of a running engine is recorded where its rows verify the
\* drafts it proposes: those of the present width, or any number where that one is
\* the native width and a host that schedules ahead left its placeholders alone.
LEMMA ChosenChained ==
  ASSUME HasInitial, EvidenceKept, FitInv, ChainInv, NEW batch \in Batches,
         NEW joins \in BOOLEAN, NEW new \in BOOLEAN, ScheduleChosen(batch, joins, new)
  PROVE  ChainInv'
<1>1. /\ Choose(batch) /\ asked' = batch /\ gamma' \in Gammas /\ gamma' # 0
  BY DecidedFacts, CandidateFacts DEF ScheduleChosen, EvidenceKept, Gammas
<1>2. BucketsKept' /\ PresentKept' /\ StartKept'
  BY <1>1, ChoiceChained
<1>3. PICK rows \in Verified(joins) : Dispatch(batch, new, rows, gamma) /\ last.batch # 0
  BY DEF ScheduleChosen, DispatchRunning
<1>. DEFINE f == [gamma |-> gamma', batch |-> batch, decided |-> asked',
                  stable |-> ~new /\ rows = {gamma'}]
<1>4. (~new /\ rows = {gamma'}) \in BOOLEAN
  OBVIOUS
<1>5. f \in Frames /\ f.gamma = gamma' /\ f.batch = batch
  BY <1>1, <1>4 DEF Frames
<1>6. f.stable => gamma \in {gamma', Anchor}
  <2>1. f.stable => last.slots = gamma'
    BY <1>1, <1>3 DEF Verified
  <2>2. NativeGamma = Anchor
    BY DEF NativeGamma, Anchor
  <2>. QED  BY <1>3, <2>1, <2>2 DEF ChainInv
<1>7. pipe' = Append(pipe, f) /\ last'.slots = NextSlots(gamma, gamma')
  BY <1>3 DEF Dispatch
<1>. HIDE DEF f
<1>8. FramesKept'
  BY <1>1, <1>5, <1>6, <1>7, DispatchChained
<1>. QED  BY <1>2, <1>7, <1>8 DEF ChainInv, NextSlots

\* Nothing is held.
LEMMA HeldNever ==
  ASSUME EvidenceKept, FitInv, NEW batch, NEW joins, NEW new
  PROVE  ~ScheduleHeld(batch, joins, new)
BY DEF EvidenceKept, FitInv, TypeOK, ScheduleHeld

\* A reward adds evidence.
LEMMA RecordedKeeps ==
  ASSUME NEW B \in BucketType, NEW g \in Gammas
  PROVE  LET C == Recorded(B, g)
         IN  /\ C \in BucketType /\ Extends(C, B)
             /\ C.boot = B.boot /\ C.wtarget = B.wtarget
             /\ Evidence(B) /\ Supported(B, g) => Evidence(C)
<1>. DEFINE C == Recorded(B, g)
<1>1. C \in BucketType
  BY RecordedType
<1>2. /\ C.launched = B.launched /\ C.seeded = B.seeded
      /\ C.boot = B.boot /\ C.wtarget = B.wtarget
      /\ C.obs = [B.obs EXCEPT ![g] = Sat(@, ObsBound)]
  BY DEF Recorded, BucketType
<1>3. \A h \in Gammas : B.obs[h] \in 0 .. ObsBound
  BY DEF BucketType
<1>4. \A h \in Gammas : h # g => C.obs[h] = B.obs[h]
  BY <1>2 DEF BucketType
<1>5. B.obs[g] <= C.obs[g]
  BY <1>2, <1>3, BoundFacts DEF Sat, BucketType
<1>. HIDE DEF C
<1>6. Extends(C, B)
  BY <1>2, <1>3, <1>4, <1>5, BoundFacts DEF Extends
<1>7. ASSUME Evidence(B), Supported(B, g) PROVE Evidence(C)
  <2>1. \A h : Supported(B, h) => Supported(C, h)
    BY <1>1, <1>6, SupportGrows
  <2>2. ASSUME NEW h \in Gammas, h \in C.launched \/ C.obs[h] > 0 PROVE Supported(B, h)
    BY <1>2, <1>4, <1>7, <2>2 DEF Evidence
  <2>. QED  BY <1>2, <1>7, <2>1, <2>2 DEF Evidence
<1>. QED  BY <1>1, <1>2, <1>6, <1>7 DEF C

\* adaptive_update_from_output keeps the evidence.
LEMMA FeedbackChained ==
  ASSUME HasInitial, EvidenceKept, FitInv, ChainInv, Feedback
  PROVE  ChainInv'
<1>. DEFINE f == Head(pipe)
            k == Bucket(f.batch)
<1>1. pipe \in Seq(Frames) /\ pipe # <<>> /\ pipe' = Tail(pipe) /\ last' = last
  BY DEF Feedback, FitInv, TypeOK
<1>2. f \in Frames /\ f = pipe[1] /\ 1 \in DOMAIN pipe
  BY <1>1
<1>3. f.gamma \in Gammas /\ f.batch \in Batches /\ k \in Keys /\ BucketsType
  BY <1>2, FeasibleFacts DEF Frames, FitInv, TypeOK, BucketsType
<1>4. gamma' = gamma /\ active' = active
  BY DEF Feedback, CompleteStep, DiscardStep
<1>5. ASSUME NEW i \in DOMAIN pipe'
      PROVE  /\ i + 1 \in DOMAIN pipe /\ pipe'[i] = pipe[i + 1]
             /\ Bucket(pipe'[i].batch) \in Keys
  <2>1. i + 1 \in DOMAIN pipe /\ pipe'[i] = pipe[i + 1] /\ pipe[i + 1] \in Frames
    BY <1>1
  <2>. QED  BY <2>1, FeasibleFacts DEF Frames
<1>6. CASE buckets' = buckets
  <2>1. \A j : Found(buckets', j) = Found(buckets, j)
    BY <1>6 DEF Found
  <2>2. BucketsKept' /\ PresentKept' /\ StartKept'
    BY <1>4, <2>1 DEF ChainInv, BucketsKept, PresentKept, StartKept
  <2>3. FramesKept'
    BY <1>5, <2>1 DEF ChainInv, FramesKept
  <2>. QED  BY <1>1, <1>4, <2>2, <2>3 DEF ChainInv
<1>7. CASE buckets' # buckets
  <2>1. /\ f.stable
        /\ \E B \in Opened(k) : buckets' = [buckets EXCEPT ![k] = Recorded(B, f.gamma)]
    BY <1>7 DEF Feedback, CompleteStep, DiscardStep
  <2>2. PICK B \in Opened(k) : buckets' = [buckets EXCEPT ![k] = Recorded(B, f.gamma)]
    BY <2>1
  <2>. DEFINE C == Recorded(B, f.gamma)
  <2>3. B \in BucketType /\ (~B.seeded => B = Found(buckets, k))
    BY <1>3, FoundFacts
  <2>4. /\ C \in BucketType /\ Extends(C, B)
        /\ C.boot = B.boot /\ C.wtarget = B.wtarget
        /\ Evidence(B) /\ Supported(B, f.gamma) => Evidence(C)
    BY <1>3, <2>3, RecordedKeeps
  <2>. HIDE DEF C, k
  <2>5. /\ Found(buckets', k) = C
        /\ \A j \in Keys : j # k => Found(buckets', j) = Found(buckets, j)
        /\ ~C.seeded => B = Found(buckets, k)
        /\ \A j \in Keys :
             ~Found(buckets', j).seeded =>
               /\ ~Found(buckets, j).seeded
               /\ \A g : Supported(Found(buckets, j), g) => Supported(Found(buckets', j), g)
    BY <1>3, <2>2, <2>4, Advance DEF C
  <2>6. ~C.seeded => Evidence(C)
    <3>1. ASSUME ~C.seeded PROVE Evidence(B) /\ Supported(B, f.gamma)
      <4>1. ~B.seeded /\ B = Found(buckets, k)
        BY <2>4, <2>5, <3>1 DEF Extends
      <4>2. Supported(Found(buckets, k), f.gamma)
        BY <1>2, <2>1, <4>1 DEF ChainInv, FramesKept, k
      <4>. QED  BY <1>3, <4>1, <4>2 DEF ChainInv, BucketsKept
    <3>. QED  BY <2>4, <3>1
  <2>7. BucketsKept'
    <3>. SUFFICES ASSUME NEW j \in Keys, ~Found(buckets', j).seeded
                  PROVE  Evidence(Found(buckets', j))
      BY DEF BucketsKept
    <3>1. CASE j = k
      BY <2>5, <2>6, <3>1
    <3>2. CASE j # k
      BY <2>5, <3>2 DEF ChainInv, BucketsKept
    <3>. QED  BY <3>1, <3>2
  <2>8. PresentKept'
    <3>. SUFFICES ASSUME NEW j \in Keys, active = j, ~Found(buckets', j).seeded,
                         Found(buckets', j).boot = None, Found(buckets', j).wtarget = None
                  PROVE  Supported(Found(buckets', j), gamma)
      BY <1>4 DEF PresentKept
    <3>1. ~Found(buckets, j).seeded /\ Found(buckets, j).boot = None
          /\ Found(buckets, j).wtarget = None
      <4>1. CASE j = k
        BY <2>3, <2>4, <2>5, <4>1
      <4>2. CASE j # k
        BY <2>5, <4>2
      <4>. QED  BY <4>1, <4>2
    <3>2. Supported(Found(buckets, j), gamma)
      BY <3>1 DEF ChainInv, PresentKept
    <3>. QED  BY <2>5, <3>2
  <2>9. StartKept'
    BY <1>4 DEF ChainInv, StartKept
  <2>10. FramesKept'
    BY <1>5, <2>5 DEF ChainInv, FramesKept
  <2>. QED  BY <1>1, <1>4, <2>7, <2>8, <2>9, <2>10 DEF ChainInv
<1>. QED  BY <1>6, <1>7

\* A step that changes nothing keeps the evidence.
LEMMA StutterChained ==
  ASSUME ChainInv, UNCHANGED vars
  PROVE  ChainInv'
BY DEF ChainInv, BucketsKept, PresentKept, StartKept, FramesKept, Found, vars, ctlVars

\* The arms a bucket has launched reach out from the anchor with no gap.
LEMMA ChainHolds ==
  ASSUME EvidenceKept, FitInv, HasInitial => ChainInv
  PROVE  EvidenceChain
<1>1. ASSUME HasInitial, NEW b \in Batches, buckets[Bucket(b)] # Absent,
             ~buckets[Bucket(b)].seeded, NEW g \in buckets[Bucket(b)].launched \ {Origin}
      PROVE  /\ Boundary(g, Origin) \in buckets[Bucket(b)].launched
             /\ Ready(buckets[Bucket(b)], Boundary(g, Origin))
  <2>. DEFINE B == buckets[Bucket(b)]
  <2>1. Bucket(b) \in Keys /\ Origin \in Gammas
    BY FeasibleFacts, OriginFacts
  <2>2. B \in BucketType /\ B = Found(buckets, Bucket(b))
    BY <1>1, <2>1 DEF Found, FitInv, TypeOK
  <2>3. Evidence(B)
    BY <1>1, <2>1, <2>2 DEF ChainInv, BucketsKept
  <2>4. g \in Gammas \ {Origin} /\ g \in B.launched
    BY <1>1, <2>2 DEF BucketType
  <2>. HIDE DEF B
  <2>5. Supported(B, g)
    BY <2>3, <2>4 DEF Evidence
  <2>6. Measured(B, Boundary(g, Origin))
    BY <2>1, <2>4, <2>5, BoundaryFacts DEF Supported
  <2>. QED  BY <2>6 DEF Measured, B
<1>2. \A b \in Batches : Nearest[Feasible[b]][Anchor] = Origin
  BY OriginFacts
<1>. QED  BY <1>1, <1>2 DEF EvidenceChain

\* In every bucket that inherited no prior, the launched arms reach out from the
\* anchor with no gap, and each has the rewards of a warmup before the next one is
\* launched, whatever batches come, in whatever order the rewards arrive.
THEOREM EvidenceHolds ==
  ASSUME EvidenceKept
  PROVE  Spec => []EvidenceChain
<1>1. Init => (HasInitial => ChainInv)
  BY InitChained
<1>2. FitInv /\ (HasInitial => ChainInv) /\ [Next]_vars => (HasInitial => ChainInv)'
  BY PreselectedChained, ChosenChained, HeldNever, FeedbackChained, StutterChained
     DEF Next, HasInitial, Initial
<1>3. FitInv /\ (HasInitial => ChainInv) => EvidenceChain
  BY ChainHolds
<1>. QED  BY <1>1, <1>2, <1>3, InvariantHolds, PTL DEF Spec

=============================================================================
