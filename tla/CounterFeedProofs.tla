------------------------- MODULE CounterFeedProofs --------------------------
(***************************************************************************)
(* Proofs about CounterFeed, for any width of the counter and of the       *)
(* machine word: what a derived delta says of the device.                  *)
(***************************************************************************)
EXTENDS CounterFeed, TLAPS

(***************************************************************************)
(* The inductive invariant.                                                *)
(***************************************************************************)
Samples ==
  [scope : {"scope"}, generation : {"generation"}, sequence : Nat, gap_epoch : Nat,
   observed_at : Nat, raw : 0..CounterRange(Width), width : {Width}, reset : BOOLEAN]
Marks == [total : Nat, hidden : Nat]

DeviceOK ==
  /\ total \in Nat /\ register \in 0..CounterRange(Width) /\ hidden \in Nat
  /\ declare \in BOOLEAN /\ clock \in Nat
  /\ revision \in Nat /\ lastSeq \in Nat /\ gapCount \in Nat

SamplesOK == continuity \in Seq(Samples) /\ Len(continuity) <= 2

\* What was true at a sample is not ahead of what is true now.
Past(mark) == mark.total <= total /\ mark.hidden <= hidden

TruthOK ==
  /\ truth \in Seq(Marks) /\ Len(truth) = Len(continuity)
  /\ \A i \in 1..Len(truth) : Past(truth[i])

FeedOK == DeviceOK /\ SamplesOK /\ TruthOK

\* A register that was at raw and counted n without a restart: it is where it
\* should be, or has wrapped once, or n is a full turn at least.
Turned(raw, n, reg) ==
  \/ raw + n = reg
  \/ raw + n = reg + 2^Width
  \/ n >= 2^Width

\* What the register can be, seen from a sample and what was true at it.
Since(sample, mark) ==
  /\ register <= sample.raw + (total - mark.total)
  /\ ~declare /\ hidden = mark.hidden => Turned(sample.raw, total - mark.total, register)

RegisterInv ==
  Len(continuity) > 0 => Since(continuity[Len(continuity)], truth[Len(continuity)])

\* The same of the newest sample, seen from the one before.
PairInv ==
  Len(continuity) = 2 =>
    /\ truth[1].total <= truth[2].total
    /\ continuity[2].raw <= continuity[1].raw + Counted
    /\ ~continuity[2].reset /\ ~HiddenRestart =>
         Turned(continuity[1].raw, Counted, continuity[2].raw)

\* What observe_counter reported is about the retained pair.
OutcomeInv ==
  Len(continuity) = 2 => outcome = ContinuityOutcome(<<continuity[1]>>, continuity[2])

FeedInv == FeedOK /\ RegisterInv /\ PairInv /\ OutcomeInv

(***************************************************************************)
(* The width.                                                              *)
(***************************************************************************)
\* The register has 2^Width values, a multiple of four, and the threshold for a
\* wrap is three quarters of them.
LEMMA WidthFacts ==
  /\ 2^Width \in Nat /\ 2^Width >= 4 /\ CounterRange(Width) = 2^Width - 1
  /\ 4 * WrapDetectionThreshold(Width) = 3 * 2^Width
<1>1. Width \in 2..MachineBits /\ MachineBits \in Nat /\ Width \in Nat
  BY FeedAssumption, CounterWidthAssumption
<1>2. /\ 2^Width = 2 * 2^(Width - 1) /\ 2^Width \in Nat
      /\ 2^(Width - 1) = 2 * 2^((Width - 1) - 1) /\ 2^((Width - 1) - 1) \in Nat \ {0}
      /\ 2^(Width - 1) \in Nat
  BY <1>1, PowersOfTwo
<1>3. (Width - 1) - 1 = Width - 2
  BY <1>1
<1>4. 2^Width = 4 * 2^(Width - 2) /\ 2^(Width - 2) \in Nat \ {0}
  BY <1>2, <1>3
<1>5. QED
  BY <1>2, <1>4 DEF CounterRange, WrapDetectionThreshold

\* Counting once more.
LEMMA TurnedStep ==
  ASSUME NEW raw \in 0..CounterRange(Width), NEW n \in Nat, NEW reg \in 0..CounterRange(Width),
         Turned(raw, n, reg), NEW k \in 1..2^Width
  PROVE  Turned(raw, n + k, (reg + k) % 2^Width)
<1> DEFINE M == 2^Width
<1>1. M \in Nat /\ M >= 4 /\ raw \in 0..(M - 1) /\ reg \in 0..(M - 1)
  BY WidthFacts
<1> HIDE DEF M
<1>2. (reg + k) % M = reg + k \/ (reg + k) % M = reg + k - M
  BY <1>1 DEF M
<1>3. QED
  BY <1>1, <1>2 DEF Turned, M

\* The retained samples, one by one.
LEMMA Retained ==
  ASSUME FeedOK
  PROVE  /\ Len(continuity) \in 0..2 /\ Len(truth) = Len(continuity)
         /\ Len(continuity) = 0 => continuity = <<>> /\ truth = <<>>
         /\ Len(continuity) # 0 => continuity # <<>> /\ truth # <<>>
         /\ \A i \in 1..Len(continuity) :
              continuity[i] \in Samples /\ truth[i] \in Marks /\ Past(truth[i])
<1>1. continuity \in Seq(Samples) /\ Len(continuity) <= 2
  BY DEF FeedOK, SamplesOK
<1>2. truth \in Seq(Marks) /\ Len(truth) = Len(continuity) /\ \A i \in 1..Len(truth) : Past(truth[i])
  BY DEF FeedOK, TruthOK
<1>3. Len(continuity) \in 0..2 /\ \A i \in 1..Len(continuity) : continuity[i] \in Samples
  <2>1. PICK S : S = Samples
    OBVIOUS
  <2>2. continuity \in Seq(S)
    BY <1>1, <2>1
  <2>3. Len(continuity) \in Nat /\ \A i \in 1..Len(continuity) : continuity[i] \in S
    BY <2>2
  <2>4. Len(continuity) \in 0..2
    <3>1. ASSUME NEW n \in Nat, n <= 2 PROVE n \in 0..2
      BY <3>1
    <3>2. QED
      BY <1>1, <2>3, <3>1
  <2>5. QED
    BY <2>1, <2>3, <2>4
<1>4. \A i \in 1..Len(continuity) : truth[i] \in Marks
  BY <1>2
<1>5. /\ Len(continuity) = 0 => continuity = <<>> /\ truth = <<>>
      /\ Len(continuity) # 0 => continuity # <<>> /\ truth # <<>>
  BY <1>1, <1>2
<1>6. QED
  BY <1>2, <1>3, <1>4, <1>5

\* What their fields are.
LEMMA Fields ==
  ASSUME NEW s \in Samples, NEW t \in Marks
  PROVE  /\ s.raw \in 0..(2^Width - 1) /\ s.raw \in Nat /\ s.width = Width /\ s.reset \in BOOLEAN
         /\ s.scope = "scope" /\ s.generation = "generation"
         /\ t.total \in Nat /\ t.hidden \in Nat
BY WidthFacts DEF Samples, Marks

(***************************************************************************)
(* The steps.                                                              *)
(***************************************************************************)
\* The device counts or restarts.
LEMMA DeviceStep ==
  ASSUME FeedInv, (\E n \in 1..2^Width : Count(n)) \/ \E told \in BOOLEAN : DeviceRestart(told)
  PROVE  FeedInv'
<1> USE DEF deviceVars, streamVars, trackerVars
<1>1. FeedOK /\ DeviceOK /\ SamplesOK /\ TruthOK /\ RegisterInv /\ PairInv /\ OutcomeInv
  BY DEF FeedInv, FeedOK
<1>2. /\ total \in Nat /\ register \in 0..(2^Width - 1) /\ hidden \in Nat /\ declare \in BOOLEAN
      /\ 2^Width \in Nat /\ 2^Width >= 4 /\ CounterRange(Width) = 2^Width - 1
  BY <1>1, WidthFacts DEF DeviceOK
<1>3. UNCHANGED <<clock, revision, lastSeq, gapCount, continuity, outcome, truth>>
  BY DEF Count, DeviceRestart
<1>4. PairInv' /\ OutcomeInv'
  BY <1>1, <1>3 DEF PairInv, OutcomeInv, Counted, HiddenRestart
<1>5. ASSUME total' \in Nat, register' \in 0..(2^Width - 1), hidden' \in Nat, declare' \in BOOLEAN,
             total <= total', hidden <= hidden',
             \A s \in Samples, t \in Marks : Past(t) /\ Since(s, t) => Since(s, t)'
      PROVE  FeedInv'
  <2>1. DeviceOK'
    BY <1>1, <1>2, <1>3, <1>5 DEF DeviceOK
  <2>2. \A i \in 1..Len(continuity) : Past(truth[i])'
    <3>1. ASSUME NEW t \in Marks, Past(t) PROVE Past(t)'
      BY <1>2, <1>5, <3>1 DEF Past, Marks
    <3>2. ASSUME NEW i \in 1..Len(continuity) PROVE Past(truth[i])'
      <4>1. PICK t : t = truth[i]
        OBVIOUS
      <4>2. Past(t)'
        BY <1>1, <3>1, <3>2, <4>1, Retained
      <4>3. QED
        BY <1>3, <4>1, <4>2 DEF Past
    <3>3. QED
      BY <3>2
  <2>3. TruthOK' /\ SamplesOK'
    BY <1>1, <1>3, <2>2 DEF TruthOK, SamplesOK, Past
  <2>4. RegisterInv'
    <3>1. SUFFICES ASSUME Len(continuity) > 0
                   PROVE  Since(continuity[Len(continuity)], truth[Len(continuity)])'
      BY <1>3 DEF RegisterInv
    <3>2. PICK s, t : s = continuity[Len(continuity)] /\ t = truth[Len(continuity)]
      OBVIOUS
    <3>3. s \in Samples /\ t \in Marks /\ Past(t) /\ Since(s, t)
      BY <1>1, <3>1, <3>2, Retained DEF RegisterInv
    <3>4. Since(s, t)'
      BY <1>5, <3>3
    <3>5. QED
      BY <1>3, <3>2, <3>4 DEF Since
  <2>5. QED
    BY <1>4, <2>1, <2>3, <2>4 DEF FeedInv, FeedOK
<1>6. ASSUME NEW n \in 1..2^Width, Count(n)
      PROVE  FeedInv'
  <2>1. /\ total' = total + n /\ UNCHANGED <<hidden, declare>>
        /\ register' = (register + n) % 2^Width
    BY <1>6 DEF Count
  <2>2. register' \in 0..(2^Width - 1) /\ register' <= register + n
    BY <1>2, <2>1
  <2>3. ASSUME NEW s \in Samples, NEW t \in Marks, Past(t), Since(s, t)
        PROVE  Since(s, t)'
    <3>1. /\ s.raw \in 0..CounterRange(Width) /\ s.raw \in Nat /\ t.total \in Nat
          /\ total - t.total \in Nat /\ total' - t.total = (total - t.total) + n
      BY <1>2, <2>1, <2>3, Fields DEF Past
    <3>2. register \in 0..CounterRange(Width)
      BY <1>2
    <3>3. Turned(s.raw, total - t.total, register) => Turned(s.raw, (total - t.total) + n, register')
      BY <2>1, <3>1, <3>2, TurnedStep
    <3>4. register' <= s.raw + (total' - t.total)
      BY <1>2, <2>2, <2>3, <3>1 DEF Since
    <3>5. QED
      BY <2>1, <2>3, <3>1, <3>3, <3>4 DEF Since
  <2>4. QED
    BY <1>2, <1>5, <2>1, <2>2, <2>3
<1>7. ASSUME NEW told \in BOOLEAN, DeviceRestart(told)
      PROVE  FeedInv'
  <2>1. /\ register' = 0 /\ total' = total /\ hidden' \in {hidden, hidden + 1}
        /\ declare' \in BOOLEAN /\ (~declare' => hidden' = hidden + 1)
    BY <1>2, <1>7 DEF DeviceRestart
  <2>2. ASSUME NEW s \in Samples, NEW t \in Marks, Past(t)
        PROVE  Since(s, t)'
    BY <1>2, <2>1, <2>2, Fields DEF Since, Past
  <2>3. QED
    BY <1>2, <1>5, <2>1, <2>2
<1>8. QED
  BY <1>6, <1>7

\* The source publishes something else, or a revision is lost.
LEMMA StreamStep ==
  ASSUME FeedInv, Lose \/ OtherKey
  PROVE  FeedInv'
<1> USE DEF deviceVars, streamVars, trackerVars
<1>1. /\ UNCHANGED <<total, register, hidden, declare, clock, continuity, outcome, truth>>
      /\ revision' = revision + 1 /\ lastSeq' \in {lastSeq, revision + 1}
      /\ gapCount' \in {gapCount, gapCount + 1}
  BY DEF Lose, OtherKey, EpochAfter
<1>2. DeviceOK'
  BY <1>1 DEF FeedInv, FeedOK, DeviceOK
<1>3. SamplesOK' /\ TruthOK'
  BY <1>1 DEF FeedInv, FeedOK, SamplesOK, TruthOK, Past
<1>4. RegisterInv' /\ PairInv' /\ OutcomeInv'
  BY <1>1 DEF FeedInv, RegisterInv, Since, PairInv, OutcomeInv, Counted, HiddenRestart
<1>5. QED
  BY <1>2, <1>3, <1>4 DEF FeedInv, FeedOK

\* The counter is reported and becomes the newest sample.
LEMMA ReportStep ==
  ASSUME FeedInv, NEW elapsed \in 0..MaxWindow + 1, Report(elapsed)
  PROVE  FeedInv'
<1> USE DEF deviceVars, streamVars, trackerVars
<1> DEFINE mark == [total |-> total, hidden |-> hidden]
<1>1. FeedOK /\ DeviceOK /\ RegisterInv /\ elapsed \in Nat
  BY FeedAssumption DEF FeedInv, FeedOK
<1>2. /\ total \in Nat /\ register \in 0..CounterRange(Width) /\ register \in Nat /\ hidden \in Nat
      /\ declare \in BOOLEAN /\ clock \in Nat /\ revision \in Nat /\ lastSeq \in Nat
      /\ gapCount \in Nat /\ EpochAfter \in Nat
  BY <1>1 DEF DeviceOK, EpochAfter
<1>3. Reported \in Samples /\ mark \in Marks /\ Reported.raw = register /\ Reported.reset = declare
  BY <1>2 DEF Reported, Samples, Marks
<1>4. /\ UNCHANGED <<total, register, hidden>> /\ declare' = FALSE /\ clock' = clock + elapsed
      /\ revision' = revision + 1 /\ lastSeq' = revision + 1 /\ gapCount' = EpochAfter
      /\ continuity' = ObserveCounter(continuity, Reported)
      /\ outcome' = ContinuityOutcome(continuity, Reported)
      /\ truth' = IF truth = <<>> THEN <<mark>> ELSE <<truth[Len(truth)], mark>>
  BY DEF Report
<1>5. mark.total = total /\ mark.hidden = hidden
  OBVIOUS
<1> HIDE DEF mark
<1>6. DeviceOK'
  <2>1. total' \in Nat /\ register' \in 0..CounterRange(Width) /\ hidden' \in Nat
    BY <1>2, <1>4
  <2>2. declare' \in BOOLEAN
    BY <1>4
  <2>3. clock' \in Nat /\ revision' \in Nat /\ lastSeq' \in Nat /\ gapCount' \in Nat
    <3>1. PICK e : e = EpochAfter
      OBVIOUS
    <3>2. QED
      BY <1>1, <1>2, <1>4, <3>1
  <2>4. QED
    BY <2>1, <2>2, <2>3 DEF DeviceOK
<1>7. PICK r, m : r = Reported /\ m = mark
  OBVIOUS
<1>8. /\ r \in Samples /\ m \in Marks /\ r.raw = register /\ r.reset = declare
      /\ m.total = total /\ m.hidden = hidden
  BY <1>3, <1>5, <1>7
<1>9. Past(m)' /\ Since(r, m)'
  BY <1>2, <1>4, <1>8 DEF Past, Since, Turned
<1>10. CASE Len(continuity) = 0
  <2>1. continuity' = <<r>> /\ truth' = <<m>>
    BY <1>1, <1>4, <1>7, <1>10, Retained DEF ObserveCounter
  <2>2. /\ Len(continuity') = 1 /\ Len(truth') = 1 /\ continuity'[1] = r /\ truth'[1] = m
        /\ continuity' \in Seq(Samples) /\ truth' \in Seq(Marks)
    BY <1>8, <2>1
  <2>3. SamplesOK' /\ TruthOK'
    <3>1. \A i \in 1..Len(truth') : truth'[i].total <= total' /\ truth'[i].hidden <= hidden'
      <4>1. \A i \in 1..Len(truth') : truth'[i] = m
        BY <2>2
      <4>2. QED
        BY <1>9, <4>1 DEF Past
    <3>2. QED
      BY <2>2, <3>1 DEF SamplesOK, TruthOK, Past
  <2>4. RegisterInv'
    BY <1>9, <2>2 DEF RegisterInv, Since
  <2>5. QED
    BY <1>6, <2>2, <2>3, <2>4 DEF FeedInv, FeedOK, PairInv, OutcomeInv
<1>11. CASE Len(continuity) # 0
  <2>1. PICK s, t : s = continuity[Len(continuity)] /\ t = truth[Len(continuity)]
    OBVIOUS
  <2>2. /\ s \in Samples /\ t \in Marks /\ Past(t) /\ Since(s, t)
        /\ continuity # <<>> /\ truth # <<>> /\ Len(truth) = Len(continuity)
    BY <1>1, <1>11, <2>1, Retained DEF RegisterInv
  <2>3. continuity' = <<s, r>> /\ truth' = <<t, m>>
    BY <1>4, <1>7, <2>1, <2>2 DEF ObserveCounter
  <2>4. /\ Len(continuity') = 2 /\ Len(truth') = 2 /\ continuity'[1] = s /\ continuity'[2] = r
        /\ truth'[1] = t /\ truth'[2] = m
        /\ continuity' \in Seq(Samples) /\ truth' \in Seq(Marks)
    BY <1>8, <2>2, <2>3
  <2>5. SamplesOK' /\ TruthOK'
    <3>1. Past(t)'
      BY <1>4, <2>2 DEF Past
    <3>2. \A i \in 1..Len(truth') : truth'[i].total <= total' /\ truth'[i].hidden <= hidden'
      <4>1. \A i \in 1..Len(truth') : truth'[i] \in {t, m}
        BY <2>4
      <4>2. QED
        BY <1>9, <3>1, <4>1 DEF Past
    <3>3. QED
      BY <2>4, <3>2 DEF SamplesOK, TruthOK, Past
  <2>6. RegisterInv'
    BY <1>9, <2>4 DEF RegisterInv, Since
  <2>7. PairInv'
    <3>1. Counted' = total - t.total /\ (HiddenRestart' <=> hidden # t.hidden)
      BY <1>8, <2>4 DEF Counted, HiddenRestart
    <3>2. QED
      BY <1>8, <2>2, <2>4, <3>1 DEF PairInv, Since, Past
  <2>8. OutcomeInv'
    <3>1. ContinuityOutcome(continuity, r) = ContinuityOutcome(<<s>>, r)
      <4>1. <<s>> # <<>> /\ <<s>>[Len(<<s>>)] = s
        OBVIOUS
      <4>2. QED
        BY <2>1, <2>2, <4>1 DEF ContinuityOutcome
    <3>2. QED
      BY <1>4, <1>7, <2>4, <3>1 DEF OutcomeInv
  <2>9. QED
    BY <1>6, <2>5, <2>6, <2>7, <2>8 DEF FeedInv, FeedOK
<1>12. QED
  BY <1>10, <1>11

\* Every reachable state satisfies the inductive invariant.
LEMMA FeedInvariant == Spec => []FeedInv
<1>1. ASSUME Init PROVE FeedInv
  <2>1. DeviceOK
    <3>1. 0 \in 0..CounterRange(Width)
      BY WidthFacts
    <3>2. QED
      BY <1>1, <3>1 DEF Init, DeviceOK
  <2>2. Len(continuity) = 0 /\ Len(truth) = 0 /\ continuity \in Seq(Samples) /\ truth \in Seq(Marks)
    BY <1>1 DEF Init
  <2>3. SamplesOK /\ TruthOK
    BY <2>2 DEF SamplesOK, TruthOK
  <2>4. QED
    BY <2>1, <2>2, <2>3 DEF FeedInv, FeedOK, RegisterInv, PairInv, OutcomeInv
<1>2. FeedInv /\ [Next]_vars => FeedInv'
  <2>1. ASSUME FeedInv, UNCHANGED vars PROVE FeedInv'
    BY <2>1 DEF vars, deviceVars, streamVars, trackerVars, FeedInv, FeedOK, DeviceOK, SamplesOK,
       TruthOK, Past, RegisterInv, Since, PairInv, OutcomeInv, Counted, HiddenRestart
  <2>2. QED
    BY <2>1, DeviceStep, StreamStep, ReportStep DEF Next
<1>3. QED
  BY <1>1, <1>2, PTL DEF Spec

(***************************************************************************)
(* What a delta says.                                                      *)
(***************************************************************************)
\* The quantities compared with a delta are numbers.
LEMMA ThresholdType == WrapDetectionThreshold(Width) \in Int
<1>1. 2^(Width - 2) \in Nat
  BY PowersOfTwo, FeedAssumption, CounterWidthAssumption
<1>2. QED
  BY <1>1 DEF WrapDetectionThreshold

LEMMA MachineRange == CounterRange(MachineBits) \in Int
<1>1. 2^MachineBits \in Nat
  BY PowersOfTwo, CounterWidthAssumption
<1>2. QED
  BY <1>1 DEF CounterRange

\* What derive_delta has established when it finds no fault.
LEMMA DerivedFacts ==
  ASSUME FeedInv, Derived, NEW p, p = continuity[1], NEW q, q = continuity[2]
  PROVE  /\ p \in Samples /\ q \in Samples /\ ~q.reset
         /\ q.raw >= p.raw => DerivedDelta(continuity) = q.raw - p.raw
         /\ q.raw < p.raw =>
              /\ DerivedDelta(continuity) = 2^Width - p.raw + q.raw
              /\ p.raw >= WrapDetectionThreshold(Width)
<1>1. Len(continuity) = 2 /\ Fault = "None" /\ p \in Samples /\ q \in Samples
  BY Retained DEF FeedInv, Derived
<1>2. RawDelta(p, q).fault = "None"
  BY <1>1 DEF Fault, DeltaFault
<1>3. p.width = Width /\ p.raw \in Nat /\ q.raw \in Nat /\ q.reset \in BOOLEAN
  BY <1>1 DEF Samples
<1>4. ~q.reset
  BY <1>2, <1>3 DEF RawDelta, DeltaResult
<1>5. q.raw >= p.raw => RawDelta(p, q).delta = q.raw - p.raw
  BY <1>3, <1>4 DEF RawDelta, DeltaResult
<1>6. ASSUME q.raw < p.raw
      PROVE  /\ RawDelta(p, q).delta = (CounterRange(Width) - p.raw) + 1 + q.raw
             /\ ~(p.raw < WrapDetectionThreshold(Width))
  BY <1>2, <1>3, <1>4, <1>6 DEF RawDelta, DeltaResult
<1>7. QED
  BY <1>1, <1>3, <1>4, <1>5, <1>6, WidthFacts, ThresholdType DEF DerivedDelta

\* What the device counted between two samples is a natural number.
LEMMA CountedType ==
  ASSUME FeedInv, Len(continuity) = 2
  PROVE  Counted \in Nat
<1>1. truth[1] \in Marks /\ truth[2] \in Marks /\ truth[1].total <= truth[2].total
  BY Retained DEF FeedInv, PairInv
<1>2. QED
  BY <1>1 DEF Marks, Counted

\* A delta that derive_delta yields is what the device counted between the two
\* readings, for any width, if it made less than one turn and hid no restart.
THEOREM DerivedDeltaIsExact == Spec => []DeltaIsExact
<1>1. ASSUME FeedInv PROVE DeltaIsExact
  <2> SUFFICES ASSUME Derived, ~HiddenRestart, Counted < 2^Width
               PROVE  DerivedDelta(continuity) = Counted
    BY DEF DeltaIsExact
  <2> DEFINE p == continuity[1]
             q == continuity[2]
  <2>1. /\ p \in Samples /\ q \in Samples /\ ~q.reset
        /\ q.raw >= p.raw => DerivedDelta(continuity) = q.raw - p.raw
        /\ q.raw < p.raw => DerivedDelta(continuity) = 2^Width - p.raw + q.raw
    BY <1>1, DerivedFacts
  <2>2. /\ Turned(p.raw, Counted, q.raw) /\ Counted \in Nat
    BY <1>1, <2>1, CountedType DEF FeedInv, PairInv, Derived
  <2>3. p.raw \in 0..(2^Width - 1) /\ q.raw \in 0..(2^Width - 1) /\ 2^Width \in Nat
    BY <2>1, WidthFacts DEF Samples
  <2>4. QED
    BY <2>1, <2>2, <2>3 DEF Turned
<1>2. QED
  BY <1>1, FeedInvariant, PTL

\* observe_counter and derive_delta, which repeat one case analysis, agree on
\* every pair of samples.
THEOREM TrackersAgree == Spec => []ObserveAndDeriveAgree
<1>1. ASSUME FeedInv PROVE ObserveAndDeriveAgree
  <2> SUFFICES ASSUME Len(continuity) = 2
               PROVE  /\ Fault = "None" =>
                           outcome.delta_valid /\ outcome.delta = DerivedDelta(continuity)
                      /\ outcome.delta_valid => Fault \in {"None", "NonMonotonicTime", "WindowTooLarge"}
    BY DEF ObserveAndDeriveAgree
  <2> DEFINE p == continuity[1]
             q == continuity[2]
             gap == q.sequence <= p.sequence \/ q.gap_epoch # p.gap_epoch
             wrapped == (CounterRange(p.width) - p.raw) + 1 + q.raw
             wraps == /\ p.raw >= WrapDetectionThreshold(p.width)
                      /\ wrapped <= CounterRange(MachineBits)
  <2>1. p \in Samples /\ q \in Samples /\ SameIdentity(p, q)
    BY <1>1, Retained, Fields DEF FeedInv, SameIdentity
  <2>2. outcome = ContinuityOutcome(<<p>>, q) /\ <<p>> # <<>> /\ <<p>>[Len(<<p>>)] = p
    BY <1>1 DEF FeedInv, OutcomeInv
  <2>3. /\ p.raw \in Nat /\ q.raw \in Nat /\ q.reset \in BOOLEAN
        /\ wrapped \in Int /\ CounterRange(MachineBits) \in Int
        /\ WrapDetectionThreshold(p.width) \in Int
    BY <2>1, WidthFacts, ThresholdType, MachineRange DEF Samples
  <2> HIDE DEF p, q
  \* What observe_counter makes of the pair.
  <2>4. /\ q.reset => ~outcome.delta_valid
        /\ ~q.reset /\ q.raw >= p.raw =>
             (outcome.delta_valid <=> ~gap) /\ outcome.delta = q.raw - p.raw
        /\ ~q.reset /\ ~(q.raw >= p.raw) /\ wraps =>
             (outcome.delta_valid <=> ~gap) /\ outcome.delta = wrapped
        /\ ~q.reset /\ ~(q.raw >= p.raw) /\ ~wraps => ~outcome.delta_valid
    BY <2>1, <2>2 DEF ContinuityOutcome, Outcome
  \* What derive_delta makes of it.
  <2>5. /\ q.reset => RawDelta(p, q).fault # "None"
        /\ ~q.reset /\ q.raw >= p.raw =>
             RawDelta(p, q).fault = "None" /\ RawDelta(p, q).delta = q.raw - p.raw
        /\ ~q.reset /\ ~(q.raw >= p.raw) /\ wraps =>
             RawDelta(p, q).fault = "None" /\ RawDelta(p, q).delta = wrapped
        /\ ~q.reset /\ ~(q.raw >= p.raw) /\ ~wraps => RawDelta(p, q).fault # "None"
    BY <2>3 DEF RawDelta, DeltaResult
  <2>6. outcome.delta_valid <=> ~gap /\ RawDelta(p, q).fault = "None"
    BY <2>3, <2>4, <2>5
  <2>7. outcome.delta_valid => outcome.delta = RawDelta(p, q).delta
    BY <2>3, <2>4, <2>5
  <2>8. Fault = "None" => ~gap /\ RawDelta(p, q).fault = "None"
    BY DEF Fault, DeltaFault, SequenceGap, p, q
  <2>9. ~gap /\ RawDelta(p, q).fault = "None" =>
          Fault \in {"None", "NonMonotonicTime", "WindowTooLarge"}
    BY <2>1 DEF Fault, DeltaFault, SequenceGap, p, q
  <2>10. QED
    BY <2>6, <2>7, <2>8, <2>9 DEF DerivedDelta, p, q
<1>2. QED
  BY <1>1, FeedInvariant, PTL

\* Traffic is invented in one way only: a restart the device did not declare,
\* of a register in the top quarter of its width, is taken for a wrap.
THEOREM OnlyHiddenRestartsInvent == Spec => []OnlyTopQuarterAmbiguous
<1>1. ASSUME FeedInv PROVE OnlyTopQuarterAmbiguous
  <2> SUFFICES ASSUME Derived, DerivedDelta(continuity) > Counted
               PROVE  HiddenRestart /\ 4 * continuity[1].raw >= 3 * 2^Width
    BY DEF OnlyTopQuarterAmbiguous
  <2> DEFINE p == continuity[1]
             q == continuity[2]
  <2>1. /\ p \in Samples /\ q \in Samples /\ ~q.reset
        /\ q.raw >= p.raw => DerivedDelta(continuity) = q.raw - p.raw
        /\ q.raw < p.raw => /\ DerivedDelta(continuity) = 2^Width - p.raw + q.raw
                            /\ p.raw >= WrapDetectionThreshold(Width)
    BY <1>1, DerivedFacts
  <2>2. /\ q.raw <= p.raw + Counted /\ Counted \in Nat
        /\ ~HiddenRestart => Turned(p.raw, Counted, q.raw)
    BY <1>1, <2>1, CountedType DEF FeedInv, PairInv, Derived
  <2>3. p.raw \in 0..(2^Width - 1) /\ q.raw \in 0..(2^Width - 1) /\ 2^Width \in Nat
    BY <2>1, WidthFacts DEF Samples
  <2>4. q.raw < p.raw
    BY <2>1, <2>2, <2>3
  <2>5. 4 * p.raw >= 3 * 2^Width
    BY <2>1, <2>3, <2>4, WidthFacts, ThresholdType
  <2>6. HiddenRestart
    BY <2>1, <2>2, <2>3, <2>4 DEF Turned
  <2>7. QED
    BY <2>5, <2>6
<1>2. QED
  BY <1>1, FeedInvariant, PTL
=============================================================================
