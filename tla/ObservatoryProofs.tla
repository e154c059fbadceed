------------------------- MODULE ObservatoryProofs --------------------------
(***************************************************************************)
(* Proofs about Observatory, for any sources, keys, readings, delays and   *)
(* bounds: what is claimed of a link rests on its current evidence, rates  *)
(* on the readings that won, reports of the past on a log that says what   *)
(* it dropped, and the passage of time never makes evidence fresher.       *)
(***************************************************************************)
EXTENDS Observatory, FiniteSetTheorems, TLAPS

-----------------------------------------------------------------------------
(***************************************************************************)
(* Finite sets and their greatest elements.                                *)
(***************************************************************************)
\* A strict order on a finite set leaves some element that none displaces.
LEMMA MaximalExists ==
  ASSUME NEW S, IsFiniteSet(S), S # {}, NEW R,
         \A x \in S : <<x, x>> \notin R,
         \A x, y, z \in S : <<x, y>> \in R /\ <<y, z>> \in R => <<x, z>> \in R
  PROVE  \E m \in S : \A x \in S : <<x, m>> \notin R
<1> DEFINE Above(x) == {y \in S : <<y, x>> \in R}
           All == {Above(x) : x \in S}
           O == StrictSubsetOrdering(S)
<1>1. All \subseteq FiniteSubsetsOf(S) /\ All # {}
  <2>1. \A x \in S : Above(x) \subseteq S
    OBVIOUS
  <2>2. \A x \in S : IsFiniteSet(Above(x))
    BY <2>1, FS_Subset
  <2> HIDE DEF Above
  <2>3. QED
    BY <2>1, <2>2 DEF FiniteSubsetsOf
<1>2. IsWellFoundedOn(O, FiniteSubsetsOf(S))
  BY FS_StrictSubsetOrderingWellFounded
<1> HIDE DEF All, O
<1>3. PICK T \in All : \A U \in All : ~ (<<U, T>> \in O)
  BY <1>1, <1>2, WFMin, Zenon
<1>4. PICK m \in S : T = Above(m)
  BY <1>3 DEF All
<1>5. ASSUME NEW x \in S, <<x, m>> \in R PROVE FALSE
  <2>1. Above(x) \in All
    BY DEF All
  <2>2. Above(x) \subseteq Above(m) /\ x \in Above(m) /\ x \notin Above(x)
    BY <1>5
  <2>3. <<Above(x), T>> \in O
    <3>1. Above(x) \subseteq S /\ Above(m) \subseteq S
      OBVIOUS
    <3> HIDE DEF Above
    <3>2. QED
      BY <1>4, <2>2, <3>1 DEF O, StrictSubsetOrdering
  <2>4. QED
    BY <1>3, <2>1, <2>3
<1>6. QED
  BY <1>5

\* The greatest and the least number of a finite set.
LEMMA MaxOfFinite ==
  ASSUME NEW S \in SUBSET Int, IsFiniteSet(S), S # {}
  PROVE  Max(S) \in S /\ \A x \in S : x <= Max(S)
<1> DEFINE R == {p \in S \X S : p[1] > p[2]}
<1>1. \A x, y \in S : <<x, y>> \in R <=> x > y
  OBVIOUS
<1> HIDE DEF R
<1>2. \A x \in S : <<x, x>> \notin R
  BY <1>1
<1>3. \A x, y, z \in S : <<x, y>> \in R /\ <<y, z>> \in R => <<x, z>> \in R
  BY <1>1
<1>4. PICK m \in S : \A x \in S : <<x, m>> \notin R
  BY <1>2, <1>3, MaximalExists
<1>5. ASSUME NEW x \in S PROVE m >= x
  <2>1. x \in Int /\ m \in Int
    BY <1>4
  <2>2. ~(x > m)
    BY <1>1, <1>4
  <2>3. QED
    BY <2>1, <2>2
<1>6. Max(S) \in S /\ \A x \in S : Max(S) >= x
  BY <1>4, <1>5 DEF Max
<1>7. QED
  BY <1>6

LEMMA MinOfFinite ==
  ASSUME NEW S \in SUBSET Int, IsFiniteSet(S), S # {}
  PROVE  Min(S) \in S /\ \A x \in S : Min(S) <= x
<1> DEFINE R == {p \in S \X S : p[1] < p[2]}
<1>1. \A x, y \in S : <<x, y>> \in R <=> x < y
  OBVIOUS
<1> HIDE DEF R
<1>2. \A x \in S : <<x, x>> \notin R
  BY <1>1
<1>3. \A x, y, z \in S : <<x, y>> \in R /\ <<y, z>> \in R => <<x, z>> \in R
  BY <1>1
<1>4. PICK m \in S : \A x \in S : <<x, m>> \notin R
  BY <1>2, <1>3, MaximalExists
<1>5. ASSUME NEW x \in S PROVE m <= x
  <2>1. x \in Int /\ m \in Int
    BY <1>4
  <2>2. ~(x < m)
    BY <1>1, <1>4
  <2>3. QED
    BY <2>1, <2>2
<1>6. Min(S) \in S /\ \A x \in S : Min(S) <= x
  BY <1>4, <1>5 DEF Min
<1>7. QED
  BY <1>6

\* A function on a finite set has finitely many values.
LEMMA ValuesFinite ==
  ASSUME NEW S, IsFiniteSet(S), NEW f, DOMAIN f = S, f = [x \in S |-> f[x]]
  PROVE  IsFiniteSet({f[x] : x \in S})
<1>1. f \in Surjection(S, {f[x] : x \in S})
  BY DEF Surjection
<1>2. QED
  BY <1>1, FS_Surjection

LEMMA RangeFinite ==
  ASSUME NEW T, NEW s \in Seq(T)
  PROVE  IsFiniteSet(Range(s)) /\ Range(s) \subseteq T /\ Cardinality(Range(s)) <= Len(s)
<1>1. DOMAIN s = 1..Len(s) /\ Len(s) \in Nat /\ s = [i \in 1..Len(s) |-> s[i]]
  OBVIOUS
<1>2. IsFiniteSet(1..Len(s))
  <2>1. 1..Len(s) \in SUBSET Nat /\ \A i \in 1..Len(s) : i <= Len(s)
    BY <1>1
  <2>2. QED
    BY <1>1, <2>1, FS_BoundedSetOfNaturals
<1>3. IsFiniteSet({s[i] : i \in 1..Len(s)})
  BY <1>1, <1>2, ValuesFinite
<1>4. Cardinality({s[i] : i \in 1..Len(s)}) <= Len(s)
  <2>1. s \in Surjection(1..Len(s), {s[i] : i \in 1..Len(s)})
    BY <1>1 DEF Surjection
  <2>2. ExistsSurjection(1..Len(s), {s[i] : i \in 1..Len(s)})
    BY <2>1 DEF ExistsSurjection
  <2>3. QED
    BY <1>1, <2>2, FS_SurjCardinalityBound
<1>5. QED
  BY <1>1, <1>3, <1>4 DEF Range

-----------------------------------------------------------------------------
(***************************************************************************)
(* The evidence of a link.  Evidence is dated by whole seconds, in the     *)
(* past or ahead of the clock; it is kept newest first, so its order is    *)
(* that of acceptance; a gap was opened in the past; and the newest        *)
(* evidence of a source on a counter is its last sample.                   *)
(***************************************************************************)
Dated ==
  [source : Sources, scope : Nat, generation : Nat, accepted : Nat,
   observed_at : Int, received_at : Int, payload : UNION {Payloads[k] : k \in Keys}]

Samples ==
  [scope : Nat, generation : Nat, sequence : Nat, gap_epoch : Nat, observed_at : Int,
   received_at : Int, raw : Nat, width : CounterWidths, reset : BOOLEAN]

Observations ==
  {o \in [source : Sources, key : Keys, payload : UNION {Payloads[k] : k \in Keys},
          observed_at : Int, received_at : Int, scope : Nat, generation : Nat,
          sequence : Nat] :
     o.payload \in Payloads[o.key] /\ o.scope <= MaxScope /\ o.generation <= MaxGeneration}

ClockInv ==
  /\ now \in Nat /\ generation \in Nat /\ accepted \in Nat
  /\ {scope, revision, gapCount} \subseteq [Sources -> Nat]

HistoryInv ==
  /\ history \in [Keys -> Seq(Dated)]
  /\ \A k \in Keys :
       /\ Len(history[k]) <= MaxEvidence
       /\ \A i \in 1..Len(history[k]) :
            /\ history[k][i].payload \in Payloads[k]
            /\ history[k][i].accepted <= accepted
            /\ \A j \in 1..Len(history[k]) :
                 i < j => history[k][j].accepted < history[k][i].accepted

GapInv == gap \in [Keys -> [at : Nat, open : BOOLEAN]] /\ \A k \in Keys : gap[k].at <= now

SampledAs(sample, e) ==
  /\ sample.raw = e.payload.raw /\ sample.observed_at = e.observed_at
  /\ sample.scope = e.scope /\ sample.generation = e.generation

SampleInv ==
  /\ samples \in [Keys -> [Sources -> Seq(Samples)]]
  /\ \A k \in Keys : k.family \in CounterFamilies =>
       \A i \in 1..Len(history[k]) :
         (\A j \in 1..(i - 1) : history[k][j].source # history[k][i].source)
         => SampledAs(Last(samples[k][history[k][i].source]), history[k][i])

EvidenceInv == ClockInv /\ HistoryInv /\ GapInv /\ SampleInv

\* The evidence of a key with one more in front, cut to its bound.
Pushed(e, list) == SubSeq(<<e>> \o list, 1, Min({Len(list) + 1, MaxEvidence}))

LEMMA PushEvidence ==
  ASSUME NEW list \in Seq(Dated), NEW e \in Dated
  PROVE  /\ Pushed(e, list) \in Seq(Dated) /\ Len(Pushed(e, list)) <= MaxEvidence
         /\ Len(Pushed(e, list)) <= Len(list) + 1 /\ Pushed(e, list)[1] = e
         /\ \A i \in 2..Len(Pushed(e, list)) : Pushed(e, list)[i] = list[i - 1]
<1> DEFINE T == Dated
           bound == MaxEvidence
           pushed == Pushed(e, list)
<1>0. bound \in Nat \ {0}
  BY ObservatoryAssumption
<1> HIDE DEF T, bound, pushed
<1>1. PICK all : all = <<e>> \o list
  OBVIOUS
<1>2. /\ <<e>> \in Seq(T) /\ list \in Seq(T)
      /\ Len(<<e>>) = 1 /\ Len(list) \in Nat
  BY DEF T
<1>3. all \in Seq(T) /\ Len(all) = Len(list) + 1
  BY <1>1, <1>2
<1>4. PICK n : n = Min({Len(list) + 1, bound})
  OBVIOUS
<1>5. n \in {Len(list) + 1, bound} /\ n <= Len(list) + 1 /\ n <= bound
  <2>1. ASSUME NEW a \in Nat, NEW b \in Nat
        PROVE  Min({a, b}) \in {a, b} /\ Min({a, b}) <= a /\ Min({a, b}) <= b
    <3>1. \E x \in {a, b} : \A y \in {a, b} : x <= y
      OBVIOUS
    <3>2. Min({a, b}) \in {a, b} /\ \A y \in {a, b} : Min({a, b}) <= y
      BY <3>1 DEF Min
    <3>3. QED
      BY <3>2
  <2>2. QED
    BY <1>0, <1>2, <1>4, <2>1
<1>6. n \in 1..Len(all)
  BY <1>0, <1>2, <1>3, <1>5
<1>7. /\ SubSeq(all, 1, n) \in Seq(T) /\ Len(SubSeq(all, 1, n)) = n
      /\ \A i \in 1..n : SubSeq(all, 1, n)[i] = all[i]
  BY <1>3, <1>6
<1>8. all[1] = e /\ \A i \in 2..(Len(list) + 1) : all[i] = list[i - 1]
  BY <1>1, <1>2
<1>9. pushed = SubSeq(all, 1, n)
  BY <1>1, <1>4 DEF pushed, Pushed, bound
<1>10. Len(pushed) = n /\ n \in 1..(Len(list) + 1)
  BY <1>3, <1>6, <1>7, <1>9
<1>11. \A i \in 1..n : pushed[i] = all[i]
  BY <1>7, <1>9
<1>12. pushed \in Seq(T) /\ Len(pushed) <= bound /\ Len(pushed) <= Len(list) + 1
  BY <1>5, <1>7, <1>9, <1>10
<1>13. pushed[1] = e
  <2>1. 1 \in 1..n
    BY <1>2, <1>10
  <2>2. QED
    BY <1>8, <1>11, <2>1
<1>14. ASSUME NEW i \in 2..n PROVE pushed[i] = list[i - 1]
  <2>1. i \in 1..n /\ i \in 2..(Len(list) + 1)
    BY <1>2, <1>10
  <2>2. QED
    BY <1>8, <1>11, <2>1
<1>15. QED
  BY <1>10, <1>12, <1>13, <1>14 DEF pushed, T, bound

\* A step passes time, or deals with one observation.
LEMMA StepCases ==
  ASSUME ClockInv, [Next]_vars
  PROVE  Tick \/ UNCHANGED vars \/ \E o \in Observations : Accept(o) \/ Refuse(o)
<1>1. ASSUME NEW s \in Sources, NEW k \in Keys, NEW payload \in Payloads[k], NEW lag \in Lags,
             NEW sc \in 1..MaxScope, NEW g \in 0..MaxGeneration,
             NEW step \in 1..(IF revision[s] = 0 THEN 1 ELSE 2),
             Observe(s, k, payload, lag, sc, g, step)
      PROVE  \E o \in Observations : Accept(o) \/ Refuse(o)
  <2> DEFINE o == [source |-> s, key |-> k, payload |-> payload,
                   observed_at |-> now - lag.observed, received_at |-> now - lag.received,
                   scope |-> sc, generation |-> g,
                   sequence |-> (IF sc = scope[s] THEN revision[s] ELSE 0) + step]
  <2>1. Accept(o) \/ Refuse(o)
    BY <1>1 DEF Observe
  <2>2. now - lag.observed \in Int /\ now - lag.received \in Int
    BY ObservatoryAssumption DEF ClockInv
  <2>3. (IF sc = scope[s] THEN revision[s] ELSE 0) + step \in Nat
    <3>1. revision[s] \in Nat /\ step \in Nat
      BY DEF ClockInv
    <3>2. QED
      BY <3>1
  <2>4. sc \in Nat /\ g \in Nat
    BY ObservatoryAssumption
  <2>5. payload \in UNION {Payloads[q] : q \in Keys}
    OBVIOUS
  <2>6. o \in Observations
    BY <2>2, <2>3, <2>4, <2>5 DEF Observations
  <2> HIDE DEF o
  <2>7. QED
    BY <2>1, <2>6
<1>2. QED
  BY <1>1 DEF Next

\* The stream and the clock after an observation.
LEMMA ClockStep ==
  ASSUME ClockInv, NEW o \in Observations, Accept(o) \/ Refuse(o)
  PROVE  ClockInv' /\ now' = now
<1>1. o.source \in Sources /\ o.scope \in Nat /\ o.generation \in Nat /\ o.sequence \in Nat
  BY DEF Observations
<1>2. now' = now /\ generation' = o.generation /\ scope' = [scope EXCEPT ![o.source] = o.scope]
  BY DEF Accept, Refuse, AdvanceStream
<1>3. gapCount' \in [Sources -> Nat]
  <2>1. gapCount' = [gapCount EXCEPT ![o.source] = IF RevisionLost(o) THEN @ + 1 ELSE @]
    BY DEF Accept, Refuse, AdvanceStream
  <2>2. gapCount \in [Sources -> Nat]
    BY DEF ClockInv
  <2>3. QED
    BY <1>1, <2>1, <2>2
<1>4. revision' \in [Sources -> Nat]
  <2>1. revision \in [Sources -> Nat]
    BY DEF ClockInv
  <2>2. CASE Accept(o)
    BY <1>1, <2>1, <2>2 DEF Accept
  <2>3. CASE Refuse(o)
    BY <1>1, <2>1, <2>3 DEF Refuse
  <2>4. QED
    BY <2>2, <2>3
<1>5. scope' \in [Sources -> Nat]
  BY <1>1, <1>2 DEF ClockInv
<1>6. accepted' \in Nat
  BY DEF Accept, Refuse, ClockInv
<1>7. QED
  BY <1>1, <1>2, <1>3, <1>4, <1>5, <1>6 DEF ClockInv

\* The evidence kept of a key.
LEMMA HistoryTyped ==
  ASSUME HistoryInv, NEW k \in Keys
  PROVE  /\ history[k] \in Seq(Dated) /\ Len(history[k]) \in Nat
         /\ \A i \in 1..Len(history[k]) :
              /\ history[k][i] \in Dated /\ history[k][i].source \in Sources
              /\ history[k][i].accepted \in Nat /\ history[k][i].observed_at \in Int
              /\ history[k][i].received_at \in Int
<1>1. history[k] \in Seq(Dated)
  BY DEF HistoryInv
<1>2. Len(history[k]) \in Nat /\ \A i \in 1..Len(history[k]) : history[k][i] \in Dated
  BY <1>1
<1>3. \A e \in Dated : /\ e.source \in Sources /\ e.accepted \in Nat
                       /\ e.observed_at \in Int /\ e.received_at \in Int
  BY DEF Dated
<1>4. QED
  BY <1>1, <1>2, <1>3

\* What is kept of an accepted observation, in front of what was there.
LEMMA HistoryAfter ==
  ASSUME ClockInv, HistoryInv, NEW o \in Observations, Accept(o)
  PROVE  /\ EvidenceOf(o) \in Dated
         /\ history' \in [Keys -> Seq(Dated)]
         /\ \A k \in Keys \ {o.key} : history'[k] = history[k]
         /\ Len(history'[o.key]) <= MaxEvidence
         /\ Len(history'[o.key]) <= Len(history[o.key]) + 1
         /\ history'[o.key][1] = EvidenceOf(o)
         /\ \A i \in 2..Len(history'[o.key]) : history'[o.key][i] = history[o.key][i - 1]
<1>1. o.key \in Keys
  BY DEF Observations
<1>2. EvidenceOf(o) \in Dated
  BY DEF EvidenceOf, Dated, Observations, ClockInv
<1>3. history[o.key] \in Seq(Dated)
  BY <1>1 DEF HistoryInv
<1> DEFINE pushed == Pushed(EvidenceOf(o), history[o.key])
<1>4. history' = [history EXCEPT ![o.key] = pushed]
  BY <1>1 DEF Accept, Admitted, HistoryInv, Pushed
<1>5. /\ pushed \in Seq(Dated) /\ Len(pushed) <= MaxEvidence
      /\ Len(pushed) <= Len(history[o.key]) + 1 /\ pushed[1] = EvidenceOf(o)
      /\ \A i \in 2..Len(pushed) : pushed[i] = history[o.key][i - 1]
  BY <1>2, <1>3, PushEvidence
<1> HIDE DEF pushed
<1>6. history'[o.key] = pushed /\ \A k \in Keys \ {o.key} : history'[k] = history[k]
  BY <1>1, <1>4 DEF HistoryInv
<1>7. history' \in [Keys -> Seq(Dated)]
  BY <1>1, <1>4, <1>5 DEF HistoryInv
<1>8. QED
  BY <1>2, <1>5, <1>6, <1>7

LEMMA HistoryStep ==
  ASSUME ClockInv, HistoryInv, NEW o \in Observations, Accept(o)
  PROVE  HistoryInv'
<1>1. o.key \in Keys /\ o.payload \in Payloads[o.key]
  BY DEF Observations
<1>2. accepted \in Nat /\ accepted' = accepted + 1
  BY DEF Accept, ClockInv
<1>3. EvidenceOf(o).payload = o.payload /\ EvidenceOf(o).accepted = accepted + 1
  BY DEF EvidenceOf
<1> DEFINE old == history[o.key]
           new == history'[o.key]
<1>4. /\ old \in Seq(Dated) /\ new \in Seq(Dated) /\ Len(new) <= MaxEvidence
      /\ Len(new) <= Len(old) + 1 /\ new[1] = EvidenceOf(o)
      /\ \A i \in 2..Len(new) : new[i] = old[i - 1]
  BY <1>1, HistoryAfter DEF HistoryInv
<1>5. \A i \in 1..Len(old) :
        /\ old[i].payload \in Payloads[o.key]
        /\ old[i] \in Dated /\ old[i].accepted \in Nat /\ old[i].accepted <= accepted
        /\ \A j \in 1..Len(old) : i < j => old[j].accepted < old[i].accepted
  BY <1>1, HistoryTyped DEF HistoryInv
<1>6. \A i \in 2..Len(new) : i - 1 \in 1..Len(old) /\ new[i] = old[i - 1]
  BY <1>4
<1> HIDE DEF old, new
<1>7. Len(new) \in Nat
  BY <1>4
<1>8. ASSUME NEW i \in 1..Len(new)
      PROVE  /\ new[i].payload \in Payloads[o.key]
             /\ new[i].accepted <= accepted + 1
             /\ \A j \in 1..Len(new) : i < j => new[j].accepted < new[i].accepted
  <2>1. CASE i = 1
    <3>1. ASSUME NEW j \in 1..Len(new), i < j PROVE new[j].accepted < new[i].accepted
      <4>1. j \in 2..Len(new)
        BY <1>7, <2>1, <3>1
      <4>2. new[j].accepted \in Nat /\ new[j].accepted <= accepted
        BY <1>5, <1>6, <4>1
      <4>3. QED
        BY <1>2, <1>3, <1>4, <2>1, <4>2
    <3>2. QED
      BY <1>1, <1>2, <1>3, <1>4, <2>1, <3>1
  <2>2. CASE i # 1
    <3>1. i \in 2..Len(new)
      BY <1>7, <2>2
    <3>2. new[i] = old[i - 1] /\ i - 1 \in 1..Len(old)
      BY <1>6, <3>1
    <3>3. ASSUME NEW j \in 1..Len(new), i < j PROVE new[j].accepted < new[i].accepted
      <4>1. j \in 2..Len(new) /\ i - 1 < j - 1
        BY <1>7, <3>1, <3>3
      <4>2. new[j] = old[j - 1] /\ j - 1 \in 1..Len(old)
        BY <1>6, <4>1
      <4>3. QED
        BY <1>5, <3>2, <4>1, <4>2
    <3>4. new[i].accepted \in Nat /\ new[i].accepted <= accepted /\ new[i].payload \in Payloads[o.key]
      BY <1>5, <3>2
    <3>5. QED
      BY <1>2, <3>3, <3>4
  <2>3. QED
    BY <2>1, <2>2
<1>9. ASSUME NEW k \in Keys
      PROVE  /\ Len(history'[k]) <= MaxEvidence
             /\ \A i \in 1..Len(history'[k]) :
                  /\ history'[k][i].payload \in Payloads[k]
                  /\ history'[k][i].accepted <= accepted + 1
                  /\ \A j \in 1..Len(history'[k]) :
                       i < j => history'[k][j].accepted < history'[k][i].accepted
  <2>1. CASE k = o.key
    BY <1>4, <1>8, <2>1 DEF new
  <2>2. CASE k # o.key
    <3>1. history'[k] = history[k]
      BY <2>2, HistoryAfter
    <3>3. \A i \in 1..Len(history[k]) : history[k][i].accepted \in Nat
      BY HistoryTyped
    <3>4. /\ Len(history[k]) <= MaxEvidence
          /\ \A i \in 1..Len(history[k]) :
               /\ history[k][i].payload \in Payloads[k]
               /\ history[k][i].accepted <= accepted
               /\ \A j \in 1..Len(history[k]) :
                    i < j => history[k][j].accepted < history[k][i].accepted
      BY DEF HistoryInv
    <3>5. QED
      BY <1>2, <3>1, <3>3, <3>4
  <2>3. QED
    BY <2>1, <2>2
<1>10. history' \in [Keys -> Seq(Dated)]
  BY HistoryAfter
<1>11. QED
  BY <1>2, <1>9, <1>10 DEF HistoryInv

\* A gap is opened now.
LEMMA GapStep ==
  ASSUME ClockInv, GapInv, NEW o \in Observations, Accept(o)
  PROVE  GapInv'
<1>1. o.key \in Keys /\ now' = now /\ now \in Nat
  BY DEF Observations, Accept, ClockInv
<1>2. gap' = IF OpensGap(o) THEN [gap EXCEPT ![o.key] = [at |-> now, open |-> TRUE]] ELSE gap
  BY DEF Accept, Admitted
<1>3. [at |-> now, open |-> TRUE] \in [at : Nat, open : BOOLEAN]
  BY <1>1
<1>4. gap' \in [Keys -> [at : Nat, open : BOOLEAN]]
  BY <1>1, <1>2, <1>3 DEF GapInv
<1>5. ASSUME NEW k \in Keys PROVE gap'[k].at <= now
  <2>1. gap'[k] = gap[k] \/ gap'[k] = [at |-> now, open |-> TRUE]
    BY <1>1, <1>2 DEF GapInv
  <2>2. gap[k].at <= now
    BY DEF GapInv
  <2>3. QED
    BY <1>1, <2>1, <2>2
<1>6. QED
  BY <1>1, <1>4, <1>5 DEF GapInv

\* A reading of a counter as a sample, the last of its source from then on.
LEMMA SampleAfter ==
  ASSUME ClockInv, SampleInv, NEW o \in Observations, Accept(o)
  PROVE  /\ samples' \in [Keys -> [Sources -> Seq(Samples)]]
         /\ \A k \in Keys, s \in Sources : k # o.key \/ s # o.source =>
              samples'[k][s] = samples[k][s]
         /\ o.key.family \in CounterFamilies =>
              SampledAs(Last(samples'[o.key][o.source]), EvidenceOf(o))
<1>1. o.key \in Keys /\ o.source \in Sources /\ samples \in [Keys -> [Sources -> Seq(Samples)]]
  BY DEF Observations, SampleInv
<1>2. CASE o.key.family \notin CounterFamilies
  <2>1. samples' = samples
    BY <1>2 DEF Accept, Admitted
  <2>2. QED
    BY <1>1, <1>2, <2>1
<1>3. CASE o.key.family \in CounterFamilies
  <2> DEFINE before == samples[o.key][o.source]
             after == ObserveCounter(before, SampleOf(o))
  <2>1. samples' = [samples EXCEPT ![o.key][o.source] = after]
    BY <1>1, <1>3 DEF Accept, Admitted
  <2>2. SampleOf(o) \in Samples
    <3>1. o.payload \in [raw : Nat, width : CounterWidths, reset : BOOLEAN]
      <4>1. o.payload \in Readings(o.key.family)
        BY <1>1, ObservatoryAssumption DEF Observations
      <4>2. Readings(o.key.family) = [raw : Nat, width : CounterWidths, reset : BOOLEAN]
        BY <1>3 DEF Readings, CounterFamilies
      <4>3. QED
        BY <4>1, <4>2
    <3>2. gapCount[o.source] + (IF RevisionLost(o) THEN 1 ELSE 0) \in Nat
      BY <1>1 DEF ClockInv
    <3>3. QED
      BY <3>1, <3>2 DEF SampleOf, Samples, Observations
  <2>3. before \in Seq(Samples)
    BY <1>1
  <2>4. after \in Seq(Samples) /\ Last(after) = SampleOf(o)
    <3> HIDE DEF before
    <3>1. CASE before = <<>>
      BY <2>2, <3>1 DEF ObserveCounter, Last
    <3>2. CASE before # <<>>
      <4>1. before[Len(before)] \in Samples
        BY <2>3, <3>2
      <4>2. after = <<before[Len(before)], SampleOf(o)>>
        BY <3>2 DEF ObserveCounter
      <4>3. QED
        BY <2>2, <4>1, <4>2 DEF Last
    <3>3. QED
      BY <3>1, <3>2
  <2>5. SampledAs(SampleOf(o), EvidenceOf(o))
    BY DEF SampledAs, SampleOf, EvidenceOf
  <2> HIDE DEF after
  <2>6. samples'[o.key][o.source] = after
    BY <1>1, <2>1
  <2>7. samples' \in [Keys -> [Sources -> Seq(Samples)]]
    BY <1>1, <2>1, <2>4
  <2>8. \A k \in Keys, s \in Sources : k # o.key \/ s # o.source =>
          samples'[k][s] = samples[k][s]
    BY <1>1, <2>1
  <2>9. QED
    BY <2>4, <2>5, <2>6, <2>7, <2>8
<1>4. QED
  BY <1>2, <1>3

LEMMA SampleStep ==
  ASSUME ClockInv, HistoryInv, SampleInv, NEW o \in Observations, Accept(o)
  PROVE  SampleInv'
<1>1. o.key \in Keys /\ o.source \in Sources /\ EvidenceOf(o).source = o.source
  BY DEF Observations, EvidenceOf
<1>2. SUFFICES ASSUME NEW k \in Keys, k.family \in CounterFamilies,
                      NEW i \in 1..Len(history'[k]),
                      \A j \in 1..(i - 1) : history'[k][j].source # history'[k][i].source
               PROVE  SampledAs(Last(samples'[k][history'[k][i].source]), history'[k][i])
  BY SampleAfter DEF SampleInv
<1>3. /\ \A q \in Keys \ {o.key} : history'[q] = history[q]
      /\ history' \in [Keys -> Seq(Dated)]
      /\ Len(history'[o.key]) <= Len(history[o.key]) + 1
      /\ history'[o.key][1] = EvidenceOf(o)
      /\ \A j \in 2..Len(history'[o.key]) : history'[o.key][j] = history[o.key][j - 1]
  BY HistoryAfter
<1>4. \A q \in Keys, s \in Sources : q # o.key \/ s # o.source =>
        samples'[q][s] = samples[q][s]
  BY SampleAfter
<1>5. CASE k # o.key
  <2>1. history'[k] = history[k]
    BY <1>3, <1>5
  <2>2. history[k][i].source \in Sources
    BY <1>2, <2>1, HistoryTyped
  <2>3. samples'[k][history[k][i].source] = samples[k][history[k][i].source]
    BY <1>4, <1>5, <2>2
  <2>4. SampledAs(Last(samples[k][history[k][i].source]), history[k][i])
    BY <1>2, <2>1 DEF SampleInv
  <2>5. QED
    BY <2>1, <2>3, <2>4
<1>6. CASE k = o.key /\ i = 1
  BY <1>1, <1>2, <1>3, <1>6, SampleAfter
<1>7. CASE k = o.key /\ i # 1
  <2> DEFINE new == history'[k]
             old == history[k]
  <2>1. /\ Len(new) \in Nat /\ Len(old) \in Nat /\ Len(new) <= Len(old) + 1
        /\ new[1] = EvidenceOf(o) /\ \A j \in 2..Len(new) : new[j] = old[j - 1]
    <3>1. new \in Seq(Dated)
      BY <1>3
    <3>2. QED
      BY <1>3, <1>7, <3>1, HistoryTyped
  <2>2. \A j \in 1..(i - 1) : new[j].source # new[i].source
    BY <1>2
  <2>3. i \in 1..Len(new)
    BY <1>2
  <2> HIDE DEF new, old
  <2>4. i \in 2..Len(new) /\ i - 1 \in 1..Len(old) /\ new[i] = old[i - 1]
    BY <1>7, <2>1, <2>3
  <2>5. new[i].source # o.source
    BY <1>1, <2>1, <2>2, <2>4
  <2>6. ASSUME NEW j \in 1..(i - 2) PROVE old[j].source # old[i - 1].source
    <3>1. j + 1 \in 2..(i - 1) /\ j + 1 \in 2..Len(new) /\ j + 1 \in 1..(i - 1)
      BY <2>1, <2>4
    <3>2. new[j + 1] = old[j]
      BY <2>1, <3>1
    <3>3. QED
      BY <2>2, <2>4, <3>1, <3>2
  <2>7. (i - 1) - 1 = i - 2
    BY <2>1, <2>4
  <2>8. SampledAs(Last(samples[k][old[i - 1].source]), old[i - 1])
    BY <1>2, <2>4, <2>6, <2>7 DEF SampleInv, old
  <2>9. old[i - 1].source \in Sources
    BY <2>4, HistoryTyped DEF old
  <2>10. samples'[k][new[i].source] = samples[k][old[i - 1].source]
    BY <1>4, <2>4, <2>5, <2>9
  <2>11. QED
    BY <2>4, <2>8, <2>10 DEF new
<1>8. QED
  BY <1>5, <1>6, <1>7

LEMMA EvidenceStep ==
  ASSUME EvidenceInv, [Next]_vars
  PROVE  EvidenceInv'
<1> USE DEF EvidenceInv
<1>1. CASE Tick
  <2>1. /\ now' = now + 1 /\ now \in Nat
        /\ UNCHANGED <<generation, scope, history, samples, gap, revision, gapCount, accepted>>
    BY <1>1 DEF Tick, evidenceVars, ClockInv
  <2>2. GapInv'
    <3>1. \A k \in Keys : gap[k].at \in Nat /\ gap[k].at <= now
      BY DEF GapInv
    <3>2. \A k \in Keys : gap[k].at <= now + 1
      BY <2>1, <3>1
    <3>3. QED
      BY <2>1, <3>2 DEF GapInv
  <2>3. ClockInv'
    BY <2>1 DEF ClockInv
  <2>4. HistoryInv' /\ SampleInv'
    BY <2>1 DEF HistoryInv, SampleInv
  <2>5. QED
    BY <2>2, <2>3, <2>4
<1>2. CASE UNCHANGED vars
  BY <1>2 DEF vars, evidenceVars, ClockInv, HistoryInv, GapInv, SampleInv
<1>3. ASSUME NEW o \in Observations, Accept(o) PROVE EvidenceInv'
  BY <1>3, ClockStep, HistoryStep, GapStep, SampleStep
<1>4. ASSUME NEW o \in Observations, Refuse(o) PROVE EvidenceInv'
  <2>1. ClockInv' /\ now' = now
    BY <1>4, ClockStep
  <2>2. UNCHANGED <<history, samples, gap, accepted>>
    BY <1>4 DEF Refuse
  <2>3. QED
    BY <2>1, <2>2 DEF HistoryInv, GapInv, SampleInv
<1>5. QED
  BY <1>1, <1>2, <1>3, <1>4, StepCases

LEMMA EvidenceInvariant == Spec => []EvidenceInv
<1>1. Init => EvidenceInv
  <2> SUFFICES ASSUME Init PROVE EvidenceInv
    OBVIOUS
  <2>1. ClockInv
    BY DEF Init, ClockInv
  <2>2. HistoryInv
    BY ObservatoryAssumption DEF Init, HistoryInv
  <2>3. GapInv
    BY DEF Init, GapInv, NoGap
  <2>4. SampleInv
    BY DEF Init, SampleInv
  <2>5. QED
    BY <2>1, <2>2, <2>3, <2>4 DEF EvidenceInv
<1>2. QED
  BY <1>1, EvidenceStep, PTL DEF Spec

-----------------------------------------------------------------------------
(***************************************************************************)
(* What a reader is told, from the evidence of the link.                   *)
(***************************************************************************)
\* The family of a key says which readings it has; state keys have no direction.
LEMMA KeyTyped ==
  ASSUME NEW k \in Keys
  PROVE  /\ k.family \in Families
         /\ k.family = "OperState" => k = OperKey
         /\ k.family = "AdminState" => k = AdminKey
<1>1. ValidKey(k)
  BY PolicyAssumption DEF ValidPolicy
<1>2. QED
  BY <1>1 DEF ValidKey, OperKey, AdminKey, DirectionalFamilies

\* The evidence kept of a key is finite, typed, and told apart by the order of
\* acceptance.
LEMMA EvidenceKept ==
  ASSUME HistoryInv, NEW k \in Keys
  PROVE  /\ IsFiniteSet(Range(history[k])) /\ Cardinality(Range(history[k])) <= MaxEvidence
         /\ \A e \in Range(history[k]) :
              /\ e.source \in Sources /\ e.accepted \in Nat
              /\ e.observed_at \in Int /\ e.received_at \in Int
              /\ e.payload \in Payloads[k]
         /\ \A e, f \in Range(history[k]) : e.accepted = f.accepted => e = f
<1>1. history[k] \in Seq(Dated) /\ Len(history[k]) \in Nat
  BY HistoryTyped
<1>2. Range(history[k]) = {history[k][i] : i \in 1..Len(history[k])}
  BY <1>1 DEF Range
<1>3. IsFiniteSet(Range(history[k])) /\ Cardinality(Range(history[k])) <= MaxEvidence
  <2>1. IsFiniteSet(Range(history[k])) /\ Cardinality(Range(history[k])) <= Len(history[k])
    BY <1>1, RangeFinite
  <2>2. Cardinality(Range(history[k])) \in Nat
    BY <2>1, FS_CardinalityType
  <2>3. Len(history[k]) <= MaxEvidence /\ MaxEvidence \in Nat
    BY ObservatoryAssumption DEF HistoryInv
  <2>4. QED
    BY <1>1, <2>1, <2>2, <2>3
<1>4. \A i \in 1..Len(history[k]) :
        /\ history[k][i].source \in Sources /\ history[k][i].accepted \in Nat
        /\ history[k][i].observed_at \in Int /\ history[k][i].received_at \in Int
        /\ history[k][i].payload \in Payloads[k]
  BY HistoryTyped DEF HistoryInv
<1>5. ASSUME NEW i \in 1..Len(history[k]), NEW j \in 1..Len(history[k]),
             history[k][i].accepted = history[k][j].accepted
      PROVE  i = j
  <2>1. \A p, q \in 1..Len(history[k]) : p < q => history[k][q].accepted < history[k][p].accepted
    BY DEF HistoryInv
  <2>2. ~(i < j) /\ ~(j < i)
    BY <1>4, <1>5, <2>1
  <2>3. QED
    BY <1>1, <2>2
<1>6. QED
  BY <1>2, <1>3, <1>4, <1>5

\* A reading is never fresher at a later instant.
LEMMA FreshnessFalls ==
  ASSUME NEW v, NEW w, v.now \in Int, w.now \in Int, v.now <= w.now,
         NEW e, e.observed_at \in Int, e.received_at \in Int, NEW f \in Families
  PROVE  Strength[Freshness(w, e, f)] <= Strength[Freshness(v, e, f)]
<1> DEFINE Effective(x) == Max({Age(x, e.observed_at), Age(x, e.received_at)})
<1>1. /\ Age(v, e.observed_at) \in Nat /\ Age(w, e.observed_at) \in Nat
      /\ Age(v, e.observed_at) <= Age(w, e.observed_at)
  BY DEF Age
<1>2. /\ Age(v, e.received_at) \in Nat /\ Age(w, e.received_at) \in Nat
      /\ Age(v, e.received_at) <= Age(w, e.received_at)
  BY DEF Age
<1>3. \A a, b \in Nat : /\ Max({a, b}) \in {a, b}
                        /\ a <= Max({a, b}) /\ b <= Max({a, b})
  BY DEF Max
<1>4. Effective(v) \in Nat /\ Effective(w) \in Nat /\ Effective(v) <= Effective(w)
  BY <1>1, <1>2, <1>3
<1>5. FreshWithin[f] \in Nat /\ UsableWithin[f] \in Nat /\ FreshWithin[f] < UsableWithin[f]
  BY PolicyAssumption DEF ValidPolicy
<1>6. \A x : Freshness(x, e, f) =
        IF Effective(x) <= FreshWithin[f] THEN "Fresh"
        ELSE IF Effective(x) <= UsableWithin[f] THEN "Stale" ELSE "Expired"
  BY DEF Freshness
<1> HIDE DEF Effective
<1>7. Strength["Fresh"] = 3 /\ Strength["Stale"] = 2 /\ Strength["Expired"] = 1
  BY DEF Strength
<1>8. QED
  BY <1>4, <1>5, <1>6, <1>7

\* Fresh is recent in both instants; an instant ahead of the clock is recent.
LEMMA FreshMeans ==
  ASSUME NEW v, v.now \in Int, NEW e, e.observed_at \in Int, e.received_at \in Int,
         NEW f \in Families
  PROVE  Freshness(v, e, f) = "Fresh" <=>
           v.now - e.observed_at <= FreshWithin[f] /\ v.now - e.received_at <= FreshWithin[f]
<1> DEFINE a == Age(v, e.observed_at)
           b == Age(v, e.received_at)
<1>1. a \in Nat /\ b \in Nat
  BY DEF Age
<1>2. Max({a, b}) \in {a, b} /\ a <= Max({a, b}) /\ b <= Max({a, b})
  <2> HIDE DEF a, b
  <2>1. \E x \in {a, b} : \A y \in {a, b} : x >= y
    BY <1>1
  <2>2. Max({a, b}) \in {a, b} /\ \A y \in {a, b} : Max({a, b}) >= y
    BY <2>1 DEF Max
  <2>3. QED
    BY <1>1, <2>2
<1>3. FreshWithin[f] \in Nat
  BY PolicyAssumption DEF ValidPolicy
<1>4. Freshness(v, e, f) = "Fresh" <=> Max({a, b}) <= FreshWithin[f]
  BY DEF Freshness
<1>5. Max({a, b}) <= FreshWithin[f] <=> a <= FreshWithin[f] /\ b <= FreshWithin[f]
  BY <1>1, <1>2, <1>3
<1>6. /\ a <= FreshWithin[f] <=> v.now - e.observed_at <= FreshWithin[f]
      /\ b <= FreshWithin[f] <=> v.now - e.received_at <= FreshWithin[f]
  BY <1>3 DEF Age
<1>7. QED
  BY <1>4, <1>5, <1>6

\* As time passes evidence only ages, however its source had dated it: nothing a
\* reader was refused for its age is offered again later
\* (age_evidence, classify_freshness).
THEOREM TimeOnlyAges == Spec => AgeingNeverRefreshes
<1> DEFINE Step == now' > now => \A k \in Keys : \A e \in Range(history[k]) :
        Strength[Freshness(View, e, k.family)'] <= Strength[Freshness(View, e, k.family)]
<1>1. EvidenceInv /\ EvidenceInv' /\ [Next]_vars => [Step]_vars
  <2> SUFFICES ASSUME EvidenceInv, EvidenceInv', now' > now,
                      NEW k \in Keys, NEW e \in Range(history[k])
               PROVE  Strength[Freshness(View, e, k.family)']
                        <= Strength[Freshness(View, e, k.family)]
    OBVIOUS
  <2>1. e.observed_at \in Int /\ e.received_at \in Int
    BY EvidenceKept DEF EvidenceInv
  <2>2. k.family \in Families
    BY KeyTyped
  <2>3. View.now = now /\ View'.now = now' /\ now \in Int /\ now' \in Int /\ now <= now'
    BY DEF View, EvidenceInv, ClockInv
  <2>4. Strength[Freshness(View', e, k.family)] <= Strength[Freshness(View, e, k.family)]
    BY <2>1, <2>2, <2>3, FreshnessFalls
  <2>5. QED
    BY <2>4 DEF Freshness, Age
<1>2. QED
  BY <1>1, EvidenceInvariant, PTL DEF Spec, AgeingNeverRefreshes

-----------------------------------------------------------------------------
(***************************************************************************)
(* Contenders and winners.  The scan of the contenders may stop before it  *)
(* has seen every source; what is said of all current evidence supposes    *)
(* that it does not, because no more sources are registered or no more     *)
(* evidence is kept than it takes.                                         *)
(***************************************************************************)
ContendersFit == MaxEvidence <= MaxContenders \/ Cardinality(Sources) <= MaxContenders

\* The parts of a view.
LEMMA ViewParts ==
  /\ View.now = now /\ View.generation = generation /\ View.scope = scope
  /\ View.history = history /\ View.samples = samples /\ View.gap = gap
BY DEF View

\* No source is twice among the newest.
LEMMA NewestOfSource ==
  ASSUME HistoryInv, NEW k \in Keys, NEW e \in Newest(View, k), NEW f \in Newest(View, k), e # f
  PROVE  e.source # f.source /\ e.accepted # f.accepted
<1>1. e \in Range(history[k]) /\ f \in Range(history[k])
  BY ViewParts DEF Newest
<1>2. e.accepted # f.accepted
  BY <1>1, EvidenceKept
<1>3. e.accepted \in Nat /\ f.accepted \in Nat
  BY <1>1, EvidenceKept
<1>4. e.source = f.source => e.accepted <= f.accepted /\ f.accepted <= e.accepted
  BY <1>1, ViewParts DEF Newest
<1>5. QED
  BY <1>2, <1>3, <1>4

LEMMA NewestContend ==
  ASSUME HistoryInv, ContendersFit, NEW k \in Keys
  PROVE  Contenders(View, k) = Newest(View, k)
<1> SUFFICES ASSUME NEW e \in Newest(View, k)
             PROVE  Cardinality({f \in Newest(View, k) : f.accepted > e.accepted}) < MaxContenders
  BY DEF Contenders
<1> DEFINE Ahead == {f \in Newest(View, k) : f.accepted > e.accepted}
           All == Ahead \cup {e}
<1>1. Newest(View, k) \subseteq Range(history[k])
  BY ViewParts DEF Newest
<1>2. All \subseteq Newest(View, k) /\ All \subseteq Range(history[k])
  BY <1>1
<1>3. e \notin Ahead
  BY <1>1, EvidenceKept
<1>4. IsFiniteSet(Ahead) /\ IsFiniteSet(All)
  BY <1>1, <1>2, EvidenceKept, FS_Subset
<1> HIDE DEF Ahead
<1>5. Cardinality(All) = Cardinality(Ahead) + 1
  BY <1>3, <1>4, FS_AddElement
<1>6. Cardinality(Ahead) \in Nat /\ Cardinality(All) \in Nat
  BY <1>4, FS_CardinalityType
<1> HIDE DEF All
<1>7. MaxContenders \in Nat /\ MaxEvidence \in Nat
  BY PolicyAssumption, ObservatoryAssumption DEF ValidPolicy
<1>8. CASE MaxEvidence <= MaxContenders
  <2>1. IsFiniteSet(Range(history[k])) /\ Cardinality(Range(history[k])) <= MaxEvidence
    BY EvidenceKept
  <2>2. Cardinality(All) <= Cardinality(Range(history[k])) /\ Cardinality(Range(history[k])) \in Nat
    BY <1>2, <2>1, FS_Subset, FS_CardinalityType
  <2>3. QED
    BY <1>5, <1>6, <1>7, <1>8, <2>1, <2>2 DEF Ahead
<1>9. CASE Cardinality(Sources) <= MaxContenders
  <2> DEFINE g == [f \in All |-> f.source]
  <2>1. \A f \in All : f.source \in Sources
    BY <1>2, EvidenceKept
  <2>2. \A f, h \in All : f # h => f.source # h.source
    BY <1>2, NewestOfSource
  <2>3. g \in Injection(All, Sources)
    BY <2>1, <2>2 DEF Injection, IsInjective
  <2>4. IsFiniteSet(Sources) /\ Cardinality(Sources) \in Nat
    BY PolicyAssumption, FS_CardinalityType DEF ValidPolicy
  <2>5. Cardinality(All) <= Cardinality(Sources)
    BY <2>3, <2>4, FS_Injection
  <2>6. QED
    BY <1>5, <1>6, <1>7, <1>9, <2>4, <2>5 DEF Ahead
<1>10. QED
  BY <1>8, <1>9 DEF ContendersFit

\* What is eligible is current, and all that is current is eligible when the
\* scan sees every source.
LEMMA EligibleIsCurrent ==
  ASSUME ClockInv, HistoryInv, NEW k \in Keys
  PROVE  /\ EligibleContenders(View, k) \subseteq Newest(View, k)
         /\ EligibleContenders(View, k) \subseteq Current(k)
         /\ Current(k) \subseteq Range(history[k])
         /\ ContendersFit => EligibleContenders(View, k) = Current(k)
<1>1. \A e \in Range(history[k]) :
        Eligible(View, k, e) <=>
          /\ now - e.observed_at <= FreshWithin[k.family]
          /\ now - e.received_at <= FreshWithin[k.family]
          /\ e.scope = scope[e.source] /\ e.generation = generation
  <2> TAKE e \in Range(history[k])
  <2>1. e.observed_at \in Int /\ e.received_at \in Int /\ View.now \in Int /\ k.family \in Families
    BY EvidenceKept, KeyTyped, ViewParts DEF ClockInv
  <2>2. Freshness(View, e, k.family) = "Fresh" <=>
          View.now - e.observed_at <= FreshWithin[k.family]
            /\ View.now - e.received_at <= FreshWithin[k.family]
    BY <2>1, FreshMeans
  <2>3. QED
    BY <2>2, ViewParts DEF Eligible, InForce
<1>2. Newest(View, k) =
        {e \in Range(history[k]) : \A f \in Range(history[k]) :
                                     f.source = e.source => f.accepted <= e.accepted}
  BY ViewParts DEF Newest
<1>3. Current(k) = {e \in Newest(View, k) : Eligible(View, k, e)}
  BY <1>1, <1>2 DEF Current
<1>4. Contenders(View, k) \subseteq Newest(View, k)
  BY DEF Contenders
<1>5. EligibleContenders(View, k) = {e \in Contenders(View, k) : Eligible(View, k, e)}
  BY DEF EligibleContenders
<1>6. ContendersFit => Contenders(View, k) = Newest(View, k)
  BY NewestContend
<1>7. Current(k) \subseteq Range(history[k])
  BY DEF Current
<1>8. QED
  BY <1>3, <1>4, <1>5, <1>6, <1>7

\* Priority is a strict order, total between different sources.
Ranked(e) ==
  /\ e.source \in Sources /\ e.source \in Nat /\ Authority[e.source] \in 0..4
  /\ e.observed_at \in Int /\ e.received_at \in Int

LEMMA PriorityOrder ==
  /\ \A e : Ranked(e) => ~HigherPriority(e, e)
  /\ \A e, f, g : Ranked(e) /\ Ranked(f) /\ Ranked(g)
                  /\ HigherPriority(e, f) /\ HigherPriority(f, g) => HigherPriority(e, g)
  /\ \A e, f : Ranked(e) /\ Ranked(f) /\ e.source # f.source
               => HigherPriority(e, f) \/ HigherPriority(f, e)
  /\ \A e, f : Ranked(e) /\ Ranked(f) /\ HigherPriority(e, f)
               => Authority[f.source] <= Authority[e.source]
BY DEF Ranked, HigherPriority

LEMMA EvidenceRanked ==
  ASSUME HistoryInv, NEW k \in Keys, NEW e \in Range(history[k])
  PROVE  Ranked(e)
<1>1. e.source \in Sources /\ e.observed_at \in Int /\ e.received_at \in Int
  BY EvidenceKept
<1>2. Sources \subseteq Nat /\ Authority \in [Sources -> 0..4]
  BY PolicyAssumption DEF ValidPolicy
<1>3. QED
  BY <1>1, <1>2 DEF Ranked

\* The winner beats every other, and none has a higher authority.
LEMMA WinnerBeats ==
  ASSUME HistoryInv, NEW k \in Keys, NEW E \in SUBSET Newest(View, k), E # {}
  PROVE  /\ SelectWinner(E) \in E
         /\ \A f \in E \ {SelectWinner(E)} : HigherPriority(SelectWinner(E), f)
         /\ \A f \in E : Authority[f.source] <= Authority[SelectWinner(E).source]
<1>1. \A e \in E : e \in Newest(View, k) /\ e \in Range(history[k])
  BY ViewParts DEF Newest
<1>2. \A e \in E : Ranked(e)
  BY <1>1, EvidenceRanked
<1>3. \A e, f \in E : e # f => e.source # f.source
  BY <1>1, NewestOfSource
<1>4. IsFiniteSet(E)
  <2>1. IsFiniteSet(Range(history[k])) /\ E \subseteq Range(history[k])
    BY <1>1, EvidenceKept
  <2>2. QED
    BY <2>1, FS_Subset
<1> DEFINE R == {p \in E \X E : HigherPriority(p[1], p[2])}
<1>5. \A e, f \in E : <<e, f>> \in R <=> HigherPriority(e, f)
  OBVIOUS
<1> HIDE DEF R
<1>6. \A x \in E : <<x, x>> \notin R
  BY <1>2, <1>5, PriorityOrder
<1>7. \A x, y, z \in E : <<x, y>> \in R /\ <<y, z>> \in R => <<x, z>> \in R
  BY <1>2, <1>5, PriorityOrder
<1>8. PICK w \in E : \A x \in E : <<x, w>> \notin R
  BY <1>4, <1>6, <1>7, MaximalExists
<1>9. \A f \in E \ {w} : HigherPriority(w, f)
  BY <1>2, <1>3, <1>5, <1>8, PriorityOrder
<1>10. {e \in E : \A f \in E : ~HigherPriority(f, e)} = {w}
  BY <1>5, <1>8, <1>9
<1>11. SelectWinner(E) = w
  <2>1. w.accepted <= w.accepted
    BY <1>1, EvidenceKept
  <2>2. SelectWinner(E) = CHOOSE e \in {w} : \A f \in {w} : f.accepted <= e.accepted
    BY <1>10 DEF SelectWinner
  <2>3. QED
    BY <2>1, <2>2
<1>12. \A f \in E : Authority[f.source] <= Authority[w.source]
  <2> TAKE f \in E
  <2>1. CASE f = w
    BY <1>2, <2>1 DEF Ranked
  <2>2. CASE f # w
    BY <1>2, <1>9, <2>2, PriorityOrder
  <2>3. QED
    BY <2>1, <2>2
<1>13. QED
  BY <1>8, <1>9, <1>11, <1>12

\* The report of a key, field by field.
ConflictOf(k) ==
  Conflict(View, k, SelectWinner(EligibleContenders(View, k)),
           TopContenders(EligibleContenders(View, k)))

LEMMA ReportFields ==
  ASSUME HistoryInv, NEW k \in Keys, NEW r, r = Reports(View)[k],
         NEW E, E = EligibleContenders(View, k), NEW w, w = SelectWinner(E)
  PROVE  /\ r.has_value \in BOOLEAN /\ (r.has_value <=> E # {})
         /\ r.has_value =>
              /\ Supported(View, k) /\ r.winner = w /\ r.conflict = ConflictOf(k)
              /\ r.value = IF k.family \in CounterFamilies THEN w.payload.raw
                           ELSE w.payload.value
              /\ r.rate = IF k.family \in CounterFamilies
                          THEN DeriveFor(View, k, w.source) ELSE NoRate
              /\ r.confidence = DeriveConfidence(Authority[w.source],
                                  Freshness(View, w, k.family), ConflictOf(k),
                                  Completeness(View, k))
         /\ ~r.has_value => r.conflict = "None"
<1>1. r = ReportOf(View, k)
  BY DEF Reports
<1>2. CASE ~Supported(View, k)
  <2>1. history[k] = <<>>
    BY <1>2, ViewParts DEF Supported
  <2>2. Range(history[k]) = {}
    BY <2>1 DEF Range
  <2>3. E = {}
    BY <2>2, ViewParts DEF EligibleContenders, Contenders, Newest
  <2>4. r = NoReport
    BY <1>1, <1>2 DEF ReportOf
  <2>5. r.has_value = FALSE /\ r.conflict = "None"
    <3>1. NoReport.has_value = FALSE /\ NoReport.conflict = "None"
      BY DEF NoReport
    <3>2. QED
      BY <2>4, <3>1, Zenon
  <2>6. QED
    BY <2>3, <2>5
<1>3. CASE Supported(View, k) /\ E = {}
  <2> DEFINE fresh == CHOOSE f \in DOMAIN Strength : Strength[f] =
               Max({Strength[Freshness(View, e, k.family)] : e \in Contenders(View, k)})
  <2>1. r = [NoReport EXCEPT !.freshness = fresh, !.completeness = Completeness(View, k)]
    BY <1>1, <1>3 DEF ReportOf
  <2> HIDE DEF fresh
  <2>2. QED
    BY <1>3, <2>1 DEF NoReport
<1>4. CASE Supported(View, k) /\ E # {}
  <2> DEFINE fresh == CHOOSE f \in DOMAIN Strength : Strength[f] =
               Max({Strength[Freshness(View, e, k.family)] : e \in Contenders(View, k)})
             aged == [NoReport EXCEPT !.freshness = fresh, !.completeness = Completeness(View, k)]
             conf == DeriveConfidence(Authority[w.source], Freshness(View, w, k.family),
                                      ConflictOf(k), Completeness(View, k))
             value == IF k.family \in CounterFamilies THEN w.payload.raw ELSE w.payload.value
             rate == IF k.family \in CounterFamilies THEN DeriveFor(View, k, w.source) ELSE NoRate
  <2>1. r = [aged EXCEPT !.has_value = TRUE, !.conflict = ConflictOf(k), !.confidence = conf,
                         !.winner = w, !.value = value, !.rate = rate]
    BY <1>1, <1>4 DEF ReportOf, ConflictOf
  <2> HIDE DEF fresh, conf, value, rate
  <2>2. /\ r.has_value = TRUE /\ r.conflict = ConflictOf(k) /\ r.confidence = conf
        /\ r.winner = w /\ r.value = value /\ r.rate = rate
    BY <2>1 DEF NoReport
  <2>3. QED
    BY <1>4, <2>2 DEF conf, value, rate
<1>5. QED
  BY <1>2, <1>3, <1>4

\* The winner of a key beats every other current reading outright, so it does
\* not depend on the order of arrival (select_winner, higher_priority).
THEOREM WinnerIsBest ==
  ASSUME ContendersFit
  PROVE  Spec => []WinnerBeatsAll
<1>1. EvidenceInv => WinnerBeatsAll
  <2> SUFFICES ASSUME EvidenceInv, NEW k \in Keys, Reports(View)[k].has_value,
                      NEW e \in Current(k) \ {Reports(View)[k].winner}
               PROVE  HigherPriority(Reports(View)[k].winner, e)
    BY DEF WinnerBeatsAll
  <2> DEFINE E == EligibleContenders(View, k)
  <2>1. ClockInv /\ HistoryInv
    BY DEF EvidenceInv
  <2>2. E # {} /\ Reports(View)[k].winner = SelectWinner(E)
    BY <2>1, ReportFields
  <2>3. E = Current(k) /\ E \subseteq Newest(View, k)
    BY <2>1, EligibleIsCurrent
  <2>4. \A f \in E \ {SelectWinner(E)} : HigherPriority(SelectWinner(E), f)
    BY <2>1, <2>2, <2>3, WinnerBeats
  <2>5. QED
    BY <2>2, <2>3, <2>4
<1>2. QED
  BY <1>1, EvidenceInvariant, PTL

\* The first of a source in the history is its newest.
LEMMA NewestIsFirst ==
  ASSUME HistoryInv, NEW k \in Keys, NEW e \in Newest(View, k)
  PROVE  \E i \in 1..Len(history[k]) :
           /\ history[k][i] = e
           /\ \A j \in 1..(i - 1) : history[k][j].source # e.source
<1>1. history[k] \in Seq(Dated) /\ Len(history[k]) \in Nat
  BY HistoryTyped
<1>2. Range(history[k]) = {history[k][i] : i \in 1..Len(history[k])}
  BY <1>1 DEF Range
<1>3. PICK i \in 1..Len(history[k]) : history[k][i] = e
  BY <1>2, ViewParts DEF Newest
<1>4. ASSUME NEW j \in 1..(i - 1), history[k][j].source = e.source PROVE FALSE
  <2>1. j \in 1..Len(history[k]) /\ j < i
    BY <1>1, <1>3
  <2>2. history[k][i].accepted < history[k][j].accepted
    BY <1>3, <2>1 DEF HistoryInv
  <2>3. history[k][j] \in Range(history[k])
    BY <1>2, <2>1
  <2>4. history[k][j].accepted <= e.accepted
    BY <1>4, <2>3, ViewParts DEF Newest
  <2>5. history[k][i].accepted \in Nat /\ history[k][j].accepted \in Nat
    BY <1>3, <2>1, HistoryTyped
  <2>6. QED
    BY <1>3, <2>2, <2>4, <2>5
<1>5. QED
  BY <1>3, <1>4

\* A rate is derived from the reading that won: the last sample of the winner's
\* source is the winner, however many readings were refused, evicted or reset
\* since (derive_for, observe_counter).
THEOREM RateIsOfTheWinner == Spec => []WinnerIsSampled
<1>1. EvidenceInv => WinnerIsSampled
  <2> SUFFICES ASSUME EvidenceInv, NEW k \in Keys, k.family \in CounterFamilies,
                      Reports(View)[k].has_value, NEW e, e = Reports(View)[k].winner
               PROVE  SampledAs(Last(samples[k][e.source]), e)
    BY DEF WinnerIsSampled, SampledAs
  <2> DEFINE E == EligibleContenders(View, k)
  <2>1. ClockInv /\ HistoryInv /\ SampleInv
    BY DEF EvidenceInv
  <2>2. E # {} /\ e = SelectWinner(E)
    BY <2>1, ReportFields
  <2>3. E \subseteq Newest(View, k)
    BY <2>1, EligibleIsCurrent
  <2>4. e \in Newest(View, k)
    BY <2>1, <2>2, <2>3, WinnerBeats
  <2>5. PICK i \in 1..Len(history[k]) :
          /\ history[k][i] = e
          /\ \A j \in 1..(i - 1) : history[k][j].source # e.source
    BY <2>1, <2>4, NewestIsFirst
  <2>6. QED
    BY <2>1, <2>5 DEF SampleInv
<1>2. QED
  BY <1>1, EvidenceInvariant, PTL

-----------------------------------------------------------------------------
(***************************************************************************)
(* The verdict.  A source registered with the authority "unknown" takes no *)
(* part in conflicts, so contradictions are found among the others.        *)
(***************************************************************************)
AllRanked == \A s \in Sources : Authority[s] # 0

LEMMA ReportedIs ==
  Reported = State(View, Reports(View), FlapEvents(log))
BY DEF Reported, Verdict

\* What is excluded when a link is called healthy.
LEMMA HealthyMeans ==
  ASSUME Reported = "Healthy", NEW r, r = Reports(View)
  PROVE  /\ \A k \in Keys : r[k].conflict # "Conflicting"
         /\ ~Reads(r, AdminKey, "Disabled") /\ ~SourceFlapping(r)
         /\ ~SaturatedReported(r) /\ Reads(r, OperKey, "Up")
<1> DEFINE n == FlapEvents(log)
<1>1. State(View, r, n) = "Healthy"
  BY ReportedIs
<1> HIDE DEF n
<1>2. QED
  BY <1>1 DEF State

\* Readings of the leading authority that contradict each other conflict.
LEMMA LeadersConflict ==
  ASSUME ClockInv, HistoryInv, ContendersFit, NEW k \in Keys,
         k.family \in {"AdminState", "OperState"},
         NEW e \in Leading(k), NEW f \in Leading(k), Authority[e.source] # 0,
         e.payload.value # f.payload.value,
         e.payload.value # "Unknown", f.payload.value # "Unknown"
  PROVE  Reports(View)[k].conflict = "Conflicting"
<1> DEFINE E == EligibleContenders(View, k)
           w == SelectWinner(E)
           Top == TopContenders(E)
<1>1. E = Current(k) /\ E \subseteq Newest(View, k) /\ E \subseteq Range(history[k])
  BY EligibleIsCurrent
<1>2. e \in E /\ f \in E /\ e # f
  BY <1>1 DEF Leading
<1>3. \A x \in E : Authority[x.source] \in 0..4
  BY <1>1, EvidenceRanked DEF Ranked
<1>4. \A x \in E : Authority[x.source] <= Authority[e.source] /\ Authority[x.source] <= Authority[f.source]
  BY <1>1, <1>2, <1>3 DEF Leading, Outranked
<1> HIDE DEF E, w
<1>5. e \in Top /\ f \in Top /\ Top \subseteq E
  BY <1>2, <1>3, <1>4 DEF TopContenders
<1>6. IsFiniteSet(Top)
  BY <1>1, <1>5, EvidenceKept, FS_Subset
<1>7. e.accepted # f.accepted /\ e.accepted \in Nat /\ f.accepted \in Nat
  BY <1>1, <1>2, EvidenceKept, NewestOfSource
<1> HIDE DEF Top
<1>8. ~(Cardinality(Top) < 2)
  <2>1. IsFiniteSet({e}) /\ Cardinality({e}) = 1
    BY FS_Singleton
  <2>2. Cardinality({e} \cup {f}) = Cardinality({e}) + 1 /\ IsFiniteSet({e} \cup {f})
    BY <1>2, <2>1, FS_AddElement
  <2>3. Cardinality({e} \cup {f}) <= Cardinality(Top) /\ Cardinality(Top) \in Nat
    BY <1>5, <1>6, FS_Subset, FS_CardinalityType
  <2>4. QED
    BY <2>1, <2>2, <2>3
<1>9. AnyPairConflicts(View, k, w, Top)
  <2>1. ReadingsDisagree(k, e.payload, f.payload) /\ ReadingsDisagree(k, f.payload, e.payload)
    BY DEF ReadingsDisagree
  <2>2. k.family \notin CounterFamilies
    BY DEF CounterFamilies
  <2>3. PairConflicts(View, k, w, e, f) /\ PairConflicts(View, k, w, f, e)
    BY <2>1, <2>2 DEF PairConflicts
  <2>4. e.accepted > f.accepted \/ f.accepted > e.accepted
    BY <1>7
  <2>5. QED
    BY <1>5, <2>3, <2>4 DEF AnyPairConflicts
<1>10. Conflict(View, k, w, Top) = "Conflicting"
  BY <1>5, <1>8, <1>9 DEF Conflict
<1>11. Reports(View)[k].has_value /\ Reports(View)[k].conflict = ConflictOf(k)
  BY <1>2, ReportFields DEF E
<1>12. QED
  BY <1>10, <1>11 DEF ConflictOf, E, w, Top

\* A link is called healthy only on a current "up" that no current reading of
\* equal or higher authority contradicts (classify, the healthy rule).
THEOREM HealthIsWarranted ==
  ASSUME ContendersFit, AllRanked
  PROVE  Spec => []HealthyIsWarranted
<1>1. EvidenceInv => HealthyIsWarranted
  <2> SUFFICES ASSUME EvidenceInv, Reported = "Healthy"
               PROVE  \E e \in Current(OperKey) :
                        /\ e.payload.value = "Up"
                        /\ \A f \in Current(OperKey) :
                             Authority[f.source] >= Authority[e.source] =>
                               f.payload.value \in {"Up", "Unknown"}
    BY DEF HealthyIsWarranted
  <2> DEFINE E == EligibleContenders(View, OperKey)
             w == SelectWinner(E)
             r == Reports(View)
  <2>1. ClockInv /\ HistoryInv
    BY DEF EvidenceInv
  <2>2. OperKey \in Keys /\ OperKey.family = "OperState"
    BY PolicyAssumption DEF ValidPolicy, OperKey
  <2>3. r[OperKey].conflict # "Conflicting" /\ r[OperKey].has_value /\ r[OperKey].value = "Up"
    BY <2>2, HealthyMeans DEF Reads
  <2>4. E # {} /\ w.payload.value = "Up"
    BY <2>1, <2>2, <2>3, ReportFields DEF CounterFamilies
  <2>5. E = Current(OperKey) /\ E \subseteq Newest(View, OperKey) /\ E \subseteq Range(history[OperKey])
    BY <2>1, <2>2, EligibleIsCurrent
  <2>6. w \in E /\ \A f \in E : Authority[f.source] <= Authority[w.source]
    BY <2>1, <2>2, <2>4, <2>5, WinnerBeats
  <2>7. \A x \in E : x.source \in Sources /\ Authority[x.source] \in 0..4
    BY <2>1, <2>2, <2>5, EvidenceRanked DEF Ranked
  <2> HIDE DEF E, w
  <2>8. ASSUME NEW f \in E, Authority[f.source] >= Authority[w.source],
               f.payload.value \notin {"Up", "Unknown"}
        PROVE  FALSE
    <3>1. Authority[f.source] = Authority[w.source]
      BY <2>6, <2>7, <2>8
    <3>2. w \in Leading(OperKey) /\ f \in Leading(OperKey)
      BY <2>5, <2>6, <2>7, <3>1 DEF Leading, Outranked
    <3>3. Authority[w.source] # 0
      BY <2>6, <2>7 DEF AllRanked
    <3>4. QED
      BY <2>1, <2>2, <2>3, <2>4, <2>8, <3>2, <3>3, LeadersConflict
  <2>9. QED
    BY <2>4, <2>5, <2>6, <2>8
<1>2. QED
  BY <1>1, EvidenceInvariant, PTL

\* Two current readings of the leading authority that contradict each other make
\* the link conflicting, whatever else is known of it (the precedence of the rules).
THEOREM ContradictionIsReported ==
  ASSUME ContendersFit, AllRanked
  PROVE  Spec => []DisagreementReported
<1>1. EvidenceInv => DisagreementReported
  <2> SUFFICES ASSUME EvidenceInv, NEW k \in StateKeys, NEW e \in Leading(k), NEW f \in Leading(k),
                      {e.payload.value, f.payload.value} \in {{"Up", "Down"}, {"Enabled", "Disabled"}}
               PROVE  Reported = "Conflicting"
    BY DEF DisagreementReported
  <2>1. ClockInv /\ HistoryInv
    BY DEF EvidenceInv
  <2>2. k \in Keys /\ k.family \in {"AdminState", "OperState"}
    BY PolicyAssumption DEF ValidPolicy, StateKeys, OperKey, AdminKey
  <2>3. /\ e.payload.value # f.payload.value
        /\ e.payload.value # "Unknown" /\ f.payload.value # "Unknown"
    OBVIOUS
  <2>4. e \in Range(history[k])
    BY DEF Leading, Current
  <2>5. Authority[e.source] # 0
    BY <2>1, <2>2, <2>4, EvidenceKept DEF AllRanked
  <2>6. Reports(View)[k].conflict = "Conflicting"
    BY <2>1, <2>2, <2>3, <2>5, LeadersConflict
  <2>7. AnyEvidence(View)
    <3>1. history[k] # <<>>
      BY <2>4 DEF Range
    <3>2. QED
      BY <2>2, <3>1, ViewParts DEF AnyEvidence, Supported
  <2> DEFINE r == Reports(View)
             n == FlapEvents(log)
  <2>8. Reported = State(View, r, n)
    BY ReportedIs
  <2>9. r[k].conflict = "Conflicting"
    BY <2>6
  <2> HIDE DEF r, n
  <2>10. QED
    BY <2>2, <2>7, <2>8, <2>9 DEF State
<1>2. QED
  BY <1>1, EvidenceInvariant, PTL

-----------------------------------------------------------------------------
(***************************************************************************)
(* Values taken over all keys.                                             *)
(***************************************************************************)
LEMMA KeysFinite == IsFiniteSet(Keys)
<1>1. KeyOrder \in Seq(Keys)
  BY PolicyAssumption DEF ValidPolicy
<1>2. QED
  BY <1>1, RangeFinite DEF Keys

LEMMA GreatestBounds ==
  ASSUME NEW S \in SUBSET Nat, IsFiniteSet(S)
  PROVE  Greatest(S) \in Nat /\ \A x \in S : x \in Nat /\ x <= Greatest(S)
<1>1. S \cup {0} \in SUBSET Int /\ S \cup {0} # {}
  OBVIOUS
<1>2. IsFiniteSet(S \cup {0})
  BY FS_AddElement
<1>3. Greatest(S) \in S \cup {0} /\ \A x \in S \cup {0} : x <= Greatest(S)
  BY <1>1, <1>2, MaxOfFinite DEF Greatest
<1>4. \A x \in S \cup {0} : x \in Nat
  OBVIOUS
<1>5. QED
  BY <1>3, <1>4

\* The winner of a key with current evidence leads it.
LEMMA WinnerLeads ==
  ASSUME ClockInv, HistoryInv, ContendersFit, NEW k \in Keys, Current(k) # {},
         NEW w, w = SelectWinner(EligibleContenders(View, k))
  PROVE  /\ Reports(View)[k].has_value /\ w \in Current(k) /\ w \in Leading(k)
         /\ w.payload \in Payloads[k]
         /\ Authority[w.source] \in 0..4
         /\ \A f \in Current(k) :
              Authority[f.source] \in 0..4 /\ Authority[f.source] <= Authority[w.source]
<1> DEFINE E == EligibleContenders(View, k)
<1>1. E = Current(k) /\ E \subseteq Newest(View, k) /\ E \subseteq Range(history[k])
  BY EligibleIsCurrent
<1>2. \A f \in E : Authority[f.source] \in 0..4
  BY <1>1, EvidenceRanked DEF Ranked
<1>3. w \in E /\ \A f \in E : Authority[f.source] <= Authority[w.source]
  BY <1>1, WinnerBeats
<1>4. Reports(View)[k].has_value
  BY <1>1, ReportFields
<1>5. w \in Leading(k)
  BY <1>1, <1>2, <1>3 DEF Leading, Outranked
<1>6. w.payload \in Payloads[k]
  BY <1>1, <1>3, EvidenceKept
<1> HIDE DEF E
<1>7. QED
  BY <1>1, <1>2, <1>3, <1>4, <1>5, <1>6

\* The readings of a numeric family that hold a value, and their greatest.
LEMMA HeldValues ==
  ASSUME ClockInv, HistoryInv, NEW family \in {"UtilReported", "FlapReport"},
         NEW r, r = Reports(View)
  PROVE  /\ IsFiniteSet({r[k].value : k \in Held(r, family)})
         /\ {r[k].value : k \in Held(r, family)} \in SUBSET Nat
<1> DEFINE H == Held(r, family)
<1>1. IsFiniteSet(H)
  BY KeysFinite, FS_Subset DEF Held
<1>2. ASSUME NEW k \in H PROVE r[k].value \in Nat
  <2> DEFINE E == EligibleContenders(View, k)
             w == SelectWinner(E)
  <2>1. k \in Keys /\ k.family = family /\ r[k].has_value
    BY DEF Held
  <2>2. k.family \notin CounterFamilies
    BY <2>1 DEF CounterFamilies
  <2>3. E # {} /\ r[k].value = w.payload.value
    BY <2>1, <2>2, ReportFields
  <2>4. E \subseteq Newest(View, k) /\ E \subseteq Range(history[k])
    BY <2>1, EligibleIsCurrent
  <2>5. w \in E
    BY <2>1, <2>3, <2>4, WinnerBeats
  <2>6. w.payload \in Payloads[k]
    BY <2>1, <2>4, <2>5, EvidenceKept
  <2>7. w.payload \in Readings(family)
    BY <2>1, <2>6, ObservatoryAssumption
  <2> HIDE DEF w
  <2>8. w.payload \in [value : Nat]
    BY <2>7 DEF Readings, CounterFamilies
  <2>9. QED
    BY <2>3, <2>8
<1> DEFINE g == [k \in H |-> r[k].value]
<1>3. IsFiniteSet({g[k] : k \in H})
  <2>1. DOMAIN g = H /\ g = [k \in H |-> g[k]]
    OBVIOUS
  <2> HIDE DEF g
  <2>2. QED
    BY <1>1, <2>1, ValuesFinite
<1>4. {g[k] : k \in H} = {r[k].value : k \in H}
  OBVIOUS
<1>5. QED
  BY <1>2, <1>3, <1>4

\* A link is not called healthy while all that leads on a key is adverse: the
\* winner leads, and an adverse winner fires a rule above the healthy one.
THEOREM AdverseIsNotHidden ==
  ASSUME ContendersFit
  PROVE  Spec => []NothingAdverseHidden
<1>1. EvidenceInv => NothingAdverseHidden
  <2> SUFFICES ASSUME EvidenceInv, Reported = "Healthy", NEW k \in Keys, Leading(k) # {}
               PROVE  \E e \in Leading(k) : ~Adverse(k, e)
    BY DEF NothingAdverseHidden
  <2> DEFINE w == SelectWinner(EligibleContenders(View, k))
             r == Reports(View)
  <2>1. ClockInv /\ HistoryInv
    BY DEF EvidenceInv
  <2>2. Current(k) # {}
    BY DEF Leading
  <2>3. r[k].has_value /\ w \in Leading(k) /\ w.payload \in Payloads[k]
    BY <2>1, <2>2, WinnerLeads
  <2>4. k.family \notin CounterFamilies => r[k].value = w.payload.value
    BY <2>1, <2>3, ReportFields
  <2>5. /\ ~Reads(r, AdminKey, "Disabled") /\ ~SourceFlapping(r)
        /\ ~SaturatedReported(r) /\ Reads(r, OperKey, "Up")
    BY HealthyMeans
  <2> HIDE DEF w
  <2>6. ASSUME Adverse(k, w) PROVE FALSE
    <3>1. CASE k.family = "AdminState" /\ w.payload.value = "Disabled"
      <4>1. k = AdminKey /\ r[k].value = "Disabled"
        BY <2>4, <3>1, KeyTyped DEF CounterFamilies
      <4>2. QED
        BY <2>3, <2>5, <4>1 DEF Reads
    <3>2. CASE k.family = "OperState" /\ w.payload.value \in {"Down", "Degraded"}
      <4>1. k = OperKey /\ r[k].value = w.payload.value
        BY <2>4, <3>2, KeyTyped DEF CounterFamilies
      <4>2. r[OperKey].value = "Up"
        BY <2>5 DEF Reads
      <4>3. QED
        BY <3>2, <4>1, <4>2
    <3>3. CASE k.family = "UtilReported" /\ w.payload.value >= SaturationPpb
      <4> DEFINE S == {r[q].value : q \in Held(r, "UtilReported")}
      <4>1. IsFiniteSet(S) /\ S \in SUBSET Nat
        BY <2>1, HeldValues
      <4>2. r[k].value = w.payload.value /\ k \in Held(r, "UtilReported")
        BY <2>3, <2>4, <3>3 DEF CounterFamilies, Held
      <4>3. w.payload.value \in S
        BY <4>2
      <4>4. ~(Greatest(S) >= SaturationPpb)
        BY <2>5 DEF SaturatedReported
      <4> HIDE DEF S
      <4>5. /\ w.payload.value <= Greatest(S)
            /\ Greatest(S) \in Nat /\ w.payload.value \in Nat
        BY <4>1, <4>3, GreatestBounds
      <4>6. SaturationPpb \in Nat
        BY PolicyAssumption DEF ValidPolicy
      <4>7. QED
        BY <3>3, <4>4, <4>5, <4>6
    <3>4. CASE k.family = "FlapReport" /\ w.payload.value >= FlapThreshold
      <4> DEFINE S == {r[q].value : q \in Held(r, "FlapReport")}
      <4>1. IsFiniteSet(S) /\ S \in SUBSET Nat
        BY <2>1, HeldValues
      <4>2. r[k].value = w.payload.value /\ k \in Held(r, "FlapReport")
        BY <2>3, <2>4, <3>4 DEF CounterFamilies, Held
      <4>3. w.payload.value \in S
        BY <4>2
      <4>4. ~(Greatest(S) >= FlapThreshold)
        BY <2>5 DEF SourceFlapping
      <4> HIDE DEF S
      <4>5. /\ w.payload.value <= Greatest(S)
            /\ Greatest(S) \in Nat /\ w.payload.value \in Nat
        BY <4>1, <4>3, GreatestBounds
      <4>6. FlapThreshold \in Nat
        BY PolicyAssumption DEF ValidPolicy
      <4>7. QED
        BY <3>4, <4>4, <4>5, <4>6
    <3>5. QED
      BY <2>6, <3>1, <3>2, <3>3, <3>4 DEF Adverse
  <2>7. QED
    BY <2>3, <2>6
<1>2. QED
  BY <1>1, EvidenceInvariant, PTL

\* Confidence runs from 0 to 3, and is 3 only for complete evidence of a primary
\* source.
LEMMA ConfidenceThree ==
  ASSUME NEW a \in 0..4, NEW f, NEW c, NEW d
  PROVE  /\ DeriveConfidence(a, f, c, d) \in 0..3
         /\ DeriveConfidence(a, f, c, d) = 3 => a = 4 /\ d # "Incomplete"
<1>1. /\ AuthorityConfidence[a] \in 0..3
      /\ AuthorityConfidence[a] = 3 => a = 4
  BY DEF AuthorityConfidence
<1>2. QED
  BY <1>1 DEF DeriveConfidence

LEMMA ReportConfidence ==
  ASSUME ClockInv, HistoryInv, NEW k \in Keys, Reports(View)[k].has_value
  PROVE  Reports(View)[k].confidence \in 0..3
<1> DEFINE E == EligibleContenders(View, k)
           w == SelectWinner(E)
<1>1. E # {} /\ Reports(View)[k].confidence =
        DeriveConfidence(Authority[w.source], Freshness(View, w, k.family), ConflictOf(k),
                         Completeness(View, k))
  BY ReportFields
<1>2. E \subseteq Newest(View, k) /\ E \subseteq Range(history[k])
  BY EligibleIsCurrent
<1>3. w \in E
  BY <1>1, <1>2, WinnerBeats
<1>4. Authority[w.source] \in 0..4
  BY <1>2, <1>3, EvidenceRanked DEF Ranked
<1> HIDE DEF w
<1>5. QED
  BY <1>1, <1>4, ConfidenceThree

\* High confidence is earned: on every decisive key with a current reading a
\* primary source leads, and no revision was lost within the window
\* (derive_confidence, completeness).
THEOREM HighConfidenceIsEarned ==
  ASSUME ContendersFit
  PROVE  Spec => []ConfidenceIsEarned
<1>1. EvidenceInv => ConfidenceIsEarned
  <2> SUFFICES ASSUME EvidenceInv, LinkConfidence(Reports(View)) = 3,
                      NEW k \in Keys, Decisive(k), Current(k) # {}
               PROVE  /\ \A e \in Leading(k) : Authority[e.source] = 4
                      /\ ~(gap[k].open /\ now - gap[k].at <= DerivationWindow)
    BY DEF ConfidenceIsEarned
  <2> DEFINE r == Reports(View)
             held == {q \in Keys : Decisive(q) /\ r[q].has_value}
             S == {r[q].confidence : q \in held}
             w == SelectWinner(EligibleContenders(View, k))
  <2>1. ClockInv /\ HistoryInv /\ GapInv
    BY DEF EvidenceInv
  <2>2. /\ r[k].has_value /\ w \in Current(k) /\ Authority[w.source] \in 0..4
        /\ \A f \in Current(k) :
             Authority[f.source] \in 0..4 /\ Authority[f.source] <= Authority[w.source]
    BY <2>1, WinnerLeads
  <2>3. k \in held
    BY <2>2
  <2>4. \A q \in held : r[q].confidence \in 0..3
    BY <2>1, ReportConfidence
  <2>5. Min(S) = 3
    BY <2>3 DEF LinkConfidence
  <2>6. r[k].confidence = 3
    <3>1. IsFiniteSet(held)
      BY KeysFinite, FS_Subset
    <3> DEFINE g == [q \in held |-> r[q].confidence]
    <3>2. IsFiniteSet({g[q] : q \in held})
      <4>1. DOMAIN g = held /\ g = [q \in held |-> g[q]]
        OBVIOUS
      <4> HIDE DEF g, held
      <4>2. QED
        BY <3>1, <4>1, ValuesFinite
    <3>3. {g[q] : q \in held} = S
      OBVIOUS
    <3>4. S \in SUBSET Int /\ S # {} /\ r[k].confidence \in S
      BY <2>3, <2>4
    <3>5. IsFiniteSet(S)
      BY <3>2, <3>3
    <3> HIDE DEF S, held
    <3>6. Min(S) <= r[k].confidence
      BY <3>4, <3>5, MinOfFinite
    <3>7. r[k].confidence \in 0..3
      BY <2>3, <2>4
    <3>8. QED
      BY <2>5, <3>6, <3>7
  <2>7. /\ Authority[w.source] = 4 /\ Completeness(View, k) # "Incomplete"
        /\ Supported(View, k)
    <3> DEFINE c == DeriveConfidence(Authority[w.source], Freshness(View, w, k.family),
                                     ConflictOf(k), Completeness(View, k))
    <3>1. c = 3 /\ Supported(View, k)
      BY <2>1, <2>2, <2>6, ReportFields
    <3>2. Authority[w.source] \in 0..4
      BY <2>2
    <3> HIDE DEF w
    <3>3. QED
      BY <3>1, <3>2, ConfidenceThree
  <2>8. ASSUME NEW e \in Leading(k) PROVE Authority[e.source] = 4
    <3>1. e \in Current(k) /\ ~(Authority[w.source] > Authority[e.source])
      BY <2>2 DEF Leading, Outranked
    <3> HIDE DEF w
    <3>2. QED
      BY <2>2, <2>7, <3>1
  <2>9. ~(gap[k].open /\ now - gap[k].at <= DerivationWindow)
    <3>1. now \in Nat /\ gap[k].at \in Nat /\ gap[k].at <= now /\ DerivationWindow \in Nat
      BY <2>1, PolicyAssumption DEF ClockInv, GapInv, ValidPolicy
    <3>2. ~(gap[k].open /\ now - gap[k].at \in 0..DerivationWindow)
      BY <2>7, ViewParts DEF Completeness
    <3>3. QED
      BY <3>1, <3>2
  <2>10. QED
    BY <2>8, <2>9
<1>2. QED
  BY <1>1, EvidenceInvariant, PTL

\* Without any current reading the only verdicts left are the ones that admit it,
\* and flapping, which is about the past (classify, its rules in precedence).
THEOREM OldEvidenceIsSilent == Spec => []OldEvidenceClaimsNothing
<1>1. EvidenceInv => OldEvidenceClaimsNothing
  <2> SUFFICES ASSUME EvidenceInv, \A k \in Keys : Current(k) = {}
               PROVE  Reported \in {"Unknown", "Stale", "Flapping"}
    BY DEF OldEvidenceClaimsNothing
  <2> DEFINE r == Reports(View)
             n == FlapEvents(log)
  <2>1. ClockInv /\ HistoryInv
    BY DEF EvidenceInv
  <2>2. ASSUME NEW k \in Keys PROVE ~r[k].has_value /\ r[k].conflict # "Conflicting"
    <3>1. EligibleContenders(View, k) = {}
      BY <2>1, EligibleIsCurrent
    <3>2. QED
      BY <2>1, <3>1, ReportFields
  <2>3. OperKey \in Keys /\ AdminKey \in Keys
    BY PolicyAssumption DEF ValidPolicy
  <2>4. Reported = State(View, r, n)
    BY ReportedIs
  <2> HIDE DEF r, n
  <2>5. \A family : Held(r, family) = {}
    BY <2>2 DEF Held
  <2>6. Greatest({}) = 0
    <3>1. {} \cup {0} = {0}
      OBVIOUS
    <3>2. Max({0}) = 0
      BY DEF Max
    <3>3. QED
      BY <3>1, <3>2 DEF Greatest
  <2>7. ~SaturatedReported(r) /\ ~SaturatedDerived(r)
    <3>1. {r[k].value : k \in Held(r, "UtilReported")} = {}
      BY <2>5
    <3>2. {r[k].rate.utilization : k \in Held(r, "Octets")} = {}
      BY <2>5
    <3>3. SaturationPpb \in Nat /\ ~(0 >= SaturationPpb)
      BY PolicyAssumption DEF ValidPolicy
    <3>4. QED
      BY <2>6, <3>1, <3>2, <3>3 DEF SaturatedReported, SaturatedDerived
  <2>8. \A family, threshold : ~RatioReaches(r, family, threshold)
    <3> TAKE family, threshold
    <3>1. \A i \in 1..Len(KeyOrder) : ~(KeyOrder[i].family = family /\ HasRatio(r, KeyOrder[i]))
      <4>1. KeyOrder \in Seq(Keys)
        BY PolicyAssumption DEF ValidPolicy
      <4>2. \A i \in 1..Len(KeyOrder) : KeyOrder[i] \in Keys
        BY <4>1
      <4>3. QED
        BY <2>2, <4>2 DEF HasRatio
    <3>2. {i \in 1..Len(KeyOrder) : KeyOrder[i].family = family /\ HasRatio(r, KeyOrder[i])} = {}
      BY <3>1
    <3>3. QED
      BY <3>2 DEF RatioReaches, SelectLastInSeq
  <2>9. ~QualityDegraded(r)
    BY <2>5 DEF QualityDegraded
  <2>10. \A value : ~Reads(r, OperKey, value) /\ ~Reads(r, AdminKey, value)
    BY <2>2, <2>3 DEF Reads
  <2>11. QED
    BY <2>2, <2>4, <2>7, <2>8, <2>9, <2>10 DEF State
<1>2. QED
  BY <1>1, EvidenceInvariant, PTL

-----------------------------------------------------------------------------
(***************************************************************************)
(* The transition log.  It is what is left of the whole past once its      *)
(* oldest events were dropped, and the last classification the past tells  *)
(* is the verdict that is remembered.                                      *)
(***************************************************************************)
IsSequence(s) == \E T : s \in Seq(T)

LEMMA Joined ==
  ASSUME NEW s, NEW t, IsSequence(s), IsSequence(t)
  PROVE  /\ IsSequence(s \o t) /\ Len(s) \in Nat /\ Len(t) \in Nat
         /\ Len(s \o t) = Len(s) + Len(t)
         /\ \A i \in 1..Len(s) : (s \o t)[i] = s[i]
         /\ \A i \in 1..Len(t) : (s \o t)[Len(s) + i] = t[i]
<1>1. PICK T : s \in Seq(T)
  BY DEF IsSequence
<1>2. PICK U : t \in Seq(U)
  BY DEF IsSequence
<1>3. s \in Seq(T \cup U) /\ t \in Seq(T \cup U)
  BY <1>1, <1>2
<1>4. s \o t \in Seq(T \cup U)
  BY <1>3
<1>5. /\ Len(s) \in Nat /\ Len(t) \in Nat /\ Len(s \o t) = Len(s) + Len(t)
      /\ \A i \in 1..Len(s) : (s \o t)[i] = s[i]
      /\ \A i \in 1..Len(t) : (s \o t)[Len(s) + i] = t[i]
  BY <1>3
<1>6. QED
  BY <1>4, <1>5 DEF IsSequence

\* The last n elements.
LEMMA LastOfParts ==
  ASSUME NEW s, IsSequence(s), NEW n \in Nat \ {0}
  PROVE  /\ IsSequence(LastOf(s, n)) /\ Len(LastOf(s, n)) \in Nat
         /\ Len(LastOf(s, n)) <= n /\ Len(LastOf(s, n)) <= Len(s)
         /\ Len(s) <= n => Len(LastOf(s, n)) = Len(s)
         /\ \A i \in 1..Len(LastOf(s, n)) :
              LastOf(s, n)[i] = s[Len(s) - Len(LastOf(s, n)) + i]
<1>1. PICK T : s \in Seq(T)
  BY DEF IsSequence
<1>2. Len(s) \in Nat
  BY <1>1
<1>3. PICK m : m = Max({1, Len(s) - n + 1})
  OBVIOUS
<1>4. m \in 1..(Len(s) + 1) /\ m = IF Len(s) > n THEN Len(s) - n + 1 ELSE 1
  <2>1. PICK b : b = Len(s) - n + 1
    OBVIOUS
  <2>2. b \in Int
    BY <1>2, <2>1
  <2>3. Max({1, b}) = IF b > 1 THEN b ELSE 1
    BY <2>2 DEF Max
  <2>4. QED
    BY <1>2, <1>3, <2>1, <2>2, <2>3
<1>5. LastOf(s, n) = SubSeq(s, m, Len(s))
  BY <1>3 DEF LastOf
<1>6. /\ SubSeq(s, m, Len(s)) \in Seq(T) /\ Len(SubSeq(s, m, Len(s))) = Len(s) - m + 1
      /\ \A i \in 1..(Len(s) - m + 1) : SubSeq(s, m, Len(s))[i] = s[m - 1 + i]
  <2>1. CASE Len(s) = 0
    <3>1. m = 1 /\ s = <<>>
      BY <1>1, <1>4, <2>1
    <3>2. SubSeq(<<>>, 1, 0) = <<>>
      OBVIOUS
    <3>3. QED
      BY <2>1, <3>1, <3>2
  <2>2. CASE Len(s) # 0
    <3>1. m \in 1..Len(s)
      BY <1>2, <1>4, <2>2
    <3>2. SubSeq(s, m, Len(s)) \in Seq(T) /\ Len(SubSeq(s, m, Len(s))) = Len(s) - m + 1
      BY <1>1, <1>2, <3>1
    <3>3. ASSUME NEW i \in 1..(Len(s) - m + 1)
          PROVE  SubSeq(s, m, Len(s))[i] = s[m - 1 + i]
      BY <1>1, <1>2, <3>1
    <3>4. QED
      BY <3>2, <3>3
  <2>3. QED
    BY <2>1, <2>2
<1>7. /\ LastOf(s, n) \in Seq(T) /\ Len(LastOf(s, n)) = Len(s) - m + 1
      /\ \A i \in 1..(Len(s) - m + 1) : LastOf(s, n)[i] = s[m - 1 + i]
  BY <1>5, <1>6
<1>8. /\ Len(LastOf(s, n)) \in Nat /\ Len(LastOf(s, n)) <= n /\ Len(LastOf(s, n)) <= Len(s)
      /\ Len(s) <= n => Len(LastOf(s, n)) = Len(s)
  BY <1>2, <1>4, <1>7
<1>9. Len(s) - Len(LastOf(s, n)) = m - 1
  BY <1>2, <1>4, <1>7
<1>10. QED
  BY <1>7, <1>8, <1>9 DEF IsSequence

LogInv ==
  /\ IsSequence(past) /\ IsSequence(log) /\ dropped \in Nat
  /\ Len(log) <= MaxTransitions /\ Len(past) = dropped + Len(log)
  /\ \A i \in 1..Len(log) : log[i] = past[dropped + i]

LEMMA LogStep ==
  ASSUME LogInv, NEW events, IsSequence(events), Log(events)
  PROVE  LogInv'
<1> DEFINE joined == log \o events
<1>1. log' = Trimmed(joined) /\ dropped' = dropped + Len(joined) - Len(log') /\ past' = past \o events
  BY DEF Log
<1>2. IsSequence(log) /\ IsSequence(past) /\ dropped \in Nat /\ Len(past) = dropped + Len(log)
  BY DEF LogInv
<1>3. /\ IsSequence(joined) /\ Len(log) \in Nat /\ Len(events) \in Nat
      /\ Len(joined) = Len(log) + Len(events)
      /\ \A i \in 1..Len(log) : joined[i] = log[i]
      /\ \A i \in 1..Len(events) : joined[Len(log) + i] = events[i]
  BY <1>2, Joined
<1>4. /\ IsSequence(past') /\ Len(past) \in Nat /\ Len(past') = Len(past) + Len(events)
      /\ \A i \in 1..Len(past) : past'[i] = past[i]
      /\ \A i \in 1..Len(events) : past'[Len(past) + i] = events[i]
  <2> DEFINE whole == past \o events
  <2>1. /\ IsSequence(whole) /\ Len(past) \in Nat /\ Len(whole) = Len(past) + Len(events)
        /\ \A i \in 1..Len(past) : whole[i] = past[i]
        /\ \A i \in 1..Len(events) : whole[Len(past) + i] = events[i]
    BY <1>2, Joined
  <2>2. past' = whole
    BY <1>1
  <2> HIDE DEF whole
  <2>3. QED
    BY <2>1, <2>2
<1>5. MaxTransitions \in Nat \ {0}
  BY ObservatoryAssumption
<1> HIDE DEF joined
<1>6. /\ IsSequence(log') /\ Len(log') \in Nat
      /\ Len(log') <= MaxTransitions /\ Len(log') <= Len(joined)
      /\ \A i \in 1..Len(log') : log'[i] = joined[Len(joined) - Len(log') + i]
  BY <1>1, <1>3, <1>5, LastOfParts DEF Trimmed
<1>7. \A j \in 1..Len(joined) : joined[j] = past'[dropped + j]
  <2> TAKE j \in 1..Len(joined)
  <2>1. CASE j \in 1..Len(log)
    <3>1. log[j] = past[dropped + j] /\ dropped + j \in 1..Len(past)
      BY <1>2, <1>3, <2>1 DEF LogInv
    <3>2. QED
      BY <1>3, <1>4, <2>1, <3>1
  <2>2. CASE j \notin 1..Len(log)
    <3>1. j - Len(log) \in 1..Len(events) /\ j = Len(log) + (j - Len(log))
      BY <1>3, <2>2
    <3>2. dropped + j = Len(past) + (j - Len(log))
      BY <1>2, <1>3, <3>1
    <3>3. joined[j] = events[j - Len(log)] /\ past'[dropped + j] = events[j - Len(log)]
      BY <1>3, <1>4, <3>1, <3>2
    <3>4. QED
      BY <3>3
  <2>3. QED
    BY <2>1, <2>2
<1>8. dropped' \in Nat /\ Len(past') = dropped' + Len(log')
  BY <1>1, <1>2, <1>3, <1>4, <1>6
<1>9. ASSUME NEW i \in 1..Len(log') PROVE log'[i] = past'[dropped' + i]
  <2>1. Len(joined) - Len(log') + i \in 1..Len(joined)
    BY <1>3, <1>6
  <2>2. dropped + (Len(joined) - Len(log') + i) = dropped' + i
    BY <1>1, <1>2, <1>3, <1>6
  <2>3. QED
    BY <1>6, <1>7, <2>1, <2>2
<1>10. QED
  BY <1>4, <1>6, <1>8, <1>9 DEF LogInv

\* A sequence of events without a classification, and the last one it tells.
Silent(s) == \A i \in 1..Len(s) : s[i].kind # "ClassificationChanged"
Tells(s, state) ==
  \E i \in 1..Len(s) :
    /\ s[i].kind = "ClassificationChanged" /\ s[i].to = state
    /\ \A j \in (i + 1)..Len(s) : s[j].kind # "ClassificationChanged"

LEMMA TellsJoined ==
  ASSUME NEW s, NEW t, IsSequence(s), IsSequence(t), NEW x
  PROVE  /\ Silent(s) /\ Silent(t) => Silent(s \o t)
         /\ Tells(s, x) /\ Silent(t) => Tells(s \o t, x)
         /\ Tells(t, x) => Tells(s \o t, x)
<1> DEFINE u == s \o t
<1>1. /\ Len(s) \in Nat /\ Len(t) \in Nat /\ Len(u) = Len(s) + Len(t)
      /\ \A i \in 1..Len(s) : u[i] = s[i]
      /\ \A i \in 1..Len(t) : u[Len(s) + i] = t[i]
  BY Joined
<1> HIDE DEF u
<1>2. \A j \in 1..Len(u) : j \in 1..Len(s) \/ (j - Len(s) \in 1..Len(t) /\ u[j] = t[j - Len(s)])
  <2> TAKE j \in 1..Len(u)
  <2>1. CASE j <= Len(s)
    BY <1>1, <2>1
  <2>2. CASE ~(j <= Len(s))
    <3>1. j - Len(s) \in 1..Len(t) /\ Len(s) + (j - Len(s)) = j
      BY <1>1, <2>2
    <3>2. QED
      BY <1>1, <3>1
  <2>3. QED
    BY <2>1, <2>2
<1>3. ASSUME Silent(s), Silent(t) PROVE Silent(u)
  BY <1>1, <1>2, <1>3 DEF Silent
<1>4. ASSUME Tells(s, x), Silent(t) PROVE Tells(u, x)
  <2>1. PICK i \in 1..Len(s) :
          /\ s[i].kind = "ClassificationChanged" /\ s[i].to = x
          /\ \A j \in (i + 1)..Len(s) : s[j].kind # "ClassificationChanged"
    BY <1>4 DEF Tells
  <2>2. i \in 1..Len(u) /\ u[i] = s[i]
    BY <1>1
  <2>3. ASSUME NEW j \in (i + 1)..Len(u) PROVE u[j].kind # "ClassificationChanged"
    <3>1. j \in 1..Len(u)
      BY <1>1
    <3>2. CASE j \in 1..Len(s)
      <4>1. j \in (i + 1)..Len(s) /\ u[j] = s[j]
        BY <1>1, <3>2
      <4>2. QED
        BY <2>1, <4>1
    <3>3. CASE j - Len(s) \in 1..Len(t) /\ u[j] = t[j - Len(s)]
      BY <1>4, <3>3 DEF Silent
    <3>4. QED
      BY <1>2, <3>1, <3>2, <3>3
  <2>4. QED
    BY <2>1, <2>2, <2>3 DEF Tells
<1>5. ASSUME Tells(t, x) PROVE Tells(u, x)
  <2>1. PICK i \in 1..Len(t) :
          /\ t[i].kind = "ClassificationChanged" /\ t[i].to = x
          /\ \A j \in (i + 1)..Len(t) : t[j].kind # "ClassificationChanged"
    BY <1>5 DEF Tells
  <2>2. Len(s) + i \in 1..Len(u) /\ u[Len(s) + i] = t[i]
    BY <1>1
  <2>3. ASSUME NEW j \in (Len(s) + i + 1)..Len(u) PROVE u[j].kind # "ClassificationChanged"
    <3>1. j - Len(s) \in (i + 1)..Len(t) /\ j - Len(s) \in 1..Len(t) /\ j = Len(s) + (j - Len(s))
      BY <1>1
    <3>2. u[j] = t[j - Len(s)]
      BY <1>1, <3>1
    <3>3. QED
      BY <2>1, <3>1, <3>2
  <2>4. QED
    BY <2>1, <2>2, <2>3 DEF Tells
<1>6. QED
  BY <1>3, <1>4, <1>5 DEF u

\* One event or none.
LEMMA WhenTells ==
  ASSUME NEW c \in BOOLEAN, NEW e
  PROVE  /\ IsSequence(When(c, e))
         /\ e.kind # "ClassificationChanged" \/ ~c => Silent(When(c, e))
         /\ c /\ e.kind = "ClassificationChanged" => Tells(When(c, e), e.to)
<1>1. CASE c
  <2>1. When(c, e) = <<e>>
    BY <1>1 DEF When
  <2>2. <<e>> \in Seq({e}) /\ Len(<<e>>) = 1 /\ <<e>>[1] = e
    OBVIOUS
  <2>3. IsSequence(<<e>>)
    BY <2>2 DEF IsSequence
  <2>4. e.kind # "ClassificationChanged" => Silent(<<e>>)
    BY <2>2 DEF Silent
  <2>5. e.kind = "ClassificationChanged" => Tells(<<e>>, e.to)
    BY <2>2 DEF Tells
  <2>6. QED
    BY <1>1, <2>1, <2>3, <2>4, <2>5
<1>2. CASE ~c
  <2>1. When(c, e) = <<>>
    BY <1>2 DEF When
  <2>2. <<>> \in Seq({}) /\ Len(<<>>) = 0
    OBVIOUS
  <2>3. QED
    BY <1>2, <2>1, <2>2 DEF IsSequence, Silent
<1>3. QED
  BY <1>1, <1>2

KnownInv == IF observed = NoVerdict THEN Silent(past) ELSE Tells(past, observed.state)

\* No admission tells a classification.
LEMMA AdmissionIsSilent ==
  ASSUME NEW o
  PROVE  /\ IsSequence(GenerationEvents(o)) /\ Silent(GenerationEvents(o))
         /\ IsSequence(AdmissionEvents(o)) /\ Silent(AdmissionEvents(o))
<1> DEFINE kind == CounterOutcome(o).discontinuity
           g == GenerationEvents(o)
           a == When(kind = "Reset", Event("CounterReset", "counter"))
           b == When(kind = "Wrap", Event("CounterWrap", "counter"))
           c == When(RevisionLost(o), Event("RevisionGap", "revision"))
<1>1. /\ Event("GenerationChanged", "generation").kind # "ClassificationChanged"
      /\ Event("CounterReset", "counter").kind # "ClassificationChanged"
      /\ Event("CounterWrap", "counter").kind # "ClassificationChanged"
      /\ Event("RevisionGap", "revision").kind # "ClassificationChanged"
  BY DEF Event
<1>2. /\ (o.generation # generation) \in BOOLEAN /\ (kind = "Reset") \in BOOLEAN
      /\ (kind = "Wrap") \in BOOLEAN /\ RevisionLost(o) \in BOOLEAN
  BY DEF RevisionLost
<1>3. IsSequence(g) /\ Silent(g)
  BY <1>1, <1>2, WhenTells DEF GenerationEvents
<1>4. IsSequence(a) /\ Silent(a) /\ IsSequence(b) /\ Silent(b) /\ IsSequence(c) /\ Silent(c)
  <2> HIDE DEF kind
  <2>1. QED
    BY <1>1, <1>2, WhenTells
<1>5. AdmissionEvents(o) = ((g \o a) \o b) \o c
  BY DEF AdmissionEvents
<1> HIDE DEF g, a, b, c
<1>6. IsSequence(g \o a) /\ Silent(g \o a)
  BY <1>3, <1>4, Joined, TellsJoined
<1>7. IsSequence((g \o a) \o b) /\ Silent((g \o a) \o b)
  BY <1>4, <1>6, Joined, TellsJoined
<1>8. IsSequence(((g \o a) \o b) \o c) /\ Silent(((g \o a) \o b) \o c)
  BY <1>4, <1>7, Joined, TellsJoined
<1>9. QED
  BY <1>3, <1>5, <1>8 DEF g

\* A verdict is told unless it is the one remembered.
LEMMA VerdictIsTold ==
  ASSUME NEW v
  PROVE  /\ IsSequence(VerdictEvents(v))
         /\ \/ Tells(VerdictEvents(v), v.state)
            \/ observed # NoVerdict /\ observed.state = v.state /\ Silent(VerdictEvents(v))
<1> DEFINE a == When(observed.state # v.state, Event("ClassificationChanged", v.state))
           b == When(observed.oper # v.oper, Event("OperStateChanged", v.oper))
           c == When(observed.admin # v.admin, Event("AdminStateChanged", v.admin))
<1>1. /\ Event("ClassificationChanged", v.state).kind = "ClassificationChanged"
      /\ Event("ClassificationChanged", v.state).to = v.state
      /\ Event("OperStateChanged", v.oper).kind # "ClassificationChanged"
      /\ Event("AdminStateChanged", v.admin).kind # "ClassificationChanged"
  BY DEF Event
<1>2. CASE observed = NoVerdict
  <2>1. VerdictEvents(v) = When(TRUE, Event("ClassificationChanged", v.state))
    BY <1>2 DEF VerdictEvents, When
  <2>2. QED
    BY <1>1, <2>1, WhenTells
<1>3. CASE observed # NoVerdict
  <2>1. VerdictEvents(v) = (a \o b) \o c
    BY <1>3 DEF VerdictEvents
  <2>2. /\ IsSequence(a) /\ IsSequence(b) /\ Silent(b) /\ IsSequence(c) /\ Silent(c)
        /\ IF observed.state # v.state THEN Tells(a, v.state) ELSE Silent(a)
    BY <1>1, WhenTells
  <2> HIDE DEF a, b, c
  <2>3. IsSequence(a \o b) /\ IsSequence((a \o b) \o c)
    BY <2>2, Joined
  <2>4. CASE observed.state # v.state
    <3>1. Tells(a \o b, v.state)
      BY <2>2, <2>4, TellsJoined
    <3>2. Tells((a \o b) \o c, v.state)
      BY <2>2, <2>3, <3>1, TellsJoined
    <3>3. QED
      BY <2>1, <2>3, <3>2
  <2>5. CASE observed.state = v.state
    <3>1. Silent(a \o b)
      BY <2>2, <2>5, TellsJoined
    <3>2. Silent((a \o b) \o c)
      BY <2>2, <2>3, <3>1, TellsJoined
    <3>3. QED
      BY <1>3, <2>1, <2>3, <2>5, <3>2
  <2>6. QED
    BY <2>4, <2>5
<1>4. QED
  BY <1>2, <1>3

\* What is remembered is a verdict.
LEMMA VerdictIsOne ==
  ASSUME NEW v, NEW events
  PROVE  Verdict(v, events) # NoVerdict
<1>1. \A r, n : State(v, r, n) # "none"
  BY DEF State
<1>2. Verdict(v, events).state # "none"
  BY <1>1 DEF Verdict
<1>3. NoVerdict.state = "none"
  BY DEF NoVerdict
<1>4. QED
  BY <1>2, <1>3

LEMMA PastStep ==
  ASSUME ClockInv, LogInv, KnownInv, [Next]_vars
  PROVE  LogInv' /\ KnownInv'
<1>1. CASE Tick
  BY <1>1 DEF Tick, LogInv, KnownInv
<1>2. CASE UNCHANGED vars
  BY <1>2 DEF vars, LogInv, KnownInv
<1>3. ASSUME NEW o, Refuse(o) PROVE LogInv' /\ KnownInv'
  <2> DEFINE events == GenerationEvents(o)
  <2>1. IsSequence(events) /\ Silent(events)
    BY AdmissionIsSilent
  <2>2. Log(events) /\ observed' = observed
    BY <1>3 DEF Refuse
  <2> HIDE DEF events
  <2>3. LogInv'
    BY <2>1, <2>2, LogStep
  <2>4. past' = past \o events /\ IsSequence(past)
    BY <2>2 DEF Log, LogInv
  <2>5. KnownInv'
    BY <2>1, <2>2, <2>4, TellsJoined DEF KnownInv
  <2>6. QED
    BY <2>3, <2>5
<1>4. ASSUME NEW o, Accept(o) PROVE LogInv' /\ KnownInv'
  <2> DEFINE verdict == Verdict(Admitted(o), Trimmed(log \o AdmissionEvents(o)))
             a == AdmissionEvents(o)
             b == VerdictEvents(verdict)
  <2>1. observed' = verdict /\ Log(a \o b)
    BY <1>4 DEF Accept, Remember
  <2>2. IsSequence(a) /\ Silent(a)
    BY AdmissionIsSilent
  <2>3. verdict # NoVerdict
    BY VerdictIsOne
  <2> HIDE DEF verdict
  <2>4. /\ IsSequence(b)
        /\ \/ Tells(b, verdict.state)
           \/ observed # NoVerdict /\ observed.state = verdict.state /\ Silent(b)
    BY VerdictIsTold
  <2> HIDE DEF a, b
  <2>5. IsSequence(a \o b)
    BY <2>2, <2>4, Joined
  <2>6. LogInv'
    BY <2>1, <2>5, LogStep
  <2>7. past' = past \o (a \o b) /\ IsSequence(past)
    BY <2>1 DEF Log, LogInv
  <2>8. Tells(past \o (a \o b), verdict.state)
    <3>1. CASE Tells(b, verdict.state)
      <4>1. Tells(a \o b, verdict.state)
        BY <2>2, <2>4, <3>1, TellsJoined
      <4>2. QED
        BY <2>5, <2>7, <4>1, TellsJoined
    <3>2. CASE observed # NoVerdict /\ observed.state = verdict.state /\ Silent(b)
      <4>1. Tells(past, verdict.state)
        BY <3>2 DEF KnownInv
      <4>2. Silent(a \o b)
        BY <2>2, <2>4, <3>2, TellsJoined
      <4>3. QED
        BY <2>5, <2>7, <4>1, <4>2, TellsJoined
    <3>3. QED
      BY <2>4, <3>1, <3>2
  <2>9. KnownInv'
    BY <2>1, <2>3, <2>7, <2>8 DEF KnownInv
  <2>10. QED
    BY <2>6, <2>9
<1>5. QED
  BY <1>1, <1>2, <1>3, <1>4, StepCases

LEMMA PastInvariant == Spec => [](EvidenceInv /\ LogInv /\ KnownInv)
<1>1. Init => LogInv /\ KnownInv
  <2> SUFFICES ASSUME Init PROVE LogInv /\ KnownInv
    OBVIOUS
  <2>1. log = <<>> /\ past = <<>> /\ dropped = 0 /\ observed = NoVerdict
    BY DEF Init
  <2>2. <<>> \in Seq({}) /\ Len(<<>>) = 0
    OBVIOUS
  <2>3. QED
    BY <2>1, <2>2, ObservatoryAssumption DEF LogInv, KnownInv, IsSequence, Silent
<1>2. EvidenceInv /\ LogInv /\ KnownInv /\ [Next]_vars => LogInv' /\ KnownInv'
  BY PastStep DEF EvidenceInv
<1>3. QED
  BY <1>1, <1>2, EvidenceInvariant, PTL DEF Spec

\* The log fits in what a query of it returns.
RowsFit == MaxTransitions <= MaxResultRows

LEMMA RecentIsLog ==
  ASSUME LogInv, RowsFit
  PROVE  /\ Len(log) \in Nat /\ Len(Recent(log)) = Len(log)
         /\ DOMAIN Recent(log) = 1..Len(log) /\ DOMAIN past = 1..Len(past)
         /\ \A i \in 1..Len(log) : Recent(log)[i] = log[i]
<1>1. IsSequence(log) /\ IsSequence(past) /\ Len(log) <= MaxTransitions
  BY DEF LogInv
<1>2. MaxResultRows \in Nat \ {0} /\ MaxTransitions \in Nat
  BY PolicyAssumption, ObservatoryAssumption DEF ValidPolicy
<1>3. \A s : IsSequence(s) => Len(s) \in Nat /\ DOMAIN s = 1..Len(s)
  BY DEF IsSequence
<1>4. /\ IsSequence(Recent(log))
      /\ Len(log) <= MaxResultRows => Len(Recent(log)) = Len(log)
      /\ \A i \in 1..Len(Recent(log)) :
           Recent(log)[i] = log[Len(log) - Len(Recent(log)) + i]
  BY <1>1, <1>2, LastOfParts DEF Recent
<1>5. Len(log) <= MaxResultRows /\ Len(log) \in Nat
  BY <1>1, <1>2, <1>3 DEF RowsFit
<1>6. Len(Recent(log)) = Len(log)
  BY <1>4, <1>5
<1>7. \A i \in 1..Len(log) : Len(log) - Len(log) + i = i
  BY <1>5
<1>8. QED
  BY <1>1, <1>3, <1>4, <1>5, <1>6, <1>7

\* The flaps of the window, but for the dropped ones.
LEMMA FlapsCounted ==
  ASSUME LogInv, RowsFit
  PROVE  FlapsAccounted
<1> DEFINE P(e) == e.kind \in StateKinds /\ e.at >= now - FlapWindow
           A == {i \in 1..Len(past) : P(past[i])}
           B == {i \in 1..Len(log) : P(log[i])}
           A1 == {i \in A : i <= dropped}
           A2 == {i \in A : ~(i <= dropped)}
<1>1. /\ dropped \in Nat /\ Len(log) \in Nat /\ Len(past) = dropped + Len(log)
      /\ \A i \in 1..Len(log) : log[i] = past[dropped + i]
  BY RecentIsLog DEF LogInv
<1>2. FlapEvents(log) = Cardinality(B)
  BY RecentIsLog DEF FlapEvents
<1>3. FlapsAccounted <=> Cardinality(B) <= Cardinality(A) /\ Cardinality(A) <= Cardinality(B) + dropped
  BY <1>2, RecentIsLog DEF FlapsAccounted
<1> HIDE DEF P
<1>4. IsFiniteSet(A) /\ IsFiniteSet(B)
  <2>1. A \in SUBSET Nat /\ B \in SUBSET Nat /\ Len(past) \in Nat
    BY <1>1
  <2>2. (\A i \in A : i <= Len(past)) /\ \A i \in B : i <= Len(log)
    BY <1>1
  <2> HIDE DEF A, B
  <2>3. QED
    BY <1>1, <2>1, <2>2, FS_BoundedSetOfNaturals
<1>5. Cardinality(A) \in Nat /\ Cardinality(B) \in Nat
  BY <1>4, FS_CardinalityType
<1>6. Cardinality(B) <= Cardinality(A)
  <2> DEFINE g == [i \in B |-> dropped + i]
  <2>1. ASSUME NEW i \in B PROVE dropped + i \in A
    <3>1. i \in 1..Len(log) /\ P(log[i])
      OBVIOUS
    <3>2. dropped + i \in 1..Len(past) /\ log[i] = past[dropped + i]
      BY <1>1, <3>1
    <3>3. QED
      BY <3>1, <3>2
  <2>2. \A i, j \in B : dropped + i = dropped + j => i = j
    BY <1>1
  <2> HIDE DEF A, B
  <2>3. g \in Injection(B, A)
    BY <2>1, <2>2 DEF Injection, IsInjective
  <2>4. QED
    BY <1>4, <2>3, FS_Injection
<1>7. Cardinality(A2) <= Cardinality(B) /\ IsFiniteSet(A2) /\ Cardinality(A2) \in Nat
  <2> DEFINE h == [i \in A2 |-> i - dropped]
  <2>1. ASSUME NEW i \in A2 PROVE i - dropped \in B
    <3>1. i \in 1..Len(past) /\ P(past[i]) /\ ~(i <= dropped)
      OBVIOUS
    <3>2. i - dropped \in 1..Len(log) /\ dropped + (i - dropped) = i
      BY <1>1, <3>1
    <3>3. log[i - dropped] = past[i]
      BY <1>1, <3>2
    <3>4. QED
      BY <3>1, <3>2, <3>3
  <2>2. \A i, j \in A2 : i - dropped = j - dropped => i = j
    BY <1>1
  <2> HIDE DEF A2, B
  <2>3. h \in Injection(A2, B)
    BY <2>1, <2>2 DEF Injection, IsInjective
  <2>4. QED
    BY <1>4, <2>3, FS_Injection, FS_CardinalityType
<1>8. Cardinality(A1) <= dropped /\ IsFiniteSet(A1) /\ Cardinality(A1) \in Nat
  <2>1. A1 \in SUBSET (1..dropped)
    BY <1>1
  <2>2. IsFiniteSet(1..dropped) /\ Cardinality(1..dropped) = dropped
    <3>1. 1 \in Int /\ dropped \in Int
      BY <1>1
    <3>2. IsFiniteSet(1..dropped)
          /\ Cardinality(1..dropped) = IF 1 > dropped THEN 0 ELSE dropped - 1 + 1
      BY <3>1, FS_Interval, Zenon
    <3>3. (IF 1 > dropped THEN 0 ELSE dropped - 1 + 1) = dropped
      BY <1>1
    <3>4. QED
      BY <3>2, <3>3
  <2> HIDE DEF A1
  <2>3. QED
    BY <2>1, <2>2, FS_Subset, FS_CardinalityType
<1>9. A = A1 \cup A2 /\ A1 \cap A2 = {}
  OBVIOUS
<1> HIDE DEF A, B, A1, A2
<1>10. Cardinality(A) = Cardinality(A1) + Cardinality(A2) - Cardinality(A1 \cap A2)
  BY <1>7, <1>8, <1>9, FS_Union
<1>11. Cardinality(A1 \cap A2) = 0
  BY <1>9, FS_EmptySet
<1>12. QED
  BY <1>1, <1>3, <1>5, <1>6, <1>7, <1>8, <1>10, <1>11

\* The last known state, as long as the log holds one.
LEMMA LastKnownIsRemembered ==
  ASSUME LogInv, KnownInv, RowsFit
  PROVE  LastKnownAgrees
<1> DEFINE CC == "ClassificationChanged"
<1>1. /\ dropped \in Nat /\ Len(log) \in Nat /\ Len(past) = dropped + Len(log)
      /\ \A i \in 1..Len(log) : log[i] = past[dropped + i] /\ dropped + i \in 1..Len(past)
  BY RecentIsLog DEF LogInv
<1>2. HasLastKnown <=> \E i \in 1..Len(log) : log[i].kind = CC
  BY RecentIsLog DEF HasLastKnown
<1>3. CASE observed = NoVerdict
  <2>1. \A i \in 1..Len(log) : log[i].kind # CC
    BY <1>1, <1>3 DEF KnownInv, Silent
  <2>2. QED
    BY <1>2, <1>3, <2>1 DEF LastKnownAgrees
<1>4. CASE observed # NoVerdict
  <2>1. PICK i \in 1..Len(past) :
          /\ past[i].kind = CC /\ past[i].to = observed.state
          /\ \A j \in (i + 1)..Len(past) : past[j].kind # CC
    BY <1>4 DEF KnownInv, Tells
  <2>2. CASE i <= dropped
    <3>1. ASSUME NEW j \in 1..Len(log) PROVE log[j].kind # CC
      <4>1. dropped + j \in (i + 1)..Len(past)
        BY <1>1, <2>2
      <4>2. QED
        BY <1>1, <2>1, <4>1
    <3>2. dropped > 0
      BY <1>1, <2>1, <2>2
    <3>3. QED
      BY <1>2, <3>1, <3>2 DEF LastKnownAgrees
  <2>3. CASE ~(i <= dropped)
    <3> DEFINE m == i - dropped
               I == {j \in 1..Len(Recent(log)) : Recent(log)[j].kind = CC}
    <3>1. m \in 1..Len(log) /\ log[m] = past[i]
      <4>1. m \in 1..Len(log) /\ dropped + m = i
        BY <1>1, <2>1, <2>3
      <4>2. QED
        BY <1>1, <4>1
    <3>2. I = {j \in 1..Len(log) : log[j].kind = CC}
      BY RecentIsLog
    <3>3. ASSUME NEW j \in I PROVE m >= j
      <4>1. j \in 1..Len(log) /\ past[dropped + j].kind = CC
        BY <1>1, <3>2
      <4>2. ~(dropped + j \in (i + 1)..Len(past))
        BY <2>1, <4>1
      <4>3. QED
        BY <1>1, <2>1, <4>1, <4>2
    <3>4. m \in I
      BY <2>1, <3>1, <3>2
    <3>5. \A j \in I : j \in Int
      BY <1>1, <3>2
    <3>6. LastKnown = Recent(log)[IF I # {} THEN Max(I) ELSE 0].to
      BY DEF LastKnown, SelectLastInSeq
    <3> HIDE DEF m, I
    <3>7. Max(I) = m
      <4>1. Max(I) \in I /\ \A j \in I : Max(I) >= j
        BY <3>3, <3>4 DEF Max
      <4>2. QED
        BY <3>3, <3>4, <3>5, <4>1
    <3>8. LastKnown = Recent(log)[m].to
      BY <3>4, <3>6, <3>7
    <3>9. LastKnown = observed.state
      BY <2>1, <3>1, <3>8, RecentIsLog
    <3>10. HasLastKnown
      BY <1>2, <2>1, <3>1
    <3>11. QED
      BY <3>9, <3>10 DEF LastKnownAgrees
  <2>4. QED
    BY <2>2, <2>3
<1>5. QED
  BY <1>3, <1>4

\* What is read from the bounded log is true of the whole past: the flaps counted
\* are those of the window but for the dropped ones, and the last known state is
\* the verdict remembered (TransitionLog::record, the queries of classify).
THEOREM LogTellsThePast ==
  ASSUME RowsFit
  PROVE  Spec => []LogIsFaithful
<1>1. LogInv /\ KnownInv => LogIsFaithful
  BY FlapsCounted, LastKnownIsRemembered DEF LogIsFaithful
<1>2. QED
  BY <1>1, PastInvariant, PTL

-----------------------------------------------------------------------------
(***************************************************************************)
(* Types.  The bounds of the run hold, every event ever logged is of a     *)
(* known kind and not of the future, and the link has a verdict from its   *)
(* first accepted observation on.                                          *)
(***************************************************************************)
Timely(s) == \A i \in 1..Len(s) : s[i].kind \in Kinds /\ s[i].at \in 0..now

BoundInv ==
  /\ now <= MaxTime /\ generation <= MaxGeneration
  /\ \A s \in Sources : scope[s] <= MaxScope
  /\ \A k \in Keys, s \in Sources : Len(samples[k][s]) <= 2
  /\ Timely(past)
  /\ observed = NoVerdict <=> accepted = 0
  /\ observed # NoVerdict => observed.state \in LinkStates

LEMMA TimelyJoined ==
  ASSUME NEW s, NEW t, IsSequence(s), IsSequence(t), Timely(s), Timely(t)
  PROVE  Timely(s \o t)
<1> DEFINE u == s \o t
<1>1. /\ Len(s) \in Nat /\ Len(t) \in Nat /\ Len(u) = Len(s) + Len(t)
      /\ \A i \in 1..Len(s) : u[i] = s[i]
      /\ \A i \in 1..Len(t) : u[Len(s) + i] = t[i]
  BY Joined
<1> HIDE DEF u
<1>2. ASSUME NEW i \in 1..Len(u) PROVE u[i].kind \in Kinds /\ u[i].at \in 0..now
  <2>1. CASE i <= Len(s)
    <3>1. i \in 1..Len(s)
      BY <1>1, <2>1
    <3>2. QED
      BY <1>1, <3>1 DEF Timely
  <2>2. CASE ~(i <= Len(s))
    <3>1. i - Len(s) \in 1..Len(t) /\ Len(s) + (i - Len(s)) = i
      BY <1>1, <2>2
    <3>2. u[i] = t[i - Len(s)]
      BY <1>1, <3>1
    <3>3. QED
      BY <3>1, <3>2 DEF Timely
  <2>3. QED
    BY <2>1, <2>2
<1>3. QED
  BY <1>2 DEF Timely, u

LEMMA WhenTimely ==
  ASSUME ClockInv, NEW c \in BOOLEAN, NEW kind \in Kinds, NEW to
  PROVE  Timely(When(c, Event(kind, to))) /\ IsSequence(When(c, Event(kind, to)))
<1> DEFINE e == Event(kind, to)
<1>1. e.kind \in Kinds /\ e.at \in 0..now
  BY DEF Event, ClockInv
<1> HIDE DEF e
<1>2. IsSequence(When(c, e))
  BY WhenTells
<1>3. CASE c
  <2>1. When(c, e) = <<e>> /\ Len(<<e>>) = 1 /\ <<e>>[1] = e
    BY <1>3 DEF When
  <2>2. QED
    BY <1>1, <1>2, <2>1 DEF Timely, e
<1>4. CASE ~c
  <2>1. When(c, e) = <<>> /\ Len(<<>>) = 0
    BY <1>4 DEF When
  <2>2. QED
    BY <1>2, <2>1 DEF Timely, e
<1>5. QED
  BY <1>3, <1>4

\* What an observation logs is dated now.
LEMMA EventsTimely ==
  ASSUME ClockInv, NEW o, NEW v
  PROVE  /\ Timely(GenerationEvents(o)) /\ IsSequence(GenerationEvents(o))
         /\ Timely(AdmissionEvents(o)) /\ IsSequence(AdmissionEvents(o))
         /\ Timely(VerdictEvents(v)) /\ IsSequence(VerdictEvents(v))
<1> DEFINE kind == CounterOutcome(o).discontinuity
           g == GenerationEvents(o)
           a == When(kind = "Reset", Event("CounterReset", "counter"))
           b == When(kind = "Wrap", Event("CounterWrap", "counter"))
           c == When(RevisionLost(o), Event("RevisionGap", "revision"))
           x == When(observed.state # v.state, Event("ClassificationChanged", v.state))
           y == When(observed.oper # v.oper, Event("OperStateChanged", v.oper))
           z == When(observed.admin # v.admin, Event("AdminStateChanged", v.admin))
           first == When(TRUE, Event("ClassificationChanged", v.state))
<1>1. {"GenerationChanged", "CounterReset", "CounterWrap", "RevisionGap",
       "ClassificationChanged", "OperStateChanged", "AdminStateChanged"} \subseteq Kinds
  BY DEF Kinds, StateKinds
<1>2. RevisionLost(o) \in BOOLEAN
  BY DEF RevisionLost
<1>3. Timely(g) /\ IsSequence(g)
  BY <1>1, WhenTimely DEF GenerationEvents
<1>4. /\ Timely(a) /\ IsSequence(a) /\ Timely(b) /\ IsSequence(b)
      /\ Timely(c) /\ IsSequence(c)
  <2> HIDE DEF kind
  <2>1. QED
    BY <1>1, <1>2, WhenTimely
<1>5. /\ Timely(x) /\ IsSequence(x) /\ Timely(y) /\ IsSequence(y)
      /\ Timely(z) /\ IsSequence(z) /\ Timely(first) /\ IsSequence(first)
  BY <1>1, WhenTimely
<1>6. AdmissionEvents(o) = ((g \o a) \o b) \o c
  BY DEF AdmissionEvents
<1>7. VerdictEvents(v) = IF observed = NoVerdict THEN first ELSE (x \o y) \o z
  BY DEF VerdictEvents, When
<1> HIDE DEF g, a, b, c, x, y, z, first
<1>8. Timely(g \o a) /\ IsSequence(g \o a) /\ Timely(x \o y) /\ IsSequence(x \o y)
  BY <1>3, <1>4, <1>5, Joined, TimelyJoined
<1>9. /\ Timely((g \o a) \o b) /\ IsSequence((g \o a) \o b)
      /\ Timely((x \o y) \o z) /\ IsSequence((x \o y) \o z)
  BY <1>4, <1>5, <1>8, Joined, TimelyJoined
<1>10. Timely(((g \o a) \o b) \o c) /\ IsSequence(((g \o a) \o b) \o c)
  BY <1>4, <1>9, Joined, TimelyJoined
<1>11. QED
  BY <1>3, <1>5, <1>6, <1>7, <1>9, <1>10 DEF g

LEMMA BoundStep ==
  ASSUME EvidenceInv, LogInv, BoundInv, NEW o \in Observations, Accept(o) \/ Refuse(o)
  PROVE  BoundInv'
<1>1. now' = now /\ now \in Nat /\ accepted \in Nat /\ ClockInv /\ IsSequence(past)
  BY DEF Accept, Refuse, EvidenceInv, ClockInv, LogInv
<1>2. /\ o.source \in Sources /\ o.key \in Keys
      /\ o.scope <= MaxScope /\ o.generation <= MaxGeneration
  BY DEF Observations
<1>3. /\ generation' = o.generation /\ scope' = [scope EXCEPT ![o.source] = o.scope]
      /\ scope \in [Sources -> Nat]
  BY <1>1 DEF Accept, Refuse, AdvanceStream, ClockInv
<1>4. ASSUME NEW s \in Sources PROVE scope'[s] <= MaxScope
  BY <1>2, <1>3 DEF BoundInv
<1>5. ASSUME NEW events, IsSequence(events), Timely(events), Log(events)
      PROVE  Timely(past)'
  <2>1. past' = past \o events
    BY <1>5 DEF Log
  <2>2. Timely(past \o events)
    BY <1>1, <1>5, TimelyJoined DEF BoundInv
  <2>3. QED
    BY <1>1, <2>1, <2>2 DEF Timely
<1>6. CASE Refuse(o)
  <2>1. samples' = samples /\ observed' = observed /\ accepted' = accepted
        /\ Log(GenerationEvents(o))
    BY <1>6 DEF Refuse
  <2>2. Timely(past)'
    BY <1>1, <1>5, <2>1, EventsTimely
  <2>3. QED
    BY <1>1, <1>2, <1>3, <1>4, <2>1, <2>2 DEF BoundInv
<1>7. CASE Accept(o)
  <2> DEFINE verdict == Verdict(Admitted(o), Trimmed(log \o AdmissionEvents(o)))
             a == AdmissionEvents(o)
             b == VerdictEvents(verdict)
  <2>1. observed' = verdict /\ accepted' = accepted + 1 /\ Log(a \o b)
    BY <1>7 DEF Accept, Remember
  <2>2. verdict # NoVerdict
    BY VerdictIsOne
  <2>3. verdict.state \in LinkStates
    <3>1. \A v, r, n : State(v, r, n) \in LinkStates
      BY DEF State, LinkStates
    <3>2. QED
      BY <3>1 DEF Verdict
  <2> HIDE DEF verdict
  <2>4. Timely(a) /\ IsSequence(a) /\ Timely(b) /\ IsSequence(b)
    BY <1>1, EventsTimely
  <2> HIDE DEF a, b
  <2>5. Timely(past)'
    BY <1>5, <2>1, <2>4, Joined, TimelyJoined
  <2>6. ASSUME NEW k \in Keys, NEW s \in Sources PROVE Len(samples'[k][s]) <= 2
    <3>1. samples \in [Keys -> [Sources -> Seq(Samples)]]
      BY DEF EvidenceInv, SampleInv
    <3>2. \A before, sample : Len(ObserveCounter(before, sample)) <= 2
      BY DEF ObserveCounter
    <3>3. \/ samples' = samples
          \/ samples' = [samples EXCEPT ![o.key][o.source] =
                           ObserveCounter(samples[o.key][o.source], SampleOf(o))]
      BY <1>2, <1>7, <3>1 DEF Accept, Admitted
    <3>4. \/ samples'[k][s] = samples[k][s]
          \/ samples'[k][s] = ObserveCounter(samples[o.key][o.source], SampleOf(o))
      BY <1>2, <3>1, <3>3
    <3>5. QED
      BY <3>2, <3>4 DEF BoundInv
  <2>7. accepted' # 0
    BY <1>1, <2>1
  <2>8. QED
    BY <1>1, <1>2, <1>3, <1>4, <2>1, <2>2, <2>3, <2>5, <2>6, <2>7 DEF BoundInv
<1>8. QED
  BY <1>6, <1>7

\* The state of the observatory is always well formed: its evidence, samples
\* and log keep their bounds, no gap or event is of the future, and there is a
\* verdict exactly from the first accepted observation on.
THEOREM ObservatoryTypes == Spec => []TypeOK
<1>1. Init => BoundInv
  <2> SUFFICES ASSUME Init PROVE BoundInv
    OBVIOUS
  <2>1. Len(<<>>) = 0 /\ MaxTime \in Nat /\ MaxGeneration \in Nat /\ MaxScope \in Nat
    BY ObservatoryAssumption
  <2>2. QED
    BY <2>1 DEF Init, BoundInv, Timely
<1>2. EvidenceInv /\ LogInv /\ BoundInv /\ [Next]_vars => BoundInv'
  <2> SUFFICES ASSUME EvidenceInv, LogInv, BoundInv, [Next]_vars PROVE BoundInv'
    OBVIOUS
  <2>1. CASE Tick
    <3>1. now' = now + 1 /\ now \in Nat /\ now + 1 <= MaxTime /\ MaxTime \in Nat
      BY <2>1, ObservatoryAssumption DEF Tick, EvidenceInv, ClockInv
    <3>2. UNCHANGED <<generation, scope, samples, observed, accepted, past>>
      BY <2>1 DEF Tick, evidenceVars
    <3>3. ASSUME NEW i \in 1..Len(past) PROVE past[i].at \in 0..(now + 1)
      BY <3>1 DEF BoundInv, Timely
    <3>4. Timely(past)'
      BY <3>1, <3>2, <3>3 DEF BoundInv, Timely
    <3>5. QED
      BY <3>1, <3>2, <3>4 DEF BoundInv
  <2>2. CASE UNCHANGED vars
    BY <2>2 DEF vars, evidenceVars, BoundInv, Timely
  <2>3. QED
    BY <2>1, <2>2, StepCases, BoundStep DEF EvidenceInv
<1>3. EvidenceInv /\ LogInv /\ BoundInv => TypeOK
  <2> SUFFICES ASSUME EvidenceInv, LogInv, BoundInv PROVE TypeOK
    OBVIOUS
  <2>1. now \in 0..MaxTime /\ generation \in 0..MaxGeneration
    BY ObservatoryAssumption DEF EvidenceInv, ClockInv, BoundInv
  <2>2. scope \in [Sources -> 0..MaxScope]
    BY ObservatoryAssumption DEF EvidenceInv, ClockInv, BoundInv
  <2>3. ASSUME NEW k \in Keys
        PROVE  /\ Len(history[k]) <= MaxEvidence
               /\ \A s \in Sources : Len(samples[k][s]) <= 2
               /\ gap[k].open => gap[k].at \in 0..now
    BY DEF EvidenceInv, HistoryInv, GapInv, ClockInv, BoundInv
  <2>4. ASSUME NEW i \in DOMAIN log PROVE log[i].kind \in Kinds /\ log[i].at <= now
    <3>1. PICK T : log \in Seq(T)
      BY DEF LogInv, IsSequence
    <3>2. i \in 1..Len(log) /\ Len(log) \in Nat
      BY <3>1
    <3>3. dropped + i \in 1..Len(past) /\ log[i] = past[dropped + i]
      BY <3>2 DEF LogInv
    <3>4. QED
      BY <3>3 DEF BoundInv, Timely
  <2>5. QED
    BY <2>1, <2>2, <2>3, <2>4 DEF TypeOK, LogInv, BoundInv
<1>4. QED
  BY <1>1, <1>2, <1>3, PastInvariant, PTL DEF Spec
=============================================================================
