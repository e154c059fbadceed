----------------------------- MODULE Classifier -----------------------------
(***************************************************************************)
(* Classification of one link (src/classify/classifier.cpp) over what the  *)
(* evidence store holds for it: contenders and their eligibility, winner   *)
(* selection, conflict, derived utilization and ratios, confidence, and    *)
(* the rules in their fixed precedence: a pure function of its input.      *)
(*                                                                         *)
(* Time is in seconds, ratios in parts of FullScale; instants are far from *)
(* the ends of their range, so subtracting two of them never overflows.    *)
(***************************************************************************)
EXTENDS CounterTracker, FiniteSets, SequencesExt

CONSTANTS
  Sources,             \* SourceId, ordered: a set of naturals
  Authority,           \* SourceAuthority of each source: 0 (unknown) to 4 (primary)
  KeyOrder,            \* metric keys [family, direction, class] in MetricKey order
  Capacity,            \* declared capacity per direction, 0 where there is none
  FullScale,           \* one part in one (10^9 in the code)
  FreshWithin, UsableWithin,   \* FreshnessPolicy, per family
  SaturationPpb, DegradedQualityPpb, ErrorRatioPpb, DiscardRatioPpb,
  ConflictTolerancePpb, FlapThreshold, FlapWindow, DerivationWindow,
  MaxContenders,       \* policy.limits.max_contenders_per_key
  MaxResultRows        \* policy.limits.max_result_rows

Keys == Range(KeyOrder)
Families == {"AdminState", "OperState", "Octets", "Errors", "Discards",
             "UtilReported", "SignalQuality", "FlapReport"}
CounterFamilies == {"Octets", "Errors", "Discards"}
OperKey == [family |-> "OperState", direction |-> "Unknown", class |-> "None"]
AdminKey == [family |-> "AdminState", direction |-> "Unknown", class |-> "None"]
OctetsKey == [family |-> "Octets", direction |-> "In", class |-> "None"]
Directions == {"Unknown", "In", "Out", "Both"}
DirectionalFamilies == {"Octets", "Errors", "Discards", "UtilReported", "SignalQuality"}

\* The MetricKeys that validate_reading lets in.
ValidKey(k) ==
  /\ k \in [family : Families, direction : Directions, class : STRING]
  /\ k.direction # "Unknown" => k.family \in DirectionalFamilies
  /\ k.class # "None" => k.family \in {"Errors", "Discards"}

\* MetricPayload: the alternative that belongs to each family.
Readings(family) ==
  CASE family = "AdminState" -> [value : {"Unknown", "Enabled", "Disabled"}]
    [] family = "OperState" -> [value : {"Unknown", "Up", "Down", "Degraded"}]
    [] family \in CounterFamilies -> [raw : Nat, width : CounterWidths, reset : BOOLEAN]
    [] family \in {"UtilReported", "FlapReport"} -> [value : Nat]
    [] family = "SignalQuality" -> [value : 0..FullScale, declared : BOOLEAN]

\* What policy validation lets through, and the link's facts.
ValidPolicy ==
  /\ IsFiniteSet(Sources) /\ Sources \subseteq Nat
  /\ Authority \in [Sources -> 0..4]
  /\ KeyOrder \in Seq(Keys) /\ IsInjective(KeyOrder)
  /\ {OperKey, AdminKey, OctetsKey} \subseteq Keys /\ \A k \in Keys : ValidKey(k)
  /\ Capacity \in [{"In", "Out"} -> Nat]
  /\ FullScale \in Nat \ {0}
  /\ {FreshWithin, UsableWithin} \subseteq [Families -> Nat \ {0}]
  /\ \A f \in Families : UsableWithin[f] > FreshWithin[f]
  /\ SaturationPpb \in 1..FullScale /\ DegradedQualityPpb \in 0..FullScale
  /\ ConflictTolerancePpb \in 0..FullScale
  /\ ErrorRatioPpb \in Nat /\ DiscardRatioPpb \in Nat
  /\ {FlapThreshold, FlapWindow, DerivationWindow} \subseteq Nat \ {0}
  /\ {MaxContenders, MaxResultRows} \subseteq Nat \ {0}

ASSUME PolicyAssumption == ValidPolicy

(***************************************************************************)
(* ClassificationInput: a view v of the evidence kept for the link.        *)
(*   v.now         the instant of evaluation                               *)
(*   v.generation  the link's current topology generation                  *)
(*   v.scope       StreamState::scope of each source, 0 before the first   *)
(*   v.history     Slot::history of each key, newest first                 *)
(*   v.samples     Slot::continuity of each key and source, oldest first   *)
(*   v.gap         Slot::has_gap and last_gap_at of each key               *)
(* The transition log enters through the number of flap events it shows.   *)
(***************************************************************************)
NoGap == [at |-> 0, open |-> FALSE]

-----------------------------------------------------------------------------
(***************************************************************************)
(* Age and freshness.                                                      *)
(***************************************************************************)
\* Mutant: an instant ahead of the clock counts as that far in the past.
Age_Absolute(v, t) == IF v.now >= t THEN v.now - t ELSE t - v.now

\* An instant ahead of the clock has age zero.
Age(v, t) == IF v.now >= t THEN v.now - t ELSE 0

\* The worse of the observed and the received age decides, for evidence and
\* for counter samples alike.
Freshness(v, e, family) ==
  LET effective == Max({Age(v, e.observed_at), Age(v, e.received_at)})
  IN  IF effective <= FreshWithin[family] THEN "Fresh"
      ELSE IF effective <= UsableWithin[family] THEN "Stale"
      ELSE "Expired"

Strength == [Unknown |-> 0, Expired |-> 1, Stale |-> 2, Fresh |-> 3]

\* Mutant: evidence of a superseded topology counts.
InForce_AnyGeneration(v, e) == e.scope = v.scope[e.source]

InForce(v, e) == e.scope = v.scope[e.source] /\ e.generation = v.generation
\* Mutant: evidence in the stale band is eligible.
Eligible_Stale(v, k, e) == Freshness(v, e, k.family) # "Expired" /\ InForce(v, e)

Eligible(v, k, e) == Freshness(v, e, k.family) = "Fresh" /\ InForce(v, e)

\* The newest evidence of each source.
Newest(v, k) ==
  {e \in Range(v.history[k]) : \A f \in Range(v.history[k]) :
                                f.source = e.source => f.accepted <= e.accepted}

\* The scan goes from the newest evidence back and stops at the bound.
Contenders(v, k) ==
  {e \in Newest(v, k) :
     Cardinality({f \in Newest(v, k) : f.accepted > e.accepted}) < MaxContenders}

-----------------------------------------------------------------------------
(***************************************************************************)
(* Winner selection.                                                       *)
(***************************************************************************)
\* Mutant: the last tie is not broken.
HigherPriority_NoTieBreak(e, f) ==
  \/ Authority[e.source] > Authority[f.source]
  \/ /\ Authority[e.source] = Authority[f.source]
     /\ \/ e.observed_at > f.observed_at
        \/ e.observed_at = f.observed_at /\ e.received_at > f.received_at

HigherPriority(e, f) ==
  \/ Authority[e.source] > Authority[f.source]
  \/ /\ Authority[e.source] = Authority[f.source]
     /\ \/ e.observed_at > f.observed_at
        \/ /\ e.observed_at = f.observed_at
           /\ \/ e.received_at > f.received_at
              \/ e.received_at = f.received_at /\ e.source < f.source

\* The first that the scan meets of the eligible contenders no other displaces.
SelectWinner(eligible) ==
  LET best == {e \in eligible : \A f \in eligible : ~HigherPriority(f, e)}
  IN  CHOOSE e \in best : \A f \in best : f.accepted <= e.accepted

-----------------------------------------------------------------------------
(***************************************************************************)
(* Rates derived from the counter samples of one source.                   *)
(***************************************************************************)
SampleUsable(v, k, s, sample) ==
  /\ sample.scope = v.scope[s]
  /\ sample.generation = v.generation
  /\ Freshness(v, sample, k.family) # "Expired"

NoRate == [has_delta |-> FALSE, delta |-> 0, window |-> 0,
           has_utilization |-> FALSE, utilization |-> 0]

CapacityFor(direction) == IF direction \in DOMAIN Capacity THEN Capacity[direction] ELSE 0

\* The utilization of a capacity, which needs a bit count and a quotient that
\* fit; the rate in bits per second, over whole seconds, then fits as well.
UtilizationPpb(delta, capacity, window) ==
  (8 * delta * FullScale) \div (capacity * window)

UtilizationDefined(delta, capacity, window) ==
  /\ capacity # 0
  /\ 8 * delta <= CounterRange(MachineBits)
  /\ UtilizationPpb(delta, capacity, window) <= CounterRange(MachineBits)

DeriveFor(v, k, s) ==
  LET pair == v.samples[k][s]
      fault == DeltaFault(pair, SampleUsable(v, k, s, pair[1]),
                          SampleUsable(v, k, s, pair[2]), DerivationWindow)
      delta == DerivedDelta(pair)
      window == pair[2].observed_at - pair[1].observed_at
      defined == UtilizationDefined(delta, CapacityFor(k.direction), window)
  IN  IF fault # "None" THEN NoRate
      ELSE [has_delta |-> TRUE, delta |-> delta, window |-> window,
            has_utilization |-> defined,
            utilization |-> IF defined
                            THEN UtilizationPpb(delta, CapacityFor(k.direction), window)
                            ELSE 0]

RatioDefined(n, d) == d # 0 /\ (n * FullScale) \div d <= CounterRange(MachineBits)
RatioPpb(n, d) == (n * FullScale) \div d

RelativeDifference(a, b) ==
  IF a = b THEN 0
  ELSE RatioPpb(Max({a, b}) - Min({a, b}), Max({a, b}))

-----------------------------------------------------------------------------
(***************************************************************************)
(* Conflict among the eligible contenders of the highest authority.        *)
(***************************************************************************)
ReadingsDisagree(k, p, q) ==
  CASE k.family \in {"AdminState", "OperState"} ->
         p.value # q.value /\ p.value # "Unknown" /\ q.value # "Unknown"
    [] k.family \in {"UtilReported", "SignalQuality"} ->
         RelativeDifference(p.value, q.value) > ConflictTolerancePpb
    [] OTHER -> FALSE

RatesDisagree(d, e) ==
  /\ d.has_utilization /\ e.has_utilization
  /\ RelativeDifference(d.utilization, e.utilization) > ConflictTolerancePpb

\* Counters are compared on their rates, always that of the winner with that
\* of the second contender of the pair.
PairConflicts(v, k, winner, e, f) ==
  IF k.family \in CounterFamilies
  THEN RatesDisagree(DeriveFor(v, k, winner.source), DeriveFor(v, k, f.source))
  ELSE ReadingsDisagree(k, e.payload, f.payload)

TopContenders(eligible) ==
  {e \in eligible : /\ Authority[e.source] # 0
                    /\ \A f \in eligible : Authority[f.source] <= Authority[e.source]}

\* Pairs are taken in the order of the scan, the newer contender first.
AnyPairConflicts(v, k, winner, top) ==
  \E e, f \in top : e.accepted > f.accepted /\ PairConflicts(v, k, winner, e, f)
\* Mutant: two sources are too few to compare.
Conflict_NeedsThree(v, k, winner, top) ==
  IF top = {} THEN "None"
  ELSE IF Cardinality(top) <= 2 THEN "Insufficient"
  ELSE IF AnyPairConflicts(v, k, winner, top) THEN "Conflicting" ELSE "Corroborated"

\* No source appears twice among the contenders, so two of them are compared.
Conflict(v, k, winner, top) ==
  IF top = {} THEN "None"
  ELSE IF Cardinality(top) < 2 THEN "Insufficient"
  ELSE IF AnyPairConflicts(v, k, winner, top) THEN "Conflicting" ELSE "Corroborated"

-----------------------------------------------------------------------------
(***************************************************************************)
(* Completeness and confidence.  Confidence runs from 0 (unknown) to 3     *)
(* (high).                                                                 *)
(***************************************************************************)
Supported(v, k) == v.history[k] # <<>>

Completeness(v, k) ==
  IF ~Supported(v, k) THEN "Unknown"
  ELSE IF v.gap[k].open /\ v.now - v.gap[k].at \in 0..DerivationWindow THEN "Incomplete"
  ELSE "Complete"

AuthorityConfidence == [a \in 0..4 |-> <<0, 1, 1, 2, 3>>[a + 1]]

DeriveConfidence(authority, freshness, conflict, completeness) ==
  LET base == AuthorityConfidence[authority]
  IN  IF freshness \in {"Unknown", "Expired"} THEN 0
      ELSE IF conflict = "Conflicting" \/ freshness = "Stale" THEN 1
      ELSE IF completeness = "Incomplete" /\ base > 1 THEN base - 1 ELSE base

-----------------------------------------------------------------------------
(***************************************************************************)
(* FamilyReport: what is concluded about one key.  A key no source ever    *)
(* reported has an empty report; winner and rate are those of the value.   *)
(***************************************************************************)
NoReport == [freshness |-> "Unknown", has_value |-> FALSE, conflict |-> "None",
             completeness |-> "Unknown", confidence |-> 0,
             winner |-> <<>>, value |-> "", rate |-> NoRate]

\* The contenders that may win.
EligibleContenders(v, k) == {e \in Contenders(v, k) : Eligible(v, k, e)}

ReportOf(v, k) ==
  LET eligible == EligibleContenders(v, k)
      winner == SelectWinner(eligible)
      conflict == Conflict(v, k, winner, TopContenders(eligible))
      best == Max({Strength[Freshness(v, e, k.family)] : e \in Contenders(v, k)})
      aged == [NoReport EXCEPT
                 !.freshness = CHOOSE f \in DOMAIN Strength : Strength[f] = best,
                 !.completeness = Completeness(v, k)]
  IN  IF ~Supported(v, k) THEN NoReport
      ELSE IF eligible = {} THEN aged
      ELSE [aged EXCEPT
              !.has_value = TRUE, !.conflict = conflict,
              !.confidence = DeriveConfidence(Authority[winner.source],
                               Freshness(v, winner, k.family), conflict, Completeness(v, k)),
              !.winner = winner,
              !.value = IF k.family \in CounterFamilies THEN winner.payload.raw
                        ELSE winner.payload.value,
              !.rate = IF k.family \in CounterFamilies
                       THEN DeriveFor(v, k, winner.source) ELSE NoRate]

Reports(v) == [k \in Keys |-> ReportOf(v, k)]

\* The text of a reported value, as the runtime tracks it.
Text(report) == IF report.has_value THEN report.value ELSE "none"

-----------------------------------------------------------------------------
(***************************************************************************)
(* The rules, over the reports r of all keys.                              *)
(***************************************************************************)
Held(r, family) == {k \in Keys : k.family = family /\ r[k].has_value}
Greatest(S) == Max(S \cup {0})

Reads(r, k, value) == r[k].has_value /\ r[k].value = value

SourceFlapping(r) ==
  Greatest({r[k].value : k \in Held(r, "FlapReport")}) >= FlapThreshold

\* Mutant: the threshold must be exceeded.
SaturatedReported_Exceeds(r) ==
  Greatest({r[k].value : k \in Held(r, "UtilReported")}) > SaturationPpb

SaturatedReported(r) ==
  Greatest({r[k].value : k \in Held(r, "UtilReported")}) >= SaturationPpb

SaturatedDerived(r) ==
  Greatest({r[k].rate.utilization : k \in Held(r, "Octets")}) >= SaturationPpb

\* Mutant: the lengths of the two windows are not compared.
HasRatio_AnyWindow(r, k) ==
  /\ r[k].has_value /\ r[k].rate.has_delta
  /\ r[OctetsKey].has_value /\ r[OctetsKey].rate.has_delta
  /\ RatioDefined(r[k].rate.delta, r[OctetsKey].rate.delta)

\* Errors or discards per inbound octet, over windows of one length.
HasRatio(r, k) ==
  /\ r[k].has_value /\ r[k].rate.has_delta
  /\ r[OctetsKey].has_value /\ r[OctetsKey].rate.has_delta
  /\ r[k].rate.window = r[OctetsKey].rate.window
  /\ RatioDefined(r[k].rate.delta, r[OctetsKey].rate.delta)

\* The last key in order decides.
RatioReaches(r, family, threshold) ==
  LET i == SelectLastInSeq(KeyOrder, LAMBDA k : k.family = family /\ HasRatio(r, k))
  IN  /\ i # 0
      /\ RatioPpb(r[KeyOrder[i]].rate.delta, r[OctetsKey].rate.delta) >= threshold

\* The scan takes a worst reading of zero for "none so far" and starts again
\* after it.
WorstQuality(r) ==
  LET held == SelectSeq(KeyOrder, LAMBDA k : k \in Held(r, "SignalQuality"))
      zero == SelectLastInSeq(held, LAMBDA k : r[k].value = 0)
      rest == Range(SubSeq(held, zero + 1, Len(held)))
  IN  IF rest = {} THEN 0 ELSE Min({r[k].value : k \in rest})

QualityDegraded(r) ==
  /\ Held(r, "SignalQuality") # {}
  /\ \/ WorstQuality(r) <= DegradedQualityPpb
     \/ \E k \in Held(r, "SignalQuality") : r[k].winner.payload.declared

Decisive(k) == k.family # "FlapReport"

DecisiveIncomplete(r) ==
  \E k \in Keys : /\ Decisive(k) /\ k.direction # "Both"
                  /\ r[k].completeness = "Incomplete"

AnyEvidence(v) == \E k \in Keys : Supported(v, k)

LinkStates == {"Unknown", "Conflicting", "Down", "Flapping", "Erroring",
               "Saturated", "Degraded", "Stale", "Healthy"}

\* The state of the link, given the observed state changes in the flap window.
\* Only the operational state is required to have a source.
State(v, r, flapEvents) ==
  IF ~AnyEvidence(v) THEN "Unknown"
  ELSE IF \E k \in Keys : r[k].conflict = "Conflicting" THEN "Conflicting"
  ELSE IF Reads(r, OperKey, "Down") \/ Reads(r, AdminKey, "Disabled") THEN "Down"
  ELSE IF flapEvents >= FlapThreshold \/ SourceFlapping(r) THEN "Flapping"
  ELSE IF RatioReaches(r, "Errors", ErrorRatioPpb) THEN "Erroring"
  ELSE IF SaturatedReported(r) \/ SaturatedDerived(r) THEN "Saturated"
  ELSE IF \/ QualityDegraded(r) \/ Reads(r, OperKey, "Degraded")
          \/ RatioReaches(r, "Discards", DiscardRatioPpb) THEN "Degraded"
  ELSE IF ~Supported(v, OperKey) \/ DecisiveIncomplete(r) THEN "Unknown"
  ELSE IF \A k \in Keys : ~r[k].has_value THEN "Stale"
  ELSE IF Reads(r, OperKey, "Up") THEN "Healthy"
  ELSE "Unknown"
\* Mutant: the strongest family speaks for the link.
LinkConfidence_Strongest(r) ==
  Greatest({r[k].confidence : k \in {k \in Keys : Decisive(k) /\ r[k].has_value}})

\* The weakest decisive family that holds a value.
LinkConfidence(r) ==
  LET held == {k \in Keys : Decisive(k) /\ r[k].has_value}
  IN  IF held = {} THEN 0 ELSE Min({r[k].confidence : k \in held})
=============================================================================
