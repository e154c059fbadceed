--------------------------- MODULE CounterTracker ---------------------------
(***************************************************************************)
(* Counter continuity and delta derivation (src/store/counter_tracker.cpp).*)
(* Pure operators over counter samples.  A sample is a record with the     *)
(* fields scope, generation, sequence, gap_epoch, raw, width, reset,       *)
(* observed_at; `width' is the number of bits of the declared counter.     *)
(***************************************************************************)
EXTENDS Integers, Sequences

CONSTANTS
  CounterWidths,    \* declared widths in bits (the code has 32 and 64)
  MachineBits       \* width of std::uint64_t, in which deltas are computed

ASSUME CounterWidthAssumption ==
  /\ MachineBits \in Nat \ {0, 1}
  /\ CounterWidths \subseteq 2..MachineBits

Discontinuities == {"None", "Reset", "Wrap"}

CounterRange(width) == 2^width - 1
\* Mutant: half of the width.
WrapDetectionThreshold_Half(width) == 2^(width - 1)

\* Three quarters of the declared width.
WrapDetectionThreshold(width) == 3 * 2^(width - 2)

SameIdentity(base, sample) ==
  /\ base.scope = sample.scope
  /\ base.generation = sample.generation

-----------------------------------------------------------------------------
(***************************************************************************)
(* CounterContinuity: the newest sample and the one before it, as a        *)
(* sequence of at most two samples, oldest first.                          *)
(***************************************************************************)
Outcome(kind, gap, valid, delta) ==
  [discontinuity |-> kind, sequence_gap |-> gap, delta_valid |-> valid, delta |-> delta]
NoOutcome == Outcome("None", FALSE, FALSE, 0)
\* Mutant: the threshold itself does not count as the top of the width.
ContinuityOutcome_AboveThreshold(continuity, sample) ==
  LET baseline == continuity[Len(continuity)]
      gap   == sample.sequence <= baseline.sequence \/ sample.gap_epoch # baseline.gap_epoch
      total == (CounterRange(baseline.width) - baseline.raw) + 1 + sample.raw
  IN  IF continuity = <<>> \/ ~SameIdentity(baseline, sample) THEN NoOutcome
      ELSE IF sample.reset               THEN Outcome("Reset", gap, FALSE, 0)
      ELSE IF sample.raw >= baseline.raw THEN Outcome("None", gap, ~gap, sample.raw - baseline.raw)
      ELSE IF /\ baseline.raw > WrapDetectionThreshold(baseline.width)
              /\ total <= CounterRange(MachineBits)
                                         THEN Outcome("Wrap", gap, ~gap, total)
      ELSE Outcome("Reset", gap, FALSE, 0)

(***************************************************************************)
(* observe_counter, against the newest sample retained: a gap when the     *)
(* sequence regressed or a revision was lost between the two, a wrap only  *)
(* for a step back from the top of the width whose modular delta fits.     *)
(***************************************************************************)
ContinuityOutcome(continuity, sample) ==
  LET baseline == continuity[Len(continuity)]
      gap   == sample.sequence <= baseline.sequence \/ sample.gap_epoch # baseline.gap_epoch
      total == (CounterRange(baseline.width) - baseline.raw) + 1 + sample.raw
  IN  IF continuity = <<>> \/ ~SameIdentity(baseline, sample) THEN NoOutcome
      ELSE IF sample.reset               THEN Outcome("Reset", gap, FALSE, 0)
      ELSE IF sample.raw >= baseline.raw THEN Outcome("None", gap, ~gap, sample.raw - baseline.raw)
      ELSE IF /\ baseline.raw >= WrapDetectionThreshold(baseline.width)
              /\ total <= CounterRange(MachineBits)
                                         THEN Outcome("Wrap", gap, ~gap, total)
      ELSE Outcome("Reset", gap, FALSE, 0)

\* Mutant: a declared reset is not taken as the new baseline.
ObserveCounter_SkipsResets(continuity, sample) ==
  IF continuity = <<>> THEN <<sample>>
  ELSE IF sample.reset THEN continuity
  ELSE <<continuity[Len(continuity)], sample>>

ObserveCounter(continuity, sample) ==
  IF continuity = <<>> THEN <<sample>>
  ELSE <<continuity[Len(continuity)], sample>>

(***************************************************************************)
(* derive_delta, the code's second case analysis of a pair of samples,     *)
(* written from its own lines: nothing below is shared with                *)
(* ContinuityOutcome but what the two functions share in the code.         *)
(***************************************************************************)
SequenceGap(previous, current) ==
  \/ current.sequence <= previous.sequence
  \/ current.gap_epoch # previous.gap_epoch
DeltaResult(fault, delta) == [fault |-> fault, delta |-> delta]
\* Mutant: the step through zero is forgotten.
RawDelta_OffByOne(previous, current) ==
  LET head == CounterRange(previous.width) - previous.raw
  IN  CASE current.reset -> DeltaResult("CounterReset", 0)
        [] ~current.reset /\ current.raw >= previous.raw ->
             DeltaResult("None", current.raw - previous.raw)
        [] ~current.reset /\ current.raw < previous.raw ->
             IF previous.raw < WrapDetectionThreshold(previous.width)
             THEN DeltaResult("CounterReset", 0)
             ELSE DeltaResult("None", head + current.raw)

\* What the two readings alone say.
RawDelta(previous, current) ==
  LET head == (CounterRange(previous.width) - previous.raw) + 1
  IN  CASE current.reset -> DeltaResult("CounterReset", 0)
        [] ~current.reset /\ current.raw >= previous.raw ->
             DeltaResult("None", current.raw - previous.raw)
        [] ~current.reset /\ current.raw < previous.raw ->
             IF previous.raw < WrapDetectionThreshold(previous.width)
             THEN DeltaResult("CounterReset", 0)
             ELSE IF head + current.raw > CounterRange(MachineBits)
             THEN DeltaResult("Overflow", 0)
             ELSE DeltaResult("None", head + current.raw)

(***************************************************************************)
(* The faults in the order the code tests them.  The caller says whether   *)
(* each sample is usable (freshness, scope and generation currency) and    *)
(* how wide the derivation window is.                                      *)
(***************************************************************************)
DeltaFault(continuity, previousUsable, currentUsable, maxWindow) ==
  LET previous == continuity[1]
      current  == continuity[2]
      span     == current.observed_at - previous.observed_at
  IN  IF Len(continuity) < 2                    THEN "MissingPreviousSample"
      ELSE IF ~previousUsable \/ ~currentUsable THEN "StaleSample"
      ELSE IF ~SameIdentity(previous, current)  THEN "FencedSample"
      ELSE IF SequenceGap(previous, current)    THEN "RevisionGap"
      ELSE IF span <= 0                         THEN "NonMonotonicTime"
      ELSE IF span > maxWindow                  THEN "WindowTooLarge"
      ELSE RawDelta(previous, current).fault

DerivedDelta(continuity) == RawDelta(continuity[1], continuity[2]).delta
=============================================================================
