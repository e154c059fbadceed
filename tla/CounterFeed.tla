---------------------------- MODULE CounterFeed -----------------------------
(***************************************************************************)
(* One cumulative counter of one device, reported over a revision stream   *)
(* that also carries other keys and may lose revisions, and the deltas the *)
(* tracker derives from it.  The device is the environment: it counts,     *)
(* wraps at its width, and may restart from zero with or without telling.  *)
(* The stream is the gap accounting of EvidenceStore::accept within one    *)
(* scope and generation (module EvidenceStore has the whole of it).        *)
(***************************************************************************)
EXTENDS CounterTracker

CONSTANTS
  Width,          \* bits of the device's counter
  MaxTotal,       \* bound: what the device counts in a run
  MaxRevisions,   \* bound: revisions the source publishes
  MaxHidden,      \* bound: restarts the device does not declare
  MaxWindow       \* policy.derivation_window, in ticks of the clock

ASSUME FeedAssumption ==
  /\ Width \in CounterWidths
  /\ MaxTotal \in Nat /\ MaxRevisions \in Nat /\ MaxHidden \in Nat
  /\ MaxWindow \in Nat

\* Powers of two, for the proofs: the provers do not know them.
ASSUME PowersOfTwo ==
  \A n \in 0..MachineBits : 2^n \in Nat \ {0} /\ (n > 0 => 2^n = 2 * 2^(n - 1))

VARIABLES
  total,        \* what the device has counted in truth
  register,     \* the device's counter register
  hidden,       \* undeclared restarts of the device
  declare,      \* a restart the next report will declare
  clock,        \* the observation instant of the next report
  revision,     \* the last revision the source published
  lastSeq, gapCount,    \* StreamState::last_sequence and gap_count
  continuity,   \* the slot's CounterContinuity
  outcome,      \* what observe_counter last reported
  truth         \* history: the total and restarts at each retained sample

deviceVars == <<total, register, hidden, declare>>
streamVars == <<revision, lastSeq, gapCount>>
trackerVars == <<continuity, outcome, truth>>
vars == <<deviceVars, clock, streamVars, trackerVars>>

TypeOK ==
  /\ total \in 0..MaxTotal
  /\ register \in 0..CounterRange(Width)
  /\ hidden \in Nat /\ declare \in BOOLEAN /\ clock \in Nat
  /\ revision \in 0..MaxRevisions /\ lastSeq \in 0..MaxRevisions
  /\ gapCount \in Nat
  /\ Len(continuity) <= 2 /\ Len(truth) = Len(continuity)
  /\ \A i \in DOMAIN continuity : continuity[i].raw <= CounterRange(Width)
  /\ outcome.delta \in 0..CounterRange(MachineBits)

Init ==
  /\ total = 0 /\ register = 0 /\ hidden = 0 /\ declare = FALSE /\ clock = 0
  /\ revision = 0 /\ lastSeq = 0 /\ gapCount = 0
  /\ continuity = <<>> /\ outcome = NoOutcome /\ truth = <<>>

-----------------------------------------------------------------------------
Count(n) ==
  /\ total + n <= MaxTotal
  /\ total' = total + n
  /\ register' = (register + n) % 2^Width
  /\ UNCHANGED <<hidden, declare, clock, streamVars, trackerVars>>

DeviceRestart(told) ==
  /\ total > 0
  /\ register' = 0
  /\ declare' = (declare \/ told)
  /\ hidden' = IF told THEN hidden ELSE hidden + 1
  /\ hidden' <= MaxHidden
  /\ UNCHANGED <<total, clock, streamVars, trackerVars>>

\* A revision that never arrives.
Lose ==
  /\ revision < MaxRevisions
  /\ revision' = revision + 1
  /\ UNCHANGED <<deviceVars, clock, lastSeq, gapCount, trackerVars>>

Gap == lastSeq > 0 /\ revision + 1 > lastSeq + 1
EpochAfter == IF Gap THEN gapCount + 1 ELSE gapCount

OtherKey ==
  /\ revision < MaxRevisions
  /\ revision' = revision + 1 /\ lastSeq' = revision + 1
  /\ gapCount' = EpochAfter
  /\ UNCHANGED <<deviceVars, clock, trackerVars>>

Reported ==
  [scope |-> "scope", generation |-> "generation", sequence |-> revision + 1,
   gap_epoch |-> EpochAfter, observed_at |-> clock,
   raw |-> register, width |-> Width, reset |-> declare]

\* The source reports the counter and the store accepts it.
Report(elapsed) ==
  /\ revision < MaxRevisions
  /\ revision' = revision + 1 /\ lastSeq' = revision + 1
  /\ gapCount' = EpochAfter
  /\ continuity' = ObserveCounter(continuity, Reported)
  /\ outcome' = ContinuityOutcome(continuity, Reported)
  /\ truth' = IF truth = <<>> THEN <<[total |-> total, hidden |-> hidden]>>
              ELSE <<truth[Len(truth)], [total |-> total, hidden |-> hidden]>>
  /\ declare' = FALSE
  /\ clock' = clock + elapsed
  /\ UNCHANGED <<total, register, hidden>>

Next ==
  \/ \E n \in 1..2^Width : Count(n)
  \/ \E told \in BOOLEAN : DeviceRestart(told)
  \/ Lose \/ OtherKey
  \/ \E elapsed \in 0..MaxWindow + 1 : Report(elapsed)

Spec == Init /\ [][Next]_vars

-----------------------------------------------------------------------------
(***************************************************************************)
(* Properties.                                                             *)
(***************************************************************************)
Fault == DeltaFault(continuity, TRUE, TRUE, MaxWindow)
Derived == Len(continuity) = 2 /\ Fault = "None"
Counted == truth[2].total - truth[1].total
HiddenRestart == truth[2].hidden # truth[1].hidden

\* A derived delta is the truth: whatever was lost, reordered in time, reset
\* or wrapped, a delta that derive_delta yields is what the device counted,
\* when it counted less than one full turn and hid no restart.
DeltaIsExact ==
  (Derived /\ ~HiddenRestart /\ Counted < 2^Width) =>
    DerivedDelta(continuity) = Counted

\* observe_counter and derive_delta, which the code writes out separately
\* (counter_tracker.cpp:38-62 and 123-168) and which are modelled separately,
\* never disagree: a delta one of them calls valid is valid and equal in the
\* other, apart from the window that only derive_delta looks at.
ObserveAndDeriveAgree ==
  Len(continuity) = 2 =>
    /\ Fault = "None" => outcome.delta_valid /\ outcome.delta = DerivedDelta(continuity)
    /\ outcome.delta_valid => Fault \in {"None", "NonMonotonicTime", "WindowTooLarge"}

\* Traffic is invented only by the one ambiguity the threshold leaves: a hidden
\* restart of a register in the top quarter of its width.
OnlyTopQuarterAmbiguous ==
  (Derived /\ DerivedDelta(continuity) > Counted) =>
    HiddenRestart /\ 4 * continuity[1].raw >= 3 * 2^Width
=============================================================================
