----------------------------- MODULE Observatory ----------------------------
(***************************************************************************)
(* One link of the running observatory as time passes: observations are    *)
(* admitted to its evidence, the link is classified again after each one   *)
(* (Observatory::refresh_classification_locked), and what changed is       *)
(* written to the link's bounded transition log (src/store/history.cpp).   *)
(* At every instant a reader may ask for the classification.               *)
(*                                                                         *)
(* Which observations are admitted at all is the subject of Ingest; here   *)
(* the source is registered, its revision is new, and its scope and        *)
(* generation are the current or a new one.                                *)
(***************************************************************************)
EXTENDS Classifier

CONSTANTS
  Payloads,          \* readings of each key
  Lags,              \* [observed, received]: how far an observation's instants
                     \* lie behind the clock; negative where they are ahead of it
  MaxEvidence,       \* policy.limits.max_evidence_per_key
  MaxTransitions,    \* policy.limits.max_transitions_per_link
  MaxTime, MaxScope, MaxGeneration, MaxGaps, MaxObservations   \* bounds

ASSUME ObservatoryAssumption ==
  /\ MaxEvidence \in Nat \ {0} /\ MaxTransitions \in Nat \ {0}
  /\ \A k \in Keys : Payloads[k] \subseteq Readings(k.family)
  /\ Lags \subseteq [observed : Int, received : Int]
  /\ {MaxTime, MaxScope, MaxGeneration, MaxGaps, MaxObservations} \subseteq Nat

VARIABLES
  now,          \* the clock
  generation, scope, history, samples, gap,   \* see Classifier
  revision,     \* StreamState::last_sequence, 0 before the first
  gapCount,     \* StreamState::gap_count
  log,          \* TransitionLog::per_link_ of this link, oldest first
  dropped,      \* events that left the log
  observed,     \* observed_states_, last_oper_text_ and last_admin_text_
  accepted,     \* observations accepted
  past          \* history variable: all events ever logged, oldest first

evidenceVars == <<generation, scope, history, samples, gap>>
vars == <<now, evidenceVars, revision, gapCount, log, dropped, observed,
          accepted, past>>

\* The link has no entry in observed_states_.
NoVerdict == [state |-> "none", oper |-> "none", admin |-> "none"]

StateKeys == {OperKey, AdminKey}
StateKinds == {"OperStateChanged", "AdminStateChanged"}
Kinds == StateKinds \cup {"GenerationChanged", "CounterReset", "CounterWrap",
                          "RevisionGap", "ClassificationChanged"}

Init ==
  /\ now = 0 /\ generation = 0
  /\ scope = [s \in Sources |-> 0]
  /\ history = [k \in Keys |-> <<>>]
  /\ samples = [k \in Keys |-> [s \in Sources |-> <<>>]]
  /\ gap = [k \in Keys |-> NoGap]
  /\ revision = [s \in Sources |-> 0]
  /\ gapCount = [s \in Sources |-> 0]
  /\ log = <<>> /\ dropped = 0
  /\ observed = NoVerdict
  /\ accepted = 0
  /\ past = <<>>

-----------------------------------------------------------------------------
(***************************************************************************)
(* The transition log.                                                     *)
(***************************************************************************)
LastOf(s, n) == SubSeq(s, Max({1, Len(s) - n + 1}), Len(s))

\* TransitionLog::record, event by event: the oldest ones leave.
Trimmed(events) == LastOf(events, MaxTransitions)

\* TransitionLog::for_link.
Recent(events) == LastOf(events, MaxResultRows)

Event(kind, to) == [kind |-> kind, at |-> now, to |-> to]
When(condition, event) == IF condition THEN <<event>> ELSE <<>>

Log(events) ==
  /\ log' = Trimmed(log \o events)
  /\ dropped' = dropped + Len(log \o events) - Len(log')
  /\ past' = past \o events

\* Mutant: the event at the very start of the window is not counted.
FlapEvents_OpenWindow(events) ==
  Cardinality({i \in DOMAIN Recent(events) :
                 /\ Recent(events)[i].kind \in StateKinds
                 /\ Recent(events)[i].at > now - FlapWindow})

\* State changes logged since the start of the flap window.
FlapEvents(events) ==
  Cardinality({i \in DOMAIN Recent(events) :
                 /\ Recent(events)[i].kind \in StateKinds
                 /\ Recent(events)[i].at >= now - FlapWindow})

View == [now |-> now, generation |-> generation, scope |-> scope,
         history |-> history, samples |-> samples, gap |-> gap]

\* classify(): the state and the two values the runtime tracks.
Verdict(v, events) ==
  LET r == Reports(v)
  IN  [state |-> State(v, r, FlapEvents(events)), oper |-> Text(r[OperKey]),
       admin |-> Text(r[AdminKey])]

\* What a reader is told now.
Reported == Verdict(View, log).state

HasLastKnown == \E i \in DOMAIN Recent(log) : Recent(log)[i].kind = "ClassificationChanged"
LastKnown ==
  LET recent == Recent(log)
  IN  recent[SelectLastInSeq(recent, LAMBDA e : e.kind = "ClassificationChanged")].to

-----------------------------------------------------------------------------
(***************************************************************************)
(* Admission of an observation o = [source, key, payload, observed_at,     *)
(* received_at, scope, generation, sequence].                              *)
(***************************************************************************)
EntersScope(o) == o.scope # scope[o.source]

RevisionLost(o) ==
  /\ ~EntersScope(o) /\ revision[o.source] # 0
  /\ o.sequence > revision[o.source] + 1

\* The newest evidence of the same generation outranks the observation.
AuthorityDowngrade(o) ==
  LET same == SelectSeq(history[o.key], LAMBDA e : e.generation = o.generation)
  IN  /\ same # <<>>
      /\ Authority[Head(same).source] > Authority[o.source]
      /\ Head(same).observed_at >= o.observed_at

AdvanceStream(o) ==
  /\ generation' = o.generation
  /\ scope' = [scope EXCEPT ![o.source] = o.scope]
  /\ gapCount' = [gapCount EXCEPT ![o.source] = IF RevisionLost(o) THEN @ + 1 ELSE @]

GenerationEvents(o) ==
  When(o.generation # generation, Event("GenerationChanged", "generation"))

Refuse(o) ==
  /\ AuthorityDowngrade(o)
  /\ AdvanceStream(o)
  /\ revision' = [revision EXCEPT ![o.source] = IF EntersScope(o) THEN 0 ELSE @]
  /\ Log(GenerationEvents(o))
  /\ UNCHANGED <<now, history, samples, gap, observed, accepted>>

EvidenceOf(o) ==
  [source |-> o.source, scope |-> o.scope, generation |-> o.generation,
   accepted |-> accepted + 1, observed_at |-> o.observed_at,
   received_at |-> o.received_at, payload |-> o.payload]

SampleOf(o) ==
  [scope |-> o.scope, generation |-> o.generation, sequence |-> o.sequence,
   gap_epoch |-> gapCount[o.source] + (IF RevisionLost(o) THEN 1 ELSE 0),
   observed_at |-> o.observed_at, received_at |-> o.received_at,
   raw |-> o.payload.raw, width |-> o.payload.width, reset |-> o.payload.reset]

CounterOutcome(o) ==
  IF o.key.family \in CounterFamilies
  THEN ContinuityOutcome(samples[o.key][o.source], SampleOf(o)) ELSE NoOutcome

OpensGap(o) ==
  \/ RevisionLost(o)
  \/ CounterOutcome(o).discontinuity = "Reset"
  \/ CounterOutcome(o).sequence_gap

\* The evidence of the link once o is admitted.
Admitted(o) ==
  [now |-> now, generation |-> o.generation,
   scope |-> [scope EXCEPT ![o.source] = o.scope],
   history |-> [history EXCEPT ![o.key] =
                  SubSeq(<<EvidenceOf(o)>> \o @, 1, Min({Len(@) + 1, MaxEvidence}))],
   samples |-> IF o.key.family \in CounterFamilies
               THEN [samples EXCEPT ![o.key][o.source] = ObserveCounter(@, SampleOf(o))]
               ELSE samples,
   gap |-> IF OpensGap(o) THEN [gap EXCEPT ![o.key] = [at |-> now, open |-> TRUE]]
           ELSE gap]

AdmissionEvents(o) ==
  LET kind == CounterOutcome(o).discontinuity IN
  GenerationEvents(o)
    \o When(kind = "Reset", Event("CounterReset", "counter"))
    \o When(kind = "Wrap", Event("CounterWrap", "counter"))
    \o When(RevisionLost(o), Event("RevisionGap", "revision"))

-----------------------------------------------------------------------------
(***************************************************************************)
(* Classification after an admission.  The flap events are counted before  *)
(* the changes the new verdict brings are logged; the first verdict of a   *)
(* link only changes its classification, from none.                        *)
(***************************************************************************)
VerdictEvents(v) ==
  IF observed = NoVerdict THEN <<Event("ClassificationChanged", v.state)>>
  ELSE When(observed.state # v.state, Event("ClassificationChanged", v.state))
         \o When(observed.oper # v.oper, Event("OperStateChanged", v.oper))
         \o When(observed.admin # v.admin, Event("AdminStateChanged", v.admin))

Remember(verdict) == observed' = verdict

Accept(o) ==
  LET after == Admitted(o)
      verdict == Verdict(after, Trimmed(log \o AdmissionEvents(o)))
  IN  /\ ~AuthorityDowngrade(o)
      /\ AdvanceStream(o)
      /\ revision' = [revision EXCEPT ![o.source] = o.sequence]
      /\ history' = after.history /\ samples' = after.samples /\ gap' = after.gap
      /\ accepted' = accepted + 1
      /\ Remember(verdict)
      /\ Log(AdmissionEvents(o) \o VerdictEvents(verdict))
      /\ UNCHANGED now

Observe(s, k, payload, lag, sc, g, step) ==
  LET o == [source |-> s, key |-> k, payload |-> payload,
            observed_at |-> now - lag.observed, received_at |-> now - lag.received,
            scope |-> sc, generation |-> g,
            sequence |-> (IF sc = scope[s] THEN revision[s] ELSE 0) + step]
  IN  /\ accepted < MaxObservations
      /\ RevisionLost(o) => gapCount[s] < MaxGaps
      /\ Accept(o) \/ Refuse(o)

Tick ==
  /\ now < MaxTime
  /\ now' = now + 1
  /\ UNCHANGED <<evidenceVars, revision, gapCount, log, dropped, observed,
                 accepted, past>>

\* A scope is current or new, as is a generation; a revision follows the last
\* one at once or after a loss.
Next ==
  \/ Tick
  \/ \E s \in Sources, k \in Keys : \E payload \in Payloads[k], lag \in Lags,
        sc \in {scope[s], scope[s] + 1} \cap 1..MaxScope,
        g \in {generation, generation + 1} \cap 0..MaxGeneration,
        step \in 1..(IF revision[s] = 0 THEN 1 ELSE 2) :
       Observe(s, k, payload, lag, sc, g, step)

Spec == Init /\ [][Next]_vars

-----------------------------------------------------------------------------
(***************************************************************************)
(* Properties.  Current(k) is the evidence that may speak for the present, *)
(* said without the classifier: each source's last word on a key, recent   *)
(* in both its instants, of the scope and generation in force.             *)
(***************************************************************************)
Current(k) ==
  {e \in Range(history[k]) :
     /\ \A f \in Range(history[k]) : f.source = e.source => f.accepted <= e.accepted
     /\ now - e.observed_at <= FreshWithin[k.family]
     /\ now - e.received_at <= FreshWithin[k.family]
     /\ e.scope = scope[e.source] /\ e.generation = generation}

Outranked(k, e) == \E f \in Current(k) : Authority[f.source] > Authority[e.source]
Leading(k) == {e \in Current(k) : ~Outranked(k, e)}

\* The state of the observatory is well formed: evidence and log within their
\* bounds, a verdict for the link exactly when an observation was accepted.
TypeOK ==
  /\ now \in 0..MaxTime /\ generation \in 0..MaxGeneration
  /\ scope \in [Sources -> 0..MaxScope]
  /\ \A k \in Keys : /\ Len(history[k]) <= MaxEvidence
                     /\ \A s \in Sources : Len(samples[k][s]) <= 2
                     /\ gap[k].open => gap[k].at \in 0..now
  /\ Len(log) <= MaxTransitions
  /\ \A i \in DOMAIN log : log[i].kind \in Kinds /\ log[i].at <= now
  /\ dropped \in Nat
  /\ observed = NoVerdict <=> accepted = 0
  /\ observed # NoVerdict => observed.state \in LinkStates

\* The winner of a key beats every other eligible contender outright, so it
\* does not depend on the order the evidence arrived in (select_winner).
WinnerBeatsAll ==
  LET r == Reports(View) IN
  \A k \in Keys : r[k].has_value =>
    \A e \in Current(k) \ {r[k].winner} : HigherPriority(r[k].winner, e)

\* A link is called healthy only on a current "up" that no current reading of
\* equal or higher authority contradicts (winner, conflict and precedence).
HealthyIsWarranted ==
  Reported = "Healthy" =>
    \E e \in Current(OperKey) :
      /\ e.payload.value = "Up"
      /\ \A f \in Current(OperKey) :
           Authority[f.source] >= Authority[e.source] =>
             f.payload.value \in {"Up", "Unknown"}

\* A link is not called healthy while all a key's current leading readings are
\* adverse: disabled, a saturated utilization, or flaps at the threshold.
Adverse(k, e) ==
  \/ k.family = "AdminState" /\ e.payload.value = "Disabled"
  \/ k.family = "OperState" /\ e.payload.value \in {"Down", "Degraded"}
  \/ k.family = "UtilReported" /\ e.payload.value >= SaturationPpb
  \/ k.family = "FlapReport" /\ e.payload.value >= FlapThreshold
NothingAdverseHidden ==
  Reported = "Healthy" =>
    \A k \in Keys : Leading(k) # {} => \E e \in Leading(k) : ~Adverse(k, e)

\* Two current readings of the leading authority that contradict each other
\* make the link conflicting, whatever else is known of it.
DisagreementReported ==
  (\E k \in StateKeys : \E e, f \in Leading(k) :
     {e.payload.value, f.payload.value} \in {{"Up", "Down"}, {"Enabled", "Disabled"}})
  => Reported = "Conflicting"

\* High confidence in a link means that on every decisive key with a current
\* reading a primary source leads and no revision was lost within the window.
ConfidenceIsEarned ==
  LinkConfidence(Reports(View)) = 3 =>
    \A k \in Keys : Decisive(k) /\ Current(k) # {} =>
      /\ \A e \in Leading(k) : Authority[e.source] = 4
      /\ ~(gap[k].open /\ now - gap[k].at <= DerivationWindow)

\* Without any current reading the only verdicts left are the ones that admit
\* it, and flapping, which is about the past.
OldEvidenceClaimsNothing ==
  (\A k \in Keys : Current(k) = {}) => Reported \in {"Unknown", "Stale", "Flapping"}

\* What is read from the bounded log is true of the whole past: the flaps of
\* the window are the state changes of the window, but for those the log had to
\* drop and says it dropped (TransitionLog::record and the queries of classify).
FlapsAccounted ==
  LET recent == Cardinality({i \in DOMAIN past : /\ past[i].kind \in StateKinds
                                                 /\ past[i].at >= now - FlapWindow})
  IN  FlapEvents(log) <= recent /\ recent <= FlapEvents(log) + dropped

\* The last known state of a report is the verdict the runtime remembers, as
\* long as the log still holds one.
LastKnownAgrees ==
  IF HasLastKnown THEN LastKnown = observed.state
  ELSE observed # NoVerdict => dropped > 0

\* The log tells the recent past: both of the above.
LogIsFaithful == FlapsAccounted /\ LastKnownAgrees

\* A rate is derived from the very reading that won: the last counter sample
\* of the winner's source is the winning evidence.
WinnerIsSampled ==
  LET r == Reports(View) IN
  \A k \in Keys : k.family \in CounterFamilies /\ r[k].has_value =>
    LET e == r[k].winner
        sample == Last(samples[k][e.source])
    IN  /\ sample.raw = e.payload.raw /\ sample.observed_at = e.observed_at
        /\ sample.scope = e.scope /\ sample.generation = e.generation

\* Two readings of one source, of the scope and generation in force, a counter
\* may be measured between.
Measures(k, e, f) ==
  /\ {e, f} \subseteq Range(history[k]) /\ e.accepted < f.accepted
  /\ e.source = f.source /\ InForce(View, e) /\ InForce(View, f)
  /\ f.observed_at - e.observed_at \in 1..DerivationWindow
Counted(e, f) == (f.payload.raw - e.payload.raw) % 2^f.payload.width

\* A link is called erroring only on errors and octets that were both measured,
\* over windows of one length, in the ratio of the threshold.
ErroringIsMeasured ==
  Reported = "Erroring" =>
    \E k \in Keys : k.family = "Errors" /\
      \E e, f \in Range(history[k]), o, p \in Range(history[OctetsKey]) :
        /\ Measures(k, e, f) /\ Measures(OctetsKey, o, p)
        /\ f.observed_at - e.observed_at = p.observed_at - o.observed_at
        /\ Counted(e, f) * FullScale >= ErrorRatioPpb * Counted(o, p)

\* As time passes evidence only ages: no reading, not even one dated ahead of
\* the clock, ever becomes fresher.
AgeingNeverRefreshes ==
  [][now' > now => \A k \in Keys : \A e \in Range(history[k]) :
       Strength[Freshness(View, e, k.family)'] <= Strength[Freshness(View, e, k.family)]]_vars

-----------------------------------------------------------------------------
(***************************************************************************)
(* Statements the documentation makes that the code does not keep.         *)
(***************************************************************************)
\* "Counter families are compared on their derived utilization": two leading
\* sources whose utilizations over one window disagree make the link conflicting.
RateDisagreementReported ==
  (\E k \in Keys : k.family \in CounterFamilies /\
     \E e, f \in Leading(k) :
       LET d == DeriveFor(View, k, e.source)
           c == DeriveFor(View, k, f.source)
       IN  RatesDisagree(d, c) /\ d.window = c.window)
  => Reported = "Conflicting"

\* "A quality indicator is at or below the threshold" degrades the link: it is
\* not healthy while all leading readings of one quality key are that low.
LowQualityReported ==
  (\E k \in Keys : /\ k.family = "SignalQuality" /\ Leading(k) # {}
                   /\ \A e \in Leading(k) : e.payload.value <= DegradedQualityPpb)
  => Reported # "Healthy"
=============================================================================
