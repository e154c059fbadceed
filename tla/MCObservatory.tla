--------------------------- MODULE MCObservatory ---------------------------
(* Small instances of Observatory: the values a .cfg cannot write down. *)
EXTENDS Observatory

Key(family, direction) == [family |-> family, direction |-> direction, class |-> "None"]
ErrorsIn == [family |-> "Errors", direction |-> "In", class |-> "Total"]
UtilIn == Key("UtilReported", "In")
QualityIn == Key("SignalQuality", "In")
QualityOut == Key("SignalQuality", "Out")
FlapKey == Key("FlapReport", "Unknown")

StateKeyOrder == <<AdminKey, OperKey, OctetsKey>>
MetricKeyOrder == <<AdminKey, OperKey, OctetsKey, ErrorsIn, UtilIn, QualityIn, FlapKey>>
QualityKeyOrder == <<AdminKey, OperKey, OctetsKey, QualityIn, QualityOut>>

\* Two primary sources and a secondary one.
TwoPrimary == (1 :> 4) @@ (2 :> 4) @@ (3 :> 3)
AllPrimary == [s \in Sources |-> 4]

InboundOnly == [In |-> 8, Out |-> 0]
ShortFresh == [f \in Families |-> 1]
LongUsable == [f \in Families |-> 3]

Says(values) == {[value |-> v] : v \in values}
Counts(raws) == {[raw |-> r, width |-> 4, reset |-> FALSE] : r \in raws}
Restarted == [raw |-> 0, width |-> 4, reset |-> TRUE]

\* What sources say of the states of the link and of its traffic.
TrustPayloads ==
  [k \in Keys |-> CASE k = OperKey   -> Says({"Up", "Down"})
                    [] k = AdminKey  -> Says({"Disabled"})
                    [] k = OctetsKey -> Counts({2}) \cup {Restarted}
                    [] OTHER         -> {}]

\* One source that reports everything.
RatePayloads ==
  [k \in Keys |-> CASE k = OperKey   -> Says({"Up", "Down"})
                    [] k = AdminKey  -> {}
                    [] k.family \in CounterFamilies -> Counts({0, 1})
                    [] k.family = "UtilReported" -> Says({9})
                    [] k.family = "SignalQuality" -> {[value |-> 5, declared |-> TRUE]}
                    [] k.family = "FlapReport" -> Says({2})]

EitherPayloads == [k \in Keys |-> TrustPayloads[k] \cup RatePayloads[k]]

\* A link that is up, with traffic or with the quality of its two directions.
TrafficPayloads ==
  [k \in Keys |-> IF k = OperKey THEN Says({"Up"})
                  ELSE IF k = OctetsKey THEN Counts({0, 1})
                  ELSE IF k.family = "SignalQuality"
                  THEN {[value |-> q, declared |-> FALSE] : q \in {0, 9}} ELSE {}]

\* Prompt, and dated ahead of the clock.
Prompt == [observed |-> 0, received |-> 0]
PromptOnly == {Prompt}
MixedLags == {Prompt, [observed |-> -2, received |-> 0]}
DelayedLags == {Prompt, [observed |-> 1, received |-> 0]}

-----------------------------------------------------------------------------
(***************************************************************************)
(* Two bounds under one next-state relation: few observations by sources   *)
(* that differ, lose revisions and move through scopes and topologies, or  *)
(* more of them, of every metric, by one source that loses nothing.        *)
(***************************************************************************)
Among(payloads) ==
  \A k \in Keys : \A e \in Range(history[k]) :
    e.payload \in payloads[k]

ManySources ==
  /\ accepted < 2 /\ Among(TrustPayloads)
  /\ \E s \in Sources, k \in Keys :
       \E payload \in TrustPayloads[k], lag \in Lags,
          sc \in {scope[s], scope[s] + 1} \cap 1..MaxScope,
          g \in {generation, generation + 1} \cap 0..MaxGeneration,
          step \in 1..(IF revision[s] = 0 THEN 1 ELSE 2) :
         Observe(s, k, payload, lag, sc, g, step)

ManyMetrics ==
  /\ generation = 0 /\ scope[1] <= 1 /\ revision[1] = accepted /\ Among(RatePayloads)
  /\ \A k \in Keys : \A e \in Range(history[k]) : e.observed_at = e.received_at
  /\ \E k \in Keys : \E payload \in RatePayloads[k] :
       /\ accepted < 3 \/ k.family \in CounterFamilies
       /\ Observe(1, k, payload, Prompt, 1, 0, 1)

MCSpec == Init /\ [][Tick \/ ManySources \/ ManyMetrics]_vars
=============================================================================
