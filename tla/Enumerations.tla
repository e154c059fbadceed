---------------------------- MODULE Enumerations ----------------------------
(***************************************************************************)
(* The enumerations a record line or a snapshot carries                    *)
(* (src/domain/enums.cpp, src/domain/metric.cpp): a value is its ordinal.  *)
(* to_string and parse_ are two tables of the code, kept as two here: the  *)
(* first is indexed by the ordinal, the second maps a spelling to one.     *)
(***************************************************************************)
EXTENDS Integers, Sequences, TLC

Spelled(table, value) == table[value + 1]

MetricFamilyText ==
  <<"admin-state", "oper-state", "octets", "errors", "discards", "util-reported",
    "signal-quality", "flap-report">>
DirectionText == <<"unknown", "in", "out", "both">>
ErrorClassText ==
  <<"none", "total", "crc", "symbol", "framing", "encoding", "congestion", "other">>
CounterWidthText == <<"bits32", "bits64">>
AdminStateText == <<"unknown", "enabled", "disabled">>
OperStateText == <<"unknown", "up", "down", "degraded">>
SourceAuthorityText == <<"unknown", "synthetic", "derived", "secondary", "primary">>
ProvenanceClassText == <<"unknown", "real", "synthetic", "replayed">>
LinkKindText == <<"unknown", "physical", "logical", "aggregate">>

ParseMetricFamily ==
  ("admin-state" :> 0) @@ ("oper-state" :> 1) @@ ("octets" :> 2) @@ ("errors" :> 3) @@
  ("discards" :> 4) @@ ("util-reported" :> 5) @@ ("signal-quality" :> 6) @@ ("flap-report" :> 7)
ParseDirection == ("unknown" :> 0) @@ ("in" :> 1) @@ ("out" :> 2) @@ ("both" :> 3)
ParseErrorClass ==
  ("none" :> 0) @@ ("total" :> 1) @@ ("crc" :> 2) @@ ("symbol" :> 3) @@
  ("framing" :> 4) @@ ("encoding" :> 5) @@ ("congestion" :> 6) @@ ("other" :> 7)
ParseCounterWidth == ("bits32" :> 0) @@ ("bits64" :> 1)
\* Two states have a second spelling, that of the operational state.
ParseAdminState ==
  ("unknown" :> 0) @@ ("enabled" :> 1) @@ ("up" :> 1) @@ ("disabled" :> 2) @@ ("down" :> 2)
ParseOperState == ("unknown" :> 0) @@ ("up" :> 1) @@ ("down" :> 2) @@ ("degraded" :> 3)
ParseSourceAuthority ==
  ("unknown" :> 0) @@ ("synthetic" :> 1) @@ ("derived" :> 2) @@ ("secondary" :> 3) @@
  ("primary" :> 4)
ParseProvenanceClass ==
  ("unknown" :> 0) @@ ("real" :> 1) @@ ("synthetic" :> 2) @@ ("replayed" :> 3)
ParseLinkKind ==
  ("unknown" :> 0) @@ ("physical" :> 1) @@ ("logical" :> 2) @@ ("aggregate" :> 3)

AdminState == 0
OperState == 1
Octets == 2
Errors == 3
Discards == 4
UtilReported == 5
SignalQuality == 6
FlapReport == 7

IsCounterFamily(family) == family \in {Octets, Errors, Discards}
IsDirectionalFamily(family) == IsCounterFamily(family) \/ family \in {UtilReported, SignalQuality}

UnknownDirection == 0
Both == 3
NoErrorClass == 0
Total == 1
Congestion == 6
Other == 7
Bits32 == 0
=============================================================================
