--------------------------- MODULE RecordGrammar ----------------------------
(***************************************************************************)
(* The record grammar (src/ingest/record.cpp, src/ingest/codec.cpp,        *)
(* src/domain/metric.cpp): what a line says, and what is written for a     *)
(* record.                                                                 *)
(*                                                                         *)
(* A line is a sequence of fields "name=value".  A value is the sequence   *)
(* of its parts between slashes: a token or a numeral is one part, a       *)
(* metric key up to three.  NonTokens stands for the values the token rule *)
(* refuses (empty, too long, or with other characters).                    *)
(***************************************************************************)
EXTENDS Enumerations, FiniteSets

CONSTANTS
  MaxFields,           \* kMaxFields (24 in the code)
  MaxRecords,          \* policy.limits.max_records_per_batch
  Max32,               \* the largest 32-bit counter; 64-bit values reach (Max32+1)^2 - 1
  FullScale,           \* kPpbFullScale; readings are accepted up to twice that
  MaxHistoryWindow     \* policy.thresholds.max_history_window

Max64 == (Max32 + 1) * (Max32 + 1) - 1
MaxSigned == Max64 \div 2
PpbAcceptedMax == 2 * FullScale

NonTokens == {"", "*"}
IsToken(value) == Len(value) = 1 /\ value[1] \notin NonTokens

Field(name, value) == [name |-> name, value |-> value]
Text(text) == <<text>>
ToDec(number) == <<ToString(number)>>
Unsigned == 0 .. Max64
Signed == -MaxSigned - 1 .. MaxSigned
Numeral(value, numbers) == \E n \in numbers : value = ToDec(n)
Number(value, numbers) == CHOOSE n \in numbers : value = ToDec(n)

-----------------------------------------------------------------------------
(***************************************************************************)
(* parse_fields: a map of the fields of a line.  FieldReader: typed access *)
(* to it.  A record is refused as soon as one read fails.                  *)
(***************************************************************************)
FieldNames(line) == {line[i].name : i \in DOMAIN line}

FieldsParse(line) ==
  /\ Cardinality(FieldNames(line)) <= MaxFields
  /\ "" \notin FieldNames(line)
  /\ \A i, j \in DOMAIN line : line[i].name = line[j].name => i = j

FieldMap(line) ==
  [name \in FieldNames(line) |->
     line[CHOOSE i \in DOMAIN line :
            line[i].name = name /\ \A j \in DOMAIN line : line[j].name = name => i <= j].value]

Has(fields, name) == name \in DOMAIN fields
RequiredToken(fields, name) == Has(fields, name) /\ IsToken(fields[name])
RequiredU64(fields, name) == Has(fields, name) /\ Numeral(fields[name], Unsigned)
RequiredI64(fields, name) == Has(fields, name) /\ Numeral(fields[name], Signed)
OptionalU64(fields, name) == Has(fields, name) => RequiredU64(fields, name)
OptionalBool(fields, name) == Has(fields, name) => fields[name] \in {<<"true">>, <<"false">>}
\* An optional name is read with the same rule as a required one.
OptionalToken(fields, name) == Has(fields, name) => RequiredToken(fields, name)
Spells(fields, name, table) == RequiredToken(fields, name) /\ fields[name][1] \in DOMAIN table

U64(fields, name) == IF Has(fields, name) THEN Number(fields[name], Unsigned) ELSE 0
I64(fields, name) == Number(fields[name], Signed)
Flag(fields, name) == Has(fields, name) /\ fields[name] = <<"true">>
Token(fields, name) == IF Has(fields, name) THEN fields[name][1] ELSE ""
Value(fields, name, table) == table[fields[name][1]]
\* Mutant: an unknown field is ignored.
EnsureAllUsed_Never(fields, used) == TRUE

EnsureAllUsed(fields, used) == DOMAIN fields \subseteq used

Header == {"v", "kind"}

-----------------------------------------------------------------------------
(***************************************************************************)
(* MetricKey and its readings.                                             *)
(***************************************************************************)
\* MetricKey::parse: family, direction and error class, in that order.
MetricKeyParses(value) ==
  /\ Len(value) \in 1 .. 3
  /\ value[1] \in DOMAIN ParseMetricFamily
  /\ Len(value) > 1 => value[2] \in DOMAIN ParseDirection
  /\ Len(value) > 2 => value[3] \in DOMAIN ParseErrorClass

MetricKey(value) ==
  [family |-> ParseMetricFamily[value[1]],
   direction |-> IF Len(value) > 1 THEN ParseDirection[value[2]] ELSE UnknownDirection,
   error_class |-> IF Len(value) > 2 THEN ParseErrorClass[value[3]] ELSE NoErrorClass]

\* MetricKey::to_string.
MetricKeyText(key) ==
  <<Spelled(MetricFamilyText, key.family)>>
  \o (IF IsDirectionalFamily(key.family) /\ key.direction # UnknownDirection
      THEN <<Spelled(DirectionText, key.direction)>> ELSE <<>>)
  \o (IF key.family \in {Errors, Discards} /\ key.error_class # NoErrorClass
      THEN <<Spelled(ErrorClassText, key.error_class)>> ELSE <<>>)

ErrorClassAllowed(family, class) ==
  \/ family = Errors
  \/ family = Discards /\ class \in {NoErrorClass, Total, Congestion, Other}
  \/ class = NoErrorClass

\* The alternatives of MetricPayload, numbered as the variant numbers them.
Alternative(family) ==
  CASE family = AdminState -> 0
    [] family = OperState -> 1
    [] IsCounterFamily(family) -> 2
    [] family = UtilReported -> 3
    [] family = SignalQuality -> 4
    [] family = FlapReport -> 5

\* validate_reading, for the alternative of the key's family.
ValidateReading(key, payload) ==
  /\ payload.index = Alternative(key.family)
  /\ ErrorClassAllowed(key.family, key.error_class)
  /\ key.direction # UnknownDirection => IsDirectionalFamily(key.family)
  /\ payload.index = 2 /\ payload.width = Bits32 => payload.raw <= Max32
  /\ payload.index = 3 => payload.ppb <= PpbAcceptedMax
  /\ payload.index = 4 => payload.value_ppb <= FullScale /\ key.direction # Both
  /\ payload.index = 5 => payload.window > 0 /\ payload.window <= MaxHistoryWindow

\* The fields each alternative is read from.
PayloadFields(family) ==
  <<{"value"}, {"value"}, {"counter", "width", "reset"}, {"ppb"}, {"ppb", "degraded"},
    {"events", "window-ns"}>>[Alternative(family) + 1]

PayloadParses(fields, family) ==
  CASE family = AdminState -> Spells(fields, "value", ParseAdminState)
    [] family = OperState -> Spells(fields, "value", ParseOperState)
    [] IsCounterFamily(family) -> /\ RequiredU64(fields, "counter")
                                  /\ Spells(fields, "width", ParseCounterWidth)
                                  /\ OptionalBool(fields, "reset")
    [] family = UtilReported -> RequiredU64(fields, "ppb")
    [] family = SignalQuality -> RequiredU64(fields, "ppb") /\ OptionalBool(fields, "degraded")
    [] family = FlapReport -> RequiredU64(fields, "events") /\ RequiredI64(fields, "window-ns")

Payload(fields, family) ==
  CASE family = AdminState -> [index |-> 0, value |-> Value(fields, "value", ParseAdminState)]
    [] family = OperState -> [index |-> 1, value |-> Value(fields, "value", ParseOperState)]
    [] IsCounterFamily(family) ->
         [index |-> 2, raw |-> U64(fields, "counter"),
          width |-> Value(fields, "width", ParseCounterWidth), reset_declared |-> Flag(fields, "reset")]
    [] family = UtilReported -> [index |-> 3, ppb |-> U64(fields, "ppb")]
    [] family = SignalQuality ->
         [index |-> 4, value_ppb |-> U64(fields, "ppb"), degraded_declared |-> Flag(fields, "degraded")]
    [] family = FlapReport ->
         [index |-> 5, events |-> U64(fields, "events"), window |-> I64(fields, "window-ns")]

-----------------------------------------------------------------------------
(***************************************************************************)
(* parse_record.                                                           *)
(***************************************************************************)
SourceFields == {"name", "authority", "provenance", "retired"}

SourceParses(fields) ==
  /\ RequiredToken(fields, "name")
  /\ Spells(fields, "authority", ParseSourceAuthority)
  /\ Spells(fields, "provenance", ParseProvenanceClass)
  /\ fields["provenance"] # <<"unknown">>
  /\ OptionalBool(fields, "retired")
  /\ EnsureAllUsed(fields, Header \cup SourceFields)

SourceDecl(fields) ==
  [kind |-> "source", name |-> Token(fields, "name"),
   authority |-> Value(fields, "authority", ParseSourceAuthority),
   provenance |-> Value(fields, "provenance", ParseProvenanceClass),
   retired |-> Flag(fields, "retired")]

EndFields == {"local-endpoint", "remote-endpoint", "local-port", "remote-port"}
LinkFields ==
  {"name", "link-kind", "linkgen", "provenance", "capacity-in-bps", "capacity-out-bps"} \cup EndFields

LinkParses(fields) ==
  /\ RequiredToken(fields, "name")
  /\ Spells(fields, "link-kind", ParseLinkKind)
  /\ RequiredToken(fields, "linkgen")
  /\ Spells(fields, "provenance", ParseProvenanceClass)
  /\ OptionalU64(fields, "capacity-in-bps") /\ OptionalU64(fields, "capacity-out-bps")
  /\ \A name \in EndFields : OptionalToken(fields, name)
  /\ EnsureAllUsed(fields, Header \cup LinkFields)

LinkDecl(fields) ==
  LET in == U64(fields, "capacity-in-bps")
      out == U64(fields, "capacity-out-bps")
  IN [kind |-> "link", name |-> Token(fields, "name"),
      link_kind |-> Value(fields, "link-kind", ParseLinkKind),
      generation |-> Token(fields, "linkgen"),
      provenance |-> Value(fields, "provenance", ParseProvenanceClass),
      capacity_known |-> in > 0 \/ out > 0, capacity_in_bps |-> in, capacity_out_bps |-> out,
      ends |-> [name \in EndFields |-> Token(fields, name)]]

ObservationNames == {"link", "source", "incarnation", "epoch", "generation"}
ObservationFields == ObservationNames \cup {"revision", "observed-at", "received-at", "metric"}

ObservationParses(fields) ==
  /\ \A name \in ObservationNames : RequiredToken(fields, name)
  /\ RequiredU64(fields, "revision")
  /\ RequiredI64(fields, "observed-at") /\ RequiredI64(fields, "received-at")
  /\ Has(fields, "metric") /\ MetricKeyParses(fields["metric"])
  /\ LET key == MetricKey(fields["metric"]) IN
     /\ PayloadParses(fields, key.family)
     /\ ValidateReading(key, Payload(fields, key.family))
     /\ EnsureAllUsed(fields, Header \cup ObservationFields \cup PayloadFields(key.family))

ObservationDecl(fields) ==
  LET key == MetricKey(fields["metric"]) IN
  [kind |-> "observation", names |-> [name \in ObservationNames |-> Token(fields, name)],
   revision |-> U64(fields, "revision"),
   observed_at |-> I64(fields, "observed-at"), received_at |-> I64(fields, "received-at"),
   key |-> key, payload |-> Payload(fields, key.family)]

Refused == [ok |-> FALSE]
Accepted(record) == [ok |-> TRUE, record |-> record]

\* A line over the byte bound is refused too; here MaxFields bounds a line.
ParseRecord(line) ==
  LET fields == FieldMap(line)
      is(kind) == fields["kind"] = <<kind>>
  IN IF ~FieldsParse(line) \/ ~RequiredU64(fields, "v") \/ ~RequiredToken(fields, "kind")
       THEN Refused
     ELSE IF U64(fields, "v") # 1 THEN Refused
     ELSE IF is("source") /\ SourceParses(fields) THEN Accepted(SourceDecl(fields))
     ELSE IF is("link") /\ LinkParses(fields) THEN Accepted(LinkDecl(fields))
     ELSE IF is("observation") /\ ObservationParses(fields) THEN Accepted(ObservationDecl(fields))
     ELSE Refused

-----------------------------------------------------------------------------
(***************************************************************************)
(* format_record: a field at its default is left out.                      *)
(***************************************************************************)
When(condition, field) == IF condition THEN <<field>> ELSE <<>>

FormatSource(r) ==
  <<Field("v", ToDec(1)), Field("kind", Text("source")), Field("name", Text(r.name)),
    Field("authority", Text(Spelled(SourceAuthorityText, r.authority))),
    Field("provenance", Text(Spelled(ProvenanceClassText, r.provenance)))>>
  \o When(r.retired, Field("retired", Text("true")))

FormatEnd(r, name) == When(r.ends[name] # "", Field(name, Text(r.ends[name])))

FormatLink(r) ==
  <<Field("v", ToDec(1)), Field("kind", Text("link")), Field("name", Text(r.name)),
    Field("link-kind", Text(Spelled(LinkKindText, r.link_kind))),
    Field("linkgen", Text(r.generation)),
    Field("provenance", Text(Spelled(ProvenanceClassText, r.provenance)))>>
  \o When(r.capacity_in_bps > 0, Field("capacity-in-bps", ToDec(r.capacity_in_bps)))
  \o When(r.capacity_out_bps > 0, Field("capacity-out-bps", ToDec(r.capacity_out_bps)))
  \o FormatEnd(r, "local-endpoint") \o FormatEnd(r, "remote-endpoint")
  \o FormatEnd(r, "local-port") \o FormatEnd(r, "remote-port")

FormatPayload(p) ==
  CASE p.index = 0 -> <<Field("value", Text(Spelled(AdminStateText, p.value)))>>
    [] p.index = 1 -> <<Field("value", Text(Spelled(OperStateText, p.value)))>>
    [] p.index = 2 -> <<Field("counter", ToDec(p.raw)),
                        Field("width", Text(Spelled(CounterWidthText, p.width)))>>
                      \o When(p.reset_declared, Field("reset", Text("true")))
    [] p.index = 3 -> <<Field("ppb", ToDec(p.ppb))>>
    [] p.index = 4 -> <<Field("ppb", ToDec(p.value_ppb))>>
                      \o When(p.degraded_declared, Field("degraded", Text("true")))
    [] p.index = 5 -> <<Field("events", ToDec(p.events)), Field("window-ns", ToDec(p.window))>>

FormatObservation(r) ==
  LET name(n) == Field(n, Text(r.names[n])) IN
  <<Field("v", ToDec(1)), Field("kind", Text("observation")),
    name("link"), name("source"), name("incarnation"), name("epoch"), name("generation"),
    Field("revision", ToDec(r.revision)), Field("observed-at", ToDec(r.observed_at)),
    Field("received-at", ToDec(r.received_at)), Field("metric", MetricKeyText(r.key))>>
  \o FormatPayload(r.payload)

FormatRecord(r) ==
  CASE r.kind = "source" -> FormatSource(r)
    [] r.kind = "link" -> FormatLink(r)
    [] r.kind = "observation" -> FormatObservation(r)

-----------------------------------------------------------------------------
(***************************************************************************)
(* parse_batch: the lines of a text in order.  A blank line or a comment   *)
(* has no fields.                                                          *)
(***************************************************************************)
Ignored(line) == line = <<>>

CountRecordLines(text) == Cardinality({i \in DOMAIN text : ~Ignored(text[i])})

EmptyOutcome == [ok |-> TRUE, records |-> <<>>, scanned |-> 0, rejected |-> 0, ignored |-> 0]

\* Mutant: a record goes before the ones of earlier lines.
ParseLine_Newest(outcome, line) ==
  IF ~outcome.ok THEN outcome
  ELSE IF Ignored(line) THEN [outcome EXCEPT !.ignored = @ + 1]
  ELSE IF Len(outcome.records) >= MaxRecords THEN [outcome EXCEPT !.ok = FALSE]
  ELSE LET parsed == ParseRecord(line) IN
       IF parsed.ok
       THEN [outcome EXCEPT !.scanned = @ + 1, !.records = <<parsed.record>> \o @]
       ELSE [outcome EXCEPT !.scanned = @ + 1, !.rejected = @ + 1]

ParseLine(outcome, line) ==
  IF ~outcome.ok THEN outcome
  ELSE IF Ignored(line) THEN [outcome EXCEPT !.ignored = @ + 1]
  ELSE IF Len(outcome.records) >= MaxRecords THEN [outcome EXCEPT !.ok = FALSE]
  ELSE LET parsed == ParseRecord(line) IN
       IF parsed.ok
       THEN [outcome EXCEPT !.scanned = @ + 1, !.records = Append(@, parsed.record)]
       ELSE [outcome EXCEPT !.scanned = @ + 1, !.rejected = @ + 1]
=============================================================================
