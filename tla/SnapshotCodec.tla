--------------------------- MODULE SnapshotCodec ----------------------------
(***************************************************************************)
(* The payload of a snapshot: encode and decode (src/persist/codec.cpp),   *)
(* and the order in which write_snapshot and load_once                     *)
(* (src/persist/snapshot.cpp) use them.                                    *)
(*                                                                         *)
(* A layout says what a function writes or reads and in which order.  The  *)
(* writing and the reading functions of the code are independent, and so   *)
(* are the layouts transcribed from them: Writes... and Reads....          *)
(*                                                                         *)
(* A payload is a sequence of words below Words.  Every fixed-size integer *)
(* is one word, whatever its width, so that a reader out of step with the  *)
(* payload reads on, as it does in the code.                               *)
(***************************************************************************)
EXTENDS Integers, Sequences, SequencesExt, TLC

CONSTANTS
  Words,              \* the words of a payload are 0 .. Words - 1
  FormatVersion,      \* kSnapshotFormatVersion
  MaxText,            \* kMaxStringField (256 in the code)
  DecodedRetired,     \* kMaxRetiredScopesBound (64 in the code)
  DecodedEvidence,    \* kMaxEvidencePerSlotBound (1024 in the code)
  DecodedSources,     \* kMaxSourcesBound (4096 in the code)
  MaxLinks, MaxSources, MaxSlots, MaxTransitions   \* policy.limits

-----------------------------------------------------------------------------
(***************************************************************************)
(* Layouts.  A layout of kind "choice" is a variant behind its index.      *)
(***************************************************************************)
Word == [kind |-> "word"]
SignedWord == [kind |-> "signed"]
Bool == [kind |-> "bool"]
Upto(max) == [kind |-> "upto", max |-> max]
Exactly(word) == [kind |-> "exactly", word |-> word]
TextUpto(max) == [kind |-> "text", max |-> max]
Struct(fields) == [kind |-> "struct", fields |-> fields]
List(bound, item) == [kind |-> "list", bound |-> bound, item |-> item]
Choice(alternatives) == [kind |-> "choice", alternatives |-> alternatives]
F(name, layout) == [name |-> name, layout |-> layout]

\* A two's complement word.
SignedValue(word) == IF word < Words \div 2 THEN word ELSE word - Words

RECURSIVE Encode(_, _)
Encode(layout, value) ==
  CASE layout.kind \in {"word", "upto"} -> <<value>>
    [] layout.kind = "exactly" -> <<layout.word>>
    [] layout.kind = "signed" -> <<value % Words>>
    [] layout.kind = "bool" -> <<IF value THEN 1 ELSE 0>>
    [] layout.kind = "text" -> <<Len(value)>> \o value
    [] layout.kind = "list" ->
         <<Len(value)>> \o FlattenSeq([i \in DOMAIN value |-> Encode(layout.item, value[i])])
    [] layout.kind = "struct" ->
         FlattenSeq([i \in DOMAIN layout.fields |->
           Encode(layout.fields[i].layout, value[layout.fields[i].name])])
    [] layout.kind = "choice" ->
         <<value.index>> \o Encode(layout.alternatives[value.index + 1], value)

\* The reader: what is left of the payload, and the value read so far.
Failed == [ok |-> FALSE]
Got(value, rest) == [ok |-> TRUE, value |-> value, rest |-> rest]
\* Mutant: any word but zero reads as true.
ReadBool_Nonzero(word, rest) == Got(word # 0, rest)

ReadBool(word, rest) == IF word > 1 THEN Failed ELSE Got(word = 1, rest)

ReadWord(layout, word, rest) ==
  CASE layout.kind = "word" -> Got(word, rest)
    [] layout.kind = "signed" -> Got(SignedValue(word), rest)
    [] layout.kind = "bool" -> ReadBool(word, rest)
    [] layout.kind = "upto" -> IF word > layout.max THEN Failed ELSE Got(word, rest)
    [] layout.kind = "exactly" -> IF word # layout.word THEN Failed ELSE Got(word, rest)
    [] layout.kind = "text" ->
         IF word > layout.max \/ word > Len(rest) THEN Failed
         ELSE Got(SubSeq(rest, 1, word), SubSeq(rest, word + 1, Len(rest)))

RECURSIVE Decode(_, _)
Decode(layout, words) ==
  LET item(soFar, index) ==
        IF ~soFar.ok THEN Failed
        ELSE LET got == Decode(layout.item, soFar.rest) IN
             IF got.ok THEN Got(Append(soFar.value, got.value), got.rest) ELSE Failed
      field(soFar, f) ==
        IF ~soFar.ok THEN Failed
        ELSE LET got == Decode(f.layout, soFar.rest) IN
             IF got.ok THEN Got((f.name :> got.value) @@ soFar.value, got.rest) ELSE Failed
  IN IF layout.kind = "struct" THEN FoldLeft(field, Got(<<>>, words), layout.fields)
     ELSE IF words = <<>> THEN Failed
     ELSE LET word == Head(words)
              rest == Tail(words)
          IN CASE layout.kind = "list" ->
                    IF word > layout.bound THEN Failed
                    ELSE FoldLeft(item, Got(<<>>, rest), [i \in 1 .. word |-> i])
               [] layout.kind = "choice" ->
                    IF word >= Len(layout.alternatives) THEN Failed
                    ELSE LET got == Decode(layout.alternatives[word + 1], rest) IN
                         IF got.ok THEN Got(("index" :> word) @@ got.value, got.rest) ELSE Failed
               [] OTHER -> ReadWord(layout, word, rest)

-----------------------------------------------------------------------------
(***************************************************************************)
(* The encode functions.                                                   *)
(***************************************************************************)
Enum == Word         \* static_cast<std::uint8_t>

WritesHash128 == Struct(<<F("hi", Word), F("lo", Word)>>)
WritesSequence == Word
WritesTimePoint == SignedWord
WritesDuration == SignedWord
WritesScope ==
  Struct(<<F("source", WritesHash128), F("incarnation", WritesHash128), F("epoch", WritesHash128)>>)
WritesMetricKey == Struct(<<F("family", Enum), F("direction", Enum), F("error_class", Enum)>>)
WritesCounterReading ==
  Struct(<<F("raw", Word), F("width", Enum), F("reset_declared", Bool)>>)
WritesPayload ==
  Choice(<<Struct(<<F("value", Enum)>>), Struct(<<F("value", Enum)>>),
           Struct(<<F("raw", Word), F("width", Enum), F("reset_declared", Bool)>>),
           Struct(<<F("ppb", Word)>>),
           Struct(<<F("value_ppb", Word), F("degraded_declared", Bool)>>),
           Struct(<<F("events", Word), F("window", WritesDuration)>>)>>)
WritesProvenance ==
  Struct(<<F("source", WritesHash128), F("incarnation", WritesHash128), F("epoch", WritesHash128),
           F("generation", WritesHash128), F("sequence", WritesSequence)>>)
WritesObservation ==
  Struct(<<F("id", WritesHash128), F("provenance", WritesProvenance), F("link", WritesHash128),
           F("key", WritesMetricKey), F("payload", WritesPayload),
           F("observed_at", WritesTimePoint), F("received_at", WritesTimePoint)>>)
WritesEvidence ==
  Struct(<<F("observation", WritesObservation), F("accepted_at", WritesTimePoint),
           F("authority", Enum), F("provenance", Enum)>>)
WritesCounterSample ==
  Struct(<<F("reading", WritesCounterReading), F("observed_at", WritesTimePoint),
           F("received_at", WritesTimePoint), F("sequence", WritesSequence),
           F("scope", WritesScope), F("generation", WritesHash128), F("gap_epoch", Word)>>)
WritesContinuity ==
  Struct(<<F("latest", WritesCounterSample), F("previous", WritesCounterSample),
           F("has_latest", Bool), F("has_previous", Bool), F("last_discontinuity", Enum),
           F("reset_count", Word), F("wrap_count", Word), F("gap_count", Word)>>)
WritesStream ==
  Struct(<<F("has_scope", Bool), F("scope", WritesScope), F("has_sequence", Bool),
           F("last_sequence", WritesSequence), F("last_observation", WritesHash128),
           F("gap_open", Bool), F("retired_scopes", List(Words, WritesScope)),
           F("accepted", Word), F("fenced", Word), F("gap_count", Word),
           F("scope_changes", Word)>>)
WritesSlotKey == Struct(<<F("link", WritesHash128), F("key", WritesMetricKey)>>)
WritesSlot ==
  Struct(<<F("slot", WritesSlotKey), F("history", List(Words, WritesEvidence)),
           F("continuity", List(Words, Struct(<<F("source", WritesHash128),
                                                F("state", WritesContinuity)>>))),
           F("accepted", Word), F("fenced", Word), F("last_gap_at", WritesTimePoint),
           F("has_gap", Bool), F("reset_count", Word), F("wrap_count", Word)>>)
WritesLinkFacts ==
  Struct(<<F("id", WritesHash128), F("name", TextUpto(Words)),
           F("local_endpoint", WritesHash128), F("remote_endpoint", WritesHash128),
           F("local_port", WritesHash128), F("remote_port", WritesHash128),
           F("kind", Enum), F("generation", WritesHash128), F("capacity_known", Bool),
           F("capacity_in_bps", Word), F("capacity_out_bps", Word), F("provenance", Enum)>>)
WritesSource ==
  Struct(<<F("id", WritesHash128), F("name", TextUpto(Words)), F("authority", Enum),
           F("provenance", Enum), F("registered", Bool), F("retired", Bool)>>)
WritesTransition ==
  Struct(<<F("id", WritesHash128), F("link", WritesHash128), F("kind", Enum),
           F("at", WritesTimePoint), F("generation", WritesHash128), F("source", WritesHash128),
           F("from", TextUpto(Words)), F("to", TextUpto(Words)), F("detail", Word)>>)
WritesLinkEntry ==
  Struct(<<F("facts", WritesLinkFacts), F("registered_at", WritesTimePoint),
           F("last_evidence_at", WritesTimePoint), F("last_accepted_at", WritesTimePoint),
           F("accepted_observations", Word), F("fenced_observations", Word),
           F("retired", Bool), F("has_evidence", Bool)>>)
WritesGenerations ==
  Struct(<<F("current_generation", WritesHash128), F("has_generation", Bool),
           F("retired_generations", List(Words, WritesHash128)), F("generation_changes", Word)>>)
WritesLink ==
  Struct(<<F("facts", WritesLinkFacts), F("entry", WritesLinkEntry),
           F("generations", WritesGenerations)>>)

\* write_snapshot, up to the size of the payload.
WritesContents ==
  Struct(<<F("format_version", Exactly(FormatVersion)), F("runtime", WritesHash128),
           F("incarnation", WritesHash128), F("saved_at", WritesTimePoint),
           F("acceptance_index", Word),
           F("links", List(Words, WritesLink)), F("sources", List(Words, WritesSource)),
           F("slots", List(Words, WritesSlot)),
           F("streams", List(Words, Struct(<<F("source", WritesHash128), F("state", WritesStream)>>))),
           F("transitions", List(Words, WritesTransition)),
           F("total_accepted", Word), F("total_fenced", Word), F("duplicates", Word),
           F("revision_gaps", Word), F("counter_resets", Word),
           F("counter_wraps", Word), F("transitions_dropped", Word)>>)

-----------------------------------------------------------------------------
(***************************************************************************)
(* The decode functions.  An enumeration is checked against its last value *)
(* and a collection against its bound before its items are read.           *)
(***************************************************************************)
ReadsHash128 == Struct(<<F("hi", Word), F("lo", Word)>>)
ReadsSequence == Word
ReadsTimePoint == SignedWord
ReadsDuration == SignedWord
ReadsScope ==
  Struct(<<F("source", ReadsHash128), F("incarnation", ReadsHash128), F("epoch", ReadsHash128)>>)
ReadsMetricKey ==
  Struct(<<F("family", Upto(7)), F("direction", Upto(3)), F("error_class", Upto(7))>>)
ReadsCounterReading ==
  Struct(<<F("raw", Word), F("width", Upto(1)), F("reset_declared", Bool)>>)
ReadsPayload ==
  Choice(<<Struct(<<F("value", Upto(2))>>), Struct(<<F("value", Upto(3))>>),
           Struct(<<F("raw", Word), F("width", Upto(1)), F("reset_declared", Bool)>>),
           Struct(<<F("ppb", Word)>>),
           Struct(<<F("value_ppb", Word), F("degraded_declared", Bool)>>),
           Struct(<<F("events", Word), F("window", ReadsDuration)>>)>>)
ReadsProvenance ==
  Struct(<<F("source", ReadsHash128), F("incarnation", ReadsHash128), F("epoch", ReadsHash128),
           F("generation", ReadsHash128), F("sequence", ReadsSequence)>>)
ReadsObservation ==
  Struct(<<F("id", ReadsHash128), F("provenance", ReadsProvenance), F("link", ReadsHash128),
           F("key", ReadsMetricKey), F("payload", ReadsPayload),
           F("observed_at", ReadsTimePoint), F("received_at", ReadsTimePoint)>>)
ReadsEvidence ==
  Struct(<<F("observation", ReadsObservation), F("accepted_at", ReadsTimePoint),
           F("authority", Upto(4)), F("provenance", Upto(3))>>)
ReadsCounterSample ==
  Struct(<<F("reading", ReadsCounterReading), F("observed_at", ReadsTimePoint),
           F("received_at", ReadsTimePoint), F("sequence", ReadsSequence),
           F("scope", ReadsScope), F("generation", ReadsHash128), F("gap_epoch", Word)>>)
\* Mutant: the two samples are read in the other order.
ReadsContinuity_Swapped ==
  Struct(<<F("previous", ReadsCounterSample), F("latest", ReadsCounterSample),
           F("has_latest", Bool), F("has_previous", Bool), F("last_discontinuity", Upto(2)),
           F("reset_count", Word), F("wrap_count", Word), F("gap_count", Word)>>)

ReadsContinuity ==
  Struct(<<F("latest", ReadsCounterSample), F("previous", ReadsCounterSample),
           F("has_latest", Bool), F("has_previous", Bool), F("last_discontinuity", Upto(2)),
           F("reset_count", Word), F("wrap_count", Word), F("gap_count", Word)>>)
ReadsStream ==
  Struct(<<F("has_scope", Bool), F("scope", ReadsScope), F("has_sequence", Bool),
           F("last_sequence", ReadsSequence), F("last_observation", ReadsHash128),
           F("gap_open", Bool), F("retired_scopes", List(DecodedRetired, ReadsScope)),
           F("accepted", Word), F("fenced", Word), F("gap_count", Word),
           F("scope_changes", Word)>>)
ReadsSlotKey == Struct(<<F("link", ReadsHash128), F("key", ReadsMetricKey)>>)
ReadsSlot ==
  Struct(<<F("slot", ReadsSlotKey), F("history", List(DecodedEvidence, ReadsEvidence)),
           F("continuity", List(DecodedSources, Struct(<<F("source", ReadsHash128),
                                                         F("state", ReadsContinuity)>>))),
           F("accepted", Word), F("fenced", Word), F("last_gap_at", ReadsTimePoint),
           F("has_gap", Bool), F("reset_count", Word), F("wrap_count", Word)>>)
ReadsLinkFacts ==
  Struct(<<F("id", ReadsHash128), F("name", TextUpto(MaxText)),
           F("local_endpoint", ReadsHash128), F("remote_endpoint", ReadsHash128),
           F("local_port", ReadsHash128), F("remote_port", ReadsHash128),
           F("kind", Upto(3)), F("generation", ReadsHash128), F("capacity_known", Bool),
           F("capacity_in_bps", Word), F("capacity_out_bps", Word), F("provenance", Upto(3))>>)
ReadsSource ==
  Struct(<<F("id", ReadsHash128), F("name", TextUpto(MaxText)), F("authority", Upto(4)),
           F("provenance", Upto(3)), F("registered", Bool), F("retired", Bool)>>)
ReadsTransition ==
  Struct(<<F("id", ReadsHash128), F("link", ReadsHash128), F("kind", Upto(11)),
           F("at", ReadsTimePoint), F("generation", ReadsHash128), F("source", ReadsHash128),
           F("from", TextUpto(MaxText)), F("to", TextUpto(MaxText)), F("detail", Word)>>)
ReadsLinkEntry ==
  Struct(<<F("facts", ReadsLinkFacts), F("registered_at", ReadsTimePoint),
           F("last_evidence_at", ReadsTimePoint), F("last_accepted_at", ReadsTimePoint),
           F("accepted_observations", Word), F("fenced_observations", Word),
           F("retired", Bool), F("has_evidence", Bool)>>)
ReadsGenerations ==
  Struct(<<F("current_generation", ReadsHash128), F("has_generation", Bool),
           F("retired_generations", List(DecodedRetired, ReadsHash128)),
           F("generation_changes", Word)>>)
ReadsLink ==
  Struct(<<F("facts", ReadsLinkFacts), F("entry", ReadsLinkEntry), F("generations", ReadsGenerations)>>)

ReadsContents ==
  Struct(<<F("format_version", Exactly(FormatVersion)), F("runtime", ReadsHash128),
           F("incarnation", ReadsHash128), F("saved_at", ReadsTimePoint),
           F("acceptance_index", Word),
           F("links", List(MaxLinks, ReadsLink)), F("sources", List(MaxSources, ReadsSource)),
           F("slots", List(MaxSlots, ReadsSlot)),
           F("streams", List(MaxSources, Struct(<<F("source", ReadsHash128), F("state", ReadsStream)>>))),
           F("transitions", List(MaxTransitions, ReadsTransition)),
           F("total_accepted", Word), F("total_fenced", Word), F("duplicates", Word),
           F("revision_gaps", Word), F("counter_resets", Word),
           F("counter_wraps", Word), F("transitions_dropped", Word)>>)

-----------------------------------------------------------------------------
(***************************************************************************)
(* The continuity of a slot is a map ordered by source: it is written in   *)
(* that order, and of two entries for one source emplace keeps the first.  *)
(***************************************************************************)
HashLess(a, b) == a.hi < b.hi \/ (a.hi = b.hi /\ a.lo < b.lo)

Entries(map) ==
  LET sources == SetToSortSeq(DOMAIN map, HashLess) IN
  [i \in DOMAIN sources |-> [source |-> sources[i], state |-> map[sources[i]]]]

Emplaced(entries) ==
  [source \in {entries[i].source : i \in DOMAIN entries} |->
     entries[CHOOSE i \in DOMAIN entries :
               /\ entries[i].source = source
               /\ \A j \in DOMAIN entries : entries[j].source = source => i <= j].state]

WithEntries(slots) == [i \in DOMAIN slots |-> [slots[i] EXCEPT !.continuity = Entries(@)]]
WithMaps(slots) == [i \in DOMAIN slots |-> [slots[i] EXCEPT !.continuity = Emplaced(@)]]

SavePayload(contents) == Encode(WritesContents, [contents EXCEPT !.slots = WithEntries(@)])

\* load_once, from the payload on: nothing may be left over.
LoadPayload(words) ==
  LET got == Decode(ReadsContents, words) IN
  IF got.ok /\ got.rest = <<>>
  THEN [ok |-> TRUE, contents |-> [got.value EXCEPT !.slots = WithMaps(@)]]
  ELSE Failed
=============================================================================
