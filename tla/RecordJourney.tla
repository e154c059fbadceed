--------------------------- MODULE RecordJourney ----------------------------
(***************************************************************************)
(* The journey of a record: it is written as a line, the line may be       *)
(* edited, a batch is parsed from the text, what was accepted is saved in  *)
(* a snapshot, and another process loads the payload, which may have been  *)
(* altered in a way that its digest does not show (another writer).        *)
(***************************************************************************)
EXTENDS RecordGrammar, SnapshotCodec

CONSTANTS
  Records,       \* the records that are written
  OtherLines,    \* further lines of a text: comments, records, malformed lines
  NewFields,     \* fields an edit may add
  NewValues,     \* values an edit may put in a field
  NewWords,      \* words an alteration may put in a payload
  Held,          \* the contents of the runtime before the batch
  Hash,          \* from_name, by token
  Bytes,         \* the bytes of a token
  MaxEdits,      \* bound on the edits of a text
  MaxDamage      \* bound on the alterations of a payload

VARIABLES
  phase,         \* "write", "parsed", "saved" or "loaded"
  written,       \* history: the record that was written
  text, edits,
  outcome,       \* of parse_batch
  contents,      \* what was saved
  payload, damage,
  loaded         \* of load_once

vars == <<phase, written, text, edits, outcome, contents, payload, damage, loaded>>

Init ==
  /\ phase = "write"
  /\ written \in Records
  /\ text = <<FormatRecord(written)>>
  /\ edits = 0 /\ damage = 0
  /\ outcome = EmptyOutcome
  /\ contents = Held /\ payload = <<>> /\ loaded = Failed

-----------------------------------------------------------------------------
(***************************************************************************)
(* The text.                                                               *)
(***************************************************************************)
Edit(line) ==
  /\ phase = "write" /\ Len(text) = 1 /\ edits < MaxEdits
  /\ edits' = edits + 1
  /\ text' = <<line>>
  /\ UNCHANGED <<written, phase, outcome, contents, payload, damage, loaded>>

Line == text[1]
DropField == \E i \in DOMAIN Line : Edit(RemoveAt(Line, i))
RepeatField == \E i \in DOMAIN Line : Edit(Append(Line, Line[i]))
AddField == \E f \in NewFields : Edit(Append(Line, f))
ChangeValue == \E i \in DOMAIN Line, v \in NewValues : Edit(ReplaceAt(Line, i, Field(Line[i].name, v)))

AddLine ==
  /\ phase = "write" /\ edits < MaxEdits
  /\ edits' = edits + 1
  /\ \E line \in OtherLines : text' \in {Append(text, line), <<line>> \o text}
  /\ UNCHANGED <<written, phase, outcome, contents, payload, damage, loaded>>

\* parse_batch.
ParseBatch ==
  /\ phase = "write"
  /\ phase' = "parsed"
  /\ outcome' = FoldLeft(ParseLine, EmptyOutcome, text)
  /\ UNCHANGED <<written, text, edits, contents, payload, damage, loaded>>

-----------------------------------------------------------------------------
(***************************************************************************)
(* The snapshot: each accepted record leaves its part in the contents.     *)
(***************************************************************************)
NoHash == [hi |-> 0, lo |-> 0]
HashOrNone(name) == IF name = "" THEN NoHash ELSE Hash[name]

\* make_observation.
MakeObservation(r) ==
  [id |-> Hash["id"],
   provenance |-> [source |-> Hash[r.names["source"]], incarnation |-> Hash[r.names["incarnation"]],
                   epoch |-> Hash[r.names["epoch"]], generation |-> Hash[r.names["generation"]],
                   sequence |-> r.revision],
   link |-> Hash[r.names["link"]], key |-> r.key, payload |-> r.payload,
   observed_at |-> r.observed_at, received_at |-> r.received_at]

\* make_link_facts.
MakeLinkFacts(r) ==
  [id |-> Hash[r.name], name |-> Bytes[r.name],
   local_endpoint |-> HashOrNone(r.ends["local-endpoint"]),
   remote_endpoint |-> HashOrNone(r.ends["remote-endpoint"]),
   local_port |-> HashOrNone(r.ends["local-port"]), remote_port |-> HashOrNone(r.ends["remote-port"]),
   kind |-> r.link_kind, generation |-> Hash[r.generation], capacity_known |-> r.capacity_known,
   capacity_in_bps |-> r.capacity_in_bps, capacity_out_bps |-> r.capacity_out_bps,
   provenance |-> r.provenance]

\* apply_record_locked, as far as the declared values go.
Recorded(state, r) ==
  CASE r.kind = "source" ->
         [state EXCEPT !.sources = Append(@,
            [id |-> Hash[r.name], name |-> Bytes[r.name], authority |-> r.authority,
             provenance |-> r.provenance, registered |-> TRUE, retired |-> r.retired])]
    [] r.kind = "link" ->
         [state EXCEPT !.links[1].facts = MakeLinkFacts(r), !.links[1].entry.facts = MakeLinkFacts(r)]
    [] r.kind = "observation" ->
         [state EXCEPT !.slots[1].slot = [link |-> Hash[r.names["link"]], key |-> r.key],
                       !.slots[1].history[1].observation = MakeObservation(r)]

Save ==
  /\ phase = "parsed" /\ outcome.ok /\ edits = 0
  /\ phase' = "saved"
  /\ contents' = FoldLeft(Recorded, Held, outcome.records)
  /\ payload' = SavePayload(contents')
  /\ UNCHANGED <<written, text, edits, outcome, damage, loaded>>

Damage(words) ==
  /\ phase = "saved" /\ damage < MaxDamage
  /\ damage' = damage + 1
  /\ payload' = words
  /\ UNCHANGED <<written, phase, text, edits, outcome, contents, loaded>>

AlterWord == \E i \in DOMAIN payload, w \in NewWords : Damage(ReplaceAt(payload, i, w))
CutPayload == \E n \in 0 .. Len(payload) - 1 : Damage(SubSeq(payload, 1, n))
ExtendPayload == Damage(Append(payload, 0))

Load ==
  /\ phase = "saved"
  /\ phase' = "loaded"
  /\ loaded' = LoadPayload(payload)
  /\ UNCHANGED <<written, text, edits, outcome, contents, payload, damage>>

Next ==
  \/ DropField \/ RepeatField \/ AddField \/ ChangeValue \/ AddLine
  \/ ParseBatch
  \/ Save \/ AlterWord \/ CutPayload \/ ExtendPayload \/ Load

Spec == Init /\ [][Next]_vars

-----------------------------------------------------------------------------
Spoilt(line, i) == ReplaceAt(line, i, Field(line[i].name, <<"*">>))

(***************************************************************************)
(* No field of an accepted line goes unread, whatever edits led to it: put *)
(* nonsense in any one field and the line is refused (FieldReader and      *)
(* ensure_all_used: a typo must not silently drop a value).                *)
(***************************************************************************)
NoFieldIgnored ==
  phase = "parsed" =>
    \A k \in DOMAIN text : ParseRecord(text[k]).ok =>
      \A i \in DOMAIN text[k] : ~ParseRecord(Spoilt(text[k], i)).ok

\* A key with a class but no direction is written without the direction.
Writable(r) ==
  r.kind = "observation" =>
    (r.key.error_class # NoErrorClass => r.key.direction # UnknownDirection)

(***************************************************************************)
(* A batch holds what its accepted lines say, in their order: the record   *)
(* that was written when nothing was edited, and in any case records for   *)
(* which format_record writes a line that parses to the same record.  No   *)
(* alias, default or derived value changes meaning on the way              *)
(* (parse_batch, parse_record and format_record).  The exception is the    *)
(* key errors/unknown/crc and its like, which parse_record accepts and     *)
(* format_record writes as errors/crc: that line is refused, not misread.  *)
(***************************************************************************)
BatchSaysTheText ==
  LET accepted == SelectSeq(text, LAMBDA line : ParseRecord(line).ok) IN
  phase = "parsed" =>
    /\ outcome.ok =>
         /\ outcome.records = [i \in DOMAIN accepted |-> ParseRecord(accepted[i]).record]
         /\ outcome.scanned = CountRecordLines(text)
    /\ edits = 0 => outcome.records = <<written>>
    /\ \A i \in DOMAIN outcome.records :
         LET again == ParseRecord(FormatRecord(outcome.records[i])) IN
         IF Writable(outcome.records[i])
         THEN again = Accepted(outcome.records[i]) ELSE ~again.ok

(***************************************************************************)
(* What was saved is what an undamaged payload loads as, every collection  *)
(* and every member of every record (encode and decode agree on order and  *)
(* on range, and load_once with write_snapshot).                           *)
(***************************************************************************)
LoadedIsSaved ==
  phase = "loaded" /\ damage = 0 => loaded.ok /\ loaded.contents = contents

\* The entries of every map are in the order of the map.
InOrder(words) ==
  LET slots == Decode(ReadsContents, words).value.slots IN
  \A k \in DOMAIN slots : \A i, j \in DOMAIN slots[k].continuity :
    i < j => HashLess(slots[k].continuity[i].source, slots[k].continuity[j].source)

(***************************************************************************)
(* A payload that loads is the payload its contents are saved as: the      *)
(* decoder repairs, drops and invents nothing, so an altered payload is    *)
(* refused or is a snapshot the writer could have written (decode: ranges, *)
(* booleans, bounds, and nothing left over).                               *)
(***************************************************************************)
DecodingIsExact ==
  phase = "loaded" /\ loaded.ok /\ InOrder(payload) => SavePayload(loaded.contents) = payload
=============================================================================
