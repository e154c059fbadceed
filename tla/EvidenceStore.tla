--------------------------- MODULE EvidenceStore ----------------------------
(***************************************************************************)
(* The bounded evidence store (src/store/evidence_store.cpp): revision     *)
(* streams per source, retained evidence per slot (link, metric key), and  *)
(* the ordered fences of EvidenceStore::accept.                            *)
(*                                                                         *)
(* Abstractions: an observation's identity hash is not kept, so the fences *)
(* DuplicateObservation and RevisionReplay are one outcome; per-reason     *)
(* counters are folded into the total; the instant of the last gap of a    *)
(* slot is a flag.  A slot exists exactly when it retains evidence.        *)
(***************************************************************************)
EXTENDS LinkRegistry, CounterTracker

CONSTANTS
  Incarnations, Epochs,
  NoScope,             \* StreamState::has_scope = false
  MaxSequence,         \* greatest revision (2^64 - 1 in the code)
  Keys,                \* metric keys a link can have
  CounterKeys,         \* keys of cumulative counter families
  EnabledKeys,         \* keys whose family is enabled in the configuration
  Readings,            \* payloads: [raw, width, reset]
  Times,               \* observation instants
  Validity,            \* what the validation of a record may say: parsed records
                       \* are valid, records built through the API need not be
  MaxRetiredScopes,    \* kMaxRetiredScopes (32 in the code)
  MaxEvidence          \* policy.limits.max_evidence_per_key

Scopes == [incarnation: Incarnations, epoch: Epochs]
Reading == [raw: Nat, width: CounterWidths, reset: BOOLEAN]
NoSequence == -1       \* StreamState::has_sequence = false

ASSUME StoreAssumption ==
  /\ NoScope \notin Scopes
  /\ MaxSequence \in Nat
  /\ IsFiniteSet(Keys) /\ CounterKeys \subseteq Keys /\ EnabledKeys \subseteq Keys
  /\ Readings \subseteq Reading
  /\ Times \subseteq Nat
  /\ Validity \subseteq BOOLEAN
  /\ MaxRetiredScopes \in Nat \ {0}
  /\ MaxEvidence \in Nat \ {0}

Observation ==
  [source: SourceIds, incarnation: Incarnations, epoch: Epochs,
   generation: Generations, sequence: 0..MaxSequence,
   link: LinkIds, key: Keys, reading: Readings, observed_at: Times,
   valid: Validity]

Slots == LinkIds \X Keys

Evidence == [source: SourceIds, scope: Scopes, generation: Generations,
             sequence: 0..MaxSequence, observed_at: Times, authority: Authorities]

Sample == [scope: Scopes, generation: Generations, sequence: 0..MaxSequence,
           gap_epoch: Nat, observed_at: Times,
           raw: Nat, width: CounterWidths, reset: BOOLEAN]

VARIABLES
  curScope,        \* StreamState::scope
  lastSeq,         \* StreamState::last_sequence
  retiredScopes,   \* StreamState::retired_scopes
  scopeChanges,    \* StreamState::scope_changes
  gapCount,        \* StreamState::gap_count
  history,         \* Slot::history, oldest first
  continuity,      \* Slot::continuity, per slot and source
  gapSlots,        \* slots with Slot::has_gap
  totalAccepted,   \* total_accepted_
  totalFenced,     \* total_fenced_
  acceptedRevs     \* history variable: revisions accepted, per source

streamVars == <<curScope, lastSeq, retiredScopes, scopeChanges, gapCount>>
slotVars == <<history, continuity, gapSlots>>
storeVars == <<streamVars, slotVars, totalAccepted, totalFenced, acceptedRevs>>

StoreTypeOK ==
  /\ curScope \in [SourceIds -> Scopes \cup {NoScope}]
  /\ lastSeq \in [SourceIds -> 0..MaxSequence \cup {NoSequence}]
  /\ retiredScopes \in [SourceIds -> Seq(Scopes)]
  /\ scopeChanges \in [SourceIds -> Nat]
  /\ gapCount \in [SourceIds -> Nat]
  /\ history \in [Slots -> Seq(Evidence)]
  /\ continuity \in [Slots -> [SourceIds -> Seq(Sample)]]
  /\ gapSlots \in SUBSET Slots
  /\ totalAccepted \in Nat /\ totalFenced \in Nat
  /\ acceptedRevs \in [SourceIds -> SUBSET (Scopes \X (0..MaxSequence))]

StoreInit ==
  /\ curScope = [s \in SourceIds |-> NoScope]
  /\ lastSeq = [s \in SourceIds |-> NoSequence]
  /\ retiredScopes = [s \in SourceIds |-> <<>>]
  /\ scopeChanges = [s \in SourceIds |-> 0]
  /\ gapCount = [s \in SourceIds |-> 0]
  /\ history = [slot \in Slots |-> <<>>]
  /\ continuity = [slot \in Slots |-> [s \in SourceIds |-> <<>>]]
  /\ gapSlots = {}
  /\ totalAccepted = 0 /\ totalFenced = 0
  /\ acceptedRevs = [s \in SourceIds |-> {}]

-----------------------------------------------------------------------------
(***************************************************************************)
(* The fences of accept() that read stream and slot state.                 *)
(***************************************************************************)
ScopeOf(o) == [incarnation |-> o.incarnation, epoch |-> o.epoch]
SlotOf(o) == <<o.link, o.key>>

EntersScope(o) == curScope[o.source] # ScopeOf(o)

\* IncarnationBehind and EpochBehind: a scope still remembered as retired.
ScopeBehind(o) == EntersScope(o) /\ ScopeOf(o) \in Range(retiredScopes[o.source])

\* The revision the stream expects to follow: a new scope starts afresh.
BaseSequence(o) == IF EntersScope(o) THEN NoSequence ELSE lastSeq[o.source]

\* DuplicateObservation and RevisionReplay.  A stream that reached the last
\* representable revision has no next one and refuses everything.
RevisionReplayed(o) ==
  /\ BaseSequence(o) # NoSequence
  /\ o.sequence <= BaseSequence(o) \/ BaseSequence(o) = MaxSequence

RevisionGap(o) ==
  /\ BaseSequence(o) # NoSequence
  /\ o.sequence > BaseSequence(o) + 1

\* Only the newest retained entry of the same generation is compared.
AuthorityDowngrade(o, authority) ==
  LET entries == history[SlotOf(o)]
      same    == {i \in DOMAIN entries : entries[i].generation = o.generation}
  IN  \E i \in same :
        /\ \A j \in same : j <= i
        /\ entries[i].authority > authority
        /\ entries[i].observed_at >= o.observed_at

LiveSlots == {slot \in Slots : history[slot] # <<>>}

StoreFull(o) ==
  /\ history[SlotOf(o)] = <<>>
  /\ Cardinality(LiveSlots) >= MaxLinks * Cardinality(Keys)

\* Refusals that leave every stream as it was ...
RefusedUntouched(o, generation) ==
  \/ ~o.valid
  \/ generation # NoGeneration /\ o.generation # generation
  \/ ScopeBehind(o)
  \/ RevisionReplayed(o)

\* ... and refusals found only after the stream entered the scope of the
\* observation and counted its gap.
RefusedLate(o, authority) == AuthorityDowngrade(o, authority) \/ StoreFull(o)

-----------------------------------------------------------------------------
(***************************************************************************)
(* The effects of accept().                                                *)
(***************************************************************************)
CountFence == totalFenced' = totalFenced + 1
\* Mutant: a stream that had no scope retires it all the same.
AdvanceStream_RetiresNothing(o) ==
  LET s == o.source IN
  /\ curScope' = [curScope EXCEPT ![s] = ScopeOf(o)]
  /\ gapCount' = [gapCount EXCEPT ![s] = IF RevisionGap(o) THEN @ + 1 ELSE @]
  /\ scopeChanges' = [scopeChanges EXCEPT ![s] = IF EntersScope(o) THEN @ + 1 ELSE @]
  /\ retiredScopes' = IF EntersScope(o)
                      THEN [retiredScopes EXCEPT ![s] =
                              PushRetired(@, curScope[s], MaxRetiredScopes)]
                      ELSE retiredScopes

\* Enter the observation's scope, retiring the previous one, and count a gap.
AdvanceStream(o) ==
  LET s == o.source IN
  /\ curScope' = [curScope EXCEPT ![s] = ScopeOf(o)]
  /\ gapCount' = [gapCount EXCEPT ![s] = IF RevisionGap(o) THEN @ + 1 ELSE @]
  /\ scopeChanges' = [scopeChanges EXCEPT ![s] = IF EntersScope(o) THEN @ + 1 ELSE @]
  /\ retiredScopes' = IF EntersScope(o) /\ curScope[s] # NoScope
                      THEN [retiredScopes EXCEPT ![s] =
                              PushRetired(@, curScope[s], MaxRetiredScopes)]
                      ELSE retiredScopes
\* Mutant: an early refusal is not counted.
RefuseUntouched_Uncounted ==
  UNCHANGED <<streamVars, slotVars, totalAccepted, totalFenced, acceptedRevs>>

RefuseUntouched ==
  /\ CountFence
  /\ UNCHANGED <<streamVars, slotVars, totalAccepted, acceptedRevs>>

RefuseLate(o) ==
  /\ AdvanceStream(o)
  /\ lastSeq' = [lastSeq EXCEPT ![o.source] = BaseSequence(o)]
  /\ CountFence
  /\ UNCHANGED <<slotVars, totalAccepted, acceptedRevs>>

EvidenceOf(o, authority) ==
  [source |-> o.source, scope |-> ScopeOf(o), generation |-> o.generation,
   sequence |-> o.sequence, observed_at |-> o.observed_at, authority |-> authority]

SampleOf(o, gapEpoch) ==
  [scope |-> ScopeOf(o), generation |-> o.generation, sequence |-> o.sequence,
   gap_epoch |-> gapEpoch, observed_at |-> o.observed_at,
   raw |-> o.reading.raw, width |-> o.reading.width, reset |-> o.reading.reset]
\* Mutant: the gap this very observation exposes is counted too late.
GapEpoch_Late(o) == gapCount[o.source]

GapEpoch(o) == gapCount[o.source] + (IF RevisionGap(o) THEN 1 ELSE 0)

\* What folding the sample into the continuity of its slot reports.
CounterOutcome(o) ==
  IF o.key \in CounterKeys
  THEN ContinuityOutcome(continuity[SlotOf(o)][o.source], SampleOf(o, GapEpoch(o)))
  ELSE NoOutcome

MarksGap(o) ==
  \/ RevisionGap(o)
  \/ CounterOutcome(o).discontinuity = "Reset"
  \/ CounterOutcome(o).sequence_gap

Admit(o, authority) ==
  LET s == o.source slot == SlotOf(o) IN
  /\ AdvanceStream(o)
  /\ lastSeq' = [lastSeq EXCEPT ![s] = o.sequence]
  /\ history' = [history EXCEPT ![slot] =
                   PushRetired(@, EvidenceOf(o, authority), MaxEvidence)]
  /\ continuity' = IF o.key \in CounterKeys
                   THEN [continuity EXCEPT ![slot][s] =
                           ObserveCounter(@, SampleOf(o, GapEpoch(o)))]
                   ELSE continuity
  /\ gapSlots' = IF MarksGap(o) THEN gapSlots \cup {slot} ELSE gapSlots
  /\ totalAccepted' = totalAccepted + 1
  /\ acceptedRevs' = [acceptedRevs EXCEPT ![s] = @ \cup {<<ScopeOf(o), o.sequence>>}]
  /\ UNCHANGED totalFenced

-----------------------------------------------------------------------------
(***************************************************************************)
(* contenders(): the newest retained entry of each source, of which only   *)
(* the ones of the current scope and generation are eligible.  Freshness   *)
(* is a matter of the evaluation clock and left out here.                  *)
(***************************************************************************)
NewestOf(s, slot) ==
  LET of == {i \in DOMAIN history[slot] : history[slot][i].source = s}
  IN  {history[slot][i] : i \in {i \in of : \A j \in of : j <= i}}

Eligible(slot) ==
  {e \in UNION {NewestOf(s, slot) : s \in SourceIds} :
     /\ e.scope = curScope[e.source]
     /\ e.generation = currentGeneration[slot[1]]}
=============================================================================
