---------------------------- MODULE IngestProofs ----------------------------
(***************************************************************************)
(* Machine-checked proofs about Ingest, for every value of the constants.  *)
(***************************************************************************)
EXTENDS Ingest, FiniteSetTheorems, TLAPS

(***************************************************************************)
(* The bounded push used for retired identities and for retained evidence. *)
(***************************************************************************)
\* A bounded push of a typed item onto a typed list is a typed list
\* (push_back followed by the erase loop).
LEMMA PushRetiredType ==
  ASSUME NEW T, NEW list \in Seq(T), NEW item \in T, NEW bound \in Nat \ {0}
  PROVE  PushRetired(list, item, bound) \in Seq(T)
<1>1. CASE Len(list) < bound
  BY <1>1 DEF PushRetired
<1>2. CASE ~(Len(list) < bound)
  <2>1. list # <<>>
    BY <1>2
  <2>2. Tail(list) \in Seq(T)
    BY <2>1
  <2>3. QED
    BY <1>2, <2>2 DEF PushRetired
<1>3. QED
  BY <1>1, <1>2

\* The bounded push never exceeds its bound.
LEMMA PushRetiredLength ==
  ASSUME NEW T, NEW list \in Seq(T), NEW item \in T, NEW bound \in Nat \ {0},
         Len(list) <= bound
  PROVE  /\ Len(PushRetired(list, item, bound)) <= bound
         /\ Len(list) < bound => Len(PushRetired(list, item, bound)) = Len(list) + 1
<1>1. CASE Len(list) < bound
  BY <1>1 DEF PushRetired
<1>2. CASE ~(Len(list) < bound)
  <2>1. list # <<>>
    BY <1>2
  <2>2. Tail(list) \in Seq(T) /\ Len(Tail(list)) = Len(list) - 1
    BY <2>1
  <2>3. Len(Append(Tail(list), item)) = Len(list)
    BY <2>2
  <2>4. PushRetired(list, item, bound) = Append(Tail(list), item)
    BY <1>2 DEF PushRetired
  <2>5. QED
    BY <1>2, <2>3, <2>4
<1>3. QED
  BY <1>1, <1>2

\* While there is room nothing is forgotten: the pushed item joins the range.
LEMMA PushRetiredRange ==
  ASSUME NEW T, NEW list \in Seq(T), NEW item \in T, NEW bound \in Nat \ {0},
         Len(list) < bound
  PROVE  Range(PushRetired(list, item, bound)) = Range(list) \cup {item}
<1>1. PushRetired(list, item, bound) = Append(list, item)
  BY DEF PushRetired
<1>2. /\ DOMAIN Append(list, item) = 1..(Len(list) + 1)
      /\ \A i \in 1..Len(list) : Append(list, item)[i] = list[i]
      /\ Append(list, item)[Len(list) + 1] = item
  OBVIOUS
<1>3. DOMAIN list = 1..Len(list) /\ Len(list) \in Nat
  OBVIOUS
<1>4. ASSUME NEW x PROVE x \in Range(Append(list, item)) <=> x \in Range(list) \cup {item}
  BY <1>2, <1>3 DEF Range
<1>5. QED
  BY <1>1, <1>4

(***************************************************************************)
(* Type correctness.                                                       *)
(***************************************************************************)
\* observe_generation keeps the types of a link's generation state.
LEMMA ObserveGenerationType ==
  ASSUME RegistryTypeOK, NEW l \in LinkIds, NEW g \in Generations,
         ObserveGeneration(l, g)
  PROVE  /\ currentGeneration' \in [LinkIds -> Generations \cup {NoGeneration}]
         /\ retiredGenerations' \in [LinkIds -> Seq(Generations)]
         /\ generationChanges' \in [LinkIds -> Nat]
<1>1. CASE ~GenerationChanged(l, g)
  BY <1>1 DEF ObserveGeneration, RegistryTypeOK, generationVars
<1>2. CASE GenerationChanged(l, g) /\ ~HasGeneration(l)
  BY <1>2 DEF ObserveGeneration, RegistryTypeOK
<1>3. CASE GenerationChanged(l, g) /\ HasGeneration(l)
  <2>1. currentGeneration[l] \in Generations
    BY <1>3 DEF HasGeneration, RegistryTypeOK
  <2>2. PushRetired(retiredGenerations[l], currentGeneration[l], MaxRetiredGenerations)
          \in Seq(Generations)
    <3>1. retiredGenerations[l] \in Seq(Generations)
      BY DEF RegistryTypeOK
    <3>2. MaxRetiredGenerations \in Nat \ {0}
      BY RegistryAssumption
    <3>3. QED
      BY <2>1, <3>1, <3>2, PushRetiredType
  <2>3. /\ currentGeneration' = [currentGeneration EXCEPT ![l] = g]
        /\ generationChanges' = [generationChanges EXCEPT ![l] = @ + 1]
        /\ retiredGenerations' = [retiredGenerations EXCEPT ![l] =
             PushRetired(retiredGenerations[l], currentGeneration[l], MaxRetiredGenerations)]
    BY <1>3 DEF ObserveGeneration
  <2>4. retiredGenerations' \in [LinkIds -> Seq(Generations)]
    BY <2>2, <2>3 DEF RegistryTypeOK
  <2>5. QED
    BY <2>3, <2>4 DEF RegistryTypeOK
<1>4. QED
  BY <1>1, <1>2, <1>3

\* The parts of an observation have the types the store relies on.
LEMMA ObservationParts ==
  ASSUME NEW o \in Observation
  PROVE  /\ o.source \in SourceIds /\ o.generation \in Generations
         /\ o.link \in LinkIds /\ SlotOf(o) \in Slots
         /\ ScopeOf(o) \in Scopes
         /\ o.sequence \in 0..MaxSequence
BY DEF Observation, SlotOf, Slots, ScopeOf, Scopes

\* Entering a scope and counting a gap keep the types of the stream state.
LEMMA AdvanceStreamType ==
  ASSUME StoreTypeOK, NEW o \in Observation, AdvanceStream(o)
  PROVE  /\ curScope' \in [SourceIds -> Scopes \cup {NoScope}]
         /\ retiredScopes' \in [SourceIds -> Seq(Scopes)]
         /\ scopeChanges' \in [SourceIds -> Nat]
         /\ gapCount' \in [SourceIds -> Nat]
<1> USE ObservationParts
<1>1. /\ curScope' \in [SourceIds -> Scopes \cup {NoScope}]
      /\ scopeChanges' \in [SourceIds -> Nat]
      /\ gapCount' \in [SourceIds -> Nat]
  BY DEF AdvanceStream, StoreTypeOK
<1>2. CASE EntersScope(o) /\ curScope[o.source] # NoScope
  <2>1. curScope[o.source] \in Scopes
    BY <1>2 DEF StoreTypeOK
  <2>2. PushRetired(retiredScopes[o.source], curScope[o.source], MaxRetiredScopes)
          \in Seq(Scopes)
    <3>1. retiredScopes[o.source] \in Seq(Scopes)
      BY DEF StoreTypeOK
    <3>2. MaxRetiredScopes \in Nat \ {0}
      BY StoreAssumption
    <3>3. QED
      BY <2>1, <3>1, <3>2, PushRetiredType
  <2>3. retiredScopes' = [retiredScopes EXCEPT ![o.source] =
          PushRetired(retiredScopes[o.source], curScope[o.source], MaxRetiredScopes)]
    BY <1>2 DEF AdvanceStream
  <2>4. retiredScopes' \in [SourceIds -> Seq(Scopes)]
    BY <2>2, <2>3 DEF StoreTypeOK
  <2>5. QED
    BY <1>1, <2>4
<1>3. CASE ~(EntersScope(o) /\ curScope[o.source] # NoScope)
  BY <1>1, <1>3 DEF AdvanceStream, StoreTypeOK
<1>4. QED
  BY <1>2, <1>3

\* A refusal by the store keeps the store's types.
LEMMA RefuseType ==
  ASSUME StoreTypeOK, NEW o \in Observation, RefuseUntouched \/ RefuseLate(o)
  PROVE  StoreTypeOK'
<1>1. CASE RefuseUntouched
  BY <1>1 DEF RefuseUntouched, CountFence, StoreTypeOK, streamVars, slotVars
<1>2. CASE RefuseLate(o)
  <2>1. BaseSequence(o) \in 0..MaxSequence \cup {NoSequence}
    BY ObservationParts DEF BaseSequence, StoreTypeOK
  <2>2. lastSeq' \in [SourceIds -> 0..MaxSequence \cup {NoSequence}]
    BY <1>2, <2>1 DEF RefuseLate, StoreTypeOK
  <2>3. QED
    BY <1>2, <2>2, AdvanceStreamType DEF RefuseLate, CountFence, StoreTypeOK, slotVars
<1>3. QED
  BY <1>1, <1>2

\* The sample built from an observation is a sample.
LEMMA SampleType ==
  ASSUME StoreTypeOK, NEW o \in Observation
  PROVE  /\ GapEpoch(o) \in Nat
         /\ SampleOf(o, GapEpoch(o)) \in Sample
<1>1. GapEpoch(o) \in Nat
  BY ObservationParts DEF GapEpoch, StoreTypeOK
<1>2. o.reading \in Reading /\ o.observed_at \in Times
  BY StoreAssumption DEF Observation
<1>3. /\ o.reading.raw \in Nat
      /\ o.reading.width \in CounterWidths
      /\ o.reading.reset \in BOOLEAN
  BY <1>2 DEF Reading
<1>4. QED
  BY <1>1, <1>2, <1>3, ObservationParts DEF SampleOf, Sample

\* Folding a sample into the continuity of a slot keeps at most two samples.
LEMMA ObserveCounterType ==
  ASSUME NEW c \in Seq(Sample), NEW x \in Sample
  PROVE  ObserveCounter(c, x) \in Seq(Sample)
<1>1. CASE c = <<>>
  BY <1>1 DEF ObserveCounter
<1>2. CASE c # <<>>
  <2>1. c[Len(c)] \in Sample
    BY <1>2
  <2>2. QED
    BY <1>2, <2>1 DEF ObserveCounter
<1>3. QED
  BY <1>1, <1>2

\* Admitting an observation keeps the store's types.
LEMMA AdmitType ==
  ASSUME StoreTypeOK, NEW o \in Observation, NEW a \in Authorities, Admit(o, a)
  PROVE  StoreTypeOK'
<1> DEFINE slot == SlotOf(o)
<1> DEFINE s == o.source
<1>1. lastSeq' \in [SourceIds -> 0..MaxSequence \cup {NoSequence}]
  BY ObservationParts DEF Admit, StoreTypeOK
<1>2. EvidenceOf(o, a) \in Evidence
  BY ObservationParts DEF EvidenceOf, Evidence, Observation
<1>3. PushRetired(history[slot], EvidenceOf(o, a), MaxEvidence) \in Seq(Evidence)
  BY <1>2, PushRetiredType, ObservationParts, StoreAssumption DEF StoreTypeOK
<1>4. history' \in [Slots -> Seq(Evidence)]
  BY <1>3, ObservationParts DEF Admit, StoreTypeOK
<1>5. ObserveCounter(continuity[slot][s], SampleOf(o, GapEpoch(o))) \in Seq(Sample)
  <2>1. continuity[slot][s] \in Seq(Sample)
    BY ObservationParts DEF StoreTypeOK
  <2>2. QED
    BY <2>1, SampleType, ObserveCounterType
<1>6. continuity' \in [Slots -> [SourceIds -> Seq(Sample)]]
  <2>1. CASE o.key \in CounterKeys
    <3>1. continuity' = [continuity EXCEPT ![slot][s] =
                           ObserveCounter(@, SampleOf(o, GapEpoch(o)))]
      BY <2>1 DEF Admit
    <3>2. QED
      BY <3>1, <1>5, ObservationParts DEF StoreTypeOK
  <2>2. CASE o.key \notin CounterKeys
    BY <2>2 DEF Admit, StoreTypeOK
  <2>3. QED
    BY <2>1, <2>2
<1>7. gapSlots' \in SUBSET Slots
  BY ObservationParts DEF Admit, StoreTypeOK
<1>8. acceptedRevs' \in [SourceIds -> SUBSET (Scopes \X (0..MaxSequence))]
  BY ObservationParts DEF Admit, StoreTypeOK
<1>9. totalAccepted' \in Nat /\ totalFenced' \in Nat
  BY DEF Admit, StoreTypeOK
<1>10. AdvanceStream(o)
  BY DEF Admit
<1>11. QED
  BY <1>1, <1>4, <1>6, <1>7, <1>8, <1>9, <1>10, AdvanceStreamType DEF StoreTypeOK

\* Recording transitions keeps the type of the transition counts.
LEMMA RecordType ==
  ASSUME events \in [LinkIds -> [Kinds -> Nat]], NEW l \in LinkIds, NEW kinds,
         Record(l, kinds)
  PROVE  events' \in [LinkIds -> [Kinds -> Nat]]
<1>1. [k \in Kinds |-> IF k \in kinds THEN events[l][k] + 1 ELSE events[l][k]]
        \in [Kinds -> Nat]
  OBVIOUS
<1>2. QED
  BY <1>1 DEF Record

\* The type invariant holds initially.
LEMMA TypeInit == Init => TypeOK
<1> SUFFICES ASSUME Init PROVE TypeOK
  OBVIOUS
<1>1. RegistryTypeOK
  <2>1. (CHOOSE a \in Authorities : TRUE) \in Authorities
    BY RegistryAssumption
  <2>2. QED
    BY <2>1, RegistryAssumption DEF Init, RegistryInit, RegistryTypeOK, SourceRecord
<1>2. StoreTypeOK
  BY DEF Init, StoreInit, StoreTypeOK
<1>3. QED
  BY <1>1, <1>2 DEF Init, TypeOK

\* Declarations keep the type invariant.
LEMMA DeclarationType ==
  ASSUME TypeOK,
         \/ \E s \in SourceIds, a \in Authorities, p \in Provenances, r \in BOOLEAN :
              ApplySource(s, a, p, r)
         \/ \E l \in LinkIds, g \in Generations : ApplyLink(l, g) \/ RejectLink(l, g)
  PROVE  TypeOK'
<1>1. ASSUME NEW s \in SourceIds, NEW a \in Authorities, NEW p \in Provenances,
             NEW r \in BOOLEAN, ApplySource(s, a, p, r)
      PROVE  TypeOK'
  <2>1. sources' \in [SourceIds -> SourceRecord]
    <3>1. [registered |-> TRUE, retired |-> r, authority |-> a, provenance |-> p]
            \in SourceRecord
      BY DEF SourceRecord
    <3>2. CASE RegisterSource(s, a, p, r)
      BY <3>1, <3>2 DEF RegisterSource, TypeOK, RegistryTypeOK
    <3>3. CASE UNCHANGED sources
      BY <3>3 DEF TypeOK, RegistryTypeOK
    <3>4. QED
      BY <1>1, <3>2, <3>3 DEF ApplySource
  <2>2. declared' \in Nat
    BY <1>1 DEF ApplySource, Declare, TypeOK
  <2>3. QED
    BY <1>1, <2>1, <2>2 DEF ApplySource, TypeOK, RegistryTypeOK, StoreTypeOK,
       linkVars, generationVars, storeVars, streamVars, slotVars
<1>2. ASSUME NEW l \in LinkIds, NEW g \in Generations, ApplyLink(l, g)
      PROVE  TypeOK'
  <2>1. /\ currentGeneration' \in [LinkIds -> Generations \cup {NoGeneration}]
        /\ retiredGenerations' \in [LinkIds -> Seq(Generations)]
        /\ generationChanges' \in [LinkIds -> Nat]
    BY <1>2, ObserveGenerationType DEF ApplyLink, RegisterLink, TypeOK
  <2>2. events' \in [LinkIds -> [Kinds -> Nat]]
    BY <1>2, RecordType DEF ApplyLink, TypeOK
  <2>3. /\ known' \in SUBSET LinkIds
        /\ factsGeneration' \in [LinkIds -> Generations \cup {NoGeneration}]
        /\ declared' \in Nat
    BY <1>2 DEF ApplyLink, RegisterLink, Declare, TypeOK, RegistryTypeOK
  <2>4. QED
    BY <1>2, <2>1, <2>2, <2>3 DEF ApplyLink, TypeOK, RegistryTypeOK, StoreTypeOK,
       storeVars, streamVars, slotVars
<1>3. ASSUME NEW l \in LinkIds, NEW g \in Generations, RejectLink(l, g)
      PROVE  TypeOK'
  BY <1>3 DEF RejectLink, Declare, TypeOK, RegistryTypeOK, StoreTypeOK,
     registryVars, linkVars, generationVars, storeVars, streamVars, slotVars
<1>4. QED
  BY <1>1, <1>2, <1>3

\* The runtime's own bookkeeping of an observation keeps its types; what is
\* left is the store, and the links when it reaches the store.
LEMMA ReachesStoreType ==
  ASSUME TypeOK, NEW o \in Observation, ReachesStore(o)
  PROVE  /\ sources' = sources /\ declared' = declared /\ submitted' \in Nat
         /\ known' \in SUBSET LinkIds
         /\ factsGeneration' = factsGeneration
         /\ currentGeneration' \in [LinkIds -> Generations \cup {NoGeneration}]
         /\ retiredGenerations' \in [LinkIds -> Seq(Generations)]
         /\ generationChanges' \in [LinkIds -> Nat]
<1>1. /\ currentGeneration' \in [LinkIds -> Generations \cup {NoGeneration}]
      /\ retiredGenerations' \in [LinkIds -> Seq(Generations)]
      /\ generationChanges' \in [LinkIds -> Nat]
  BY ObserveGenerationType, ObservationParts DEF ReachesStore, TypeOK
<1>2. QED
  BY <1>1, ObservationParts DEF ReachesStore, Submit, EnsureLink, TypeOK, RegistryTypeOK

\* Observations keep the type invariant, one step per way out of the handler.
LEMMA ObservationType ==
  ASSUME TypeOK, NEW o \in Observation, ApplyObservation(o)
  PROVE  TypeOK'
<1>1. CASE FenceUnheard(o)
  <2>1. StoreTypeOK'
    BY <1>1, RefuseType DEF FenceUnheard, TypeOK
  <2>2. QED
    BY <1>1, <2>1 DEF FenceUnheard, Submit, TypeOK, RegistryTypeOK, linkVars, generationVars
<1>2. CASE FenceUnknownLink(o)
  BY <1>2 DEF FenceUnknownLink, Submit, TypeOK, RegistryTypeOK, StoreTypeOK,
     linkVars, generationVars, storeVars, streamVars, slotVars
<1>3. CASE FenceGeneration(o)
  <2>1. linkFenced' \in [LinkIds -> Nat]
    BY <1>3, ObservationParts DEF FenceGeneration, TypeOK, RegistryTypeOK
  <2>2. QED
    BY <1>3, <2>1 DEF FenceGeneration, Submit, TypeOK, RegistryTypeOK, StoreTypeOK,
       generationVars, storeVars, streamVars, slotVars
<1>4. CASE FenceInStore(o)
  <2>1. StoreTypeOK'
    BY <1>4, RefuseType DEF FenceInStore, TypeOK
  <2>2. events' \in [LinkIds -> [Kinds -> Nat]]
    BY <1>4, RecordType, ObservationParts DEF FenceInStore, TypeOK
  <2>3. linkFenced' \in [LinkIds -> Nat]
    BY <1>4, ObservationParts DEF FenceInStore, TypeOK, RegistryTypeOK
  <2>4. ReachesStore(o)
    BY <1>4 DEF FenceInStore
  <2>5. linkAccepted' = linkAccepted /\ observed' = observed /\ accepted' = accepted
        /\ ownFenced' = ownFenced /\ fenced' = fenced + 1
    BY <1>4 DEF FenceInStore
  <2>6. RegistryTypeOK'
    BY <2>3, <2>4, <2>5, ReachesStoreType DEF TypeOK, RegistryTypeOK
  <2>7. QED
    BY <2>1, <2>2, <2>4, <2>5, <2>6, ReachesStoreType DEF TypeOK
<1>5. CASE \E v \in Verdicts : Accept(o, v)
  <2> PICK v \in Verdicts : Accept(o, v)
    BY <1>5
  <2>1. AuthorityOf(o) \in Authorities
    BY ObservationParts DEF AuthorityOf, TypeOK, RegistryTypeOK, SourceRecord
  <2>2. StoreTypeOK'
    BY <2>1, AdmitType DEF Accept, TypeOK
  <2>3. events' \in [LinkIds -> [Kinds -> Nat]]
    BY RecordType, ObservationParts DEF Accept, TypeOK
  <2>4. /\ linkAccepted' \in [LinkIds -> Nat]
        /\ observed' \in [LinkIds -> Verdicts \cup {NoVerdict}]
    BY ObservationParts DEF Accept, TypeOK, RegistryTypeOK
  <2>5. ReachesStore(o)
    BY DEF Accept
  <2>6. linkFenced' = linkFenced /\ fenced' = fenced /\ ownFenced' = ownFenced
        /\ accepted' = accepted + 1
    BY DEF Accept
  <2>7. RegistryTypeOK'
    BY <2>4, <2>5, <2>6, ReachesStoreType DEF TypeOK, RegistryTypeOK
  <2>8. submitted' \in Nat /\ declared' = declared
    BY <2>5, ReachesStoreType
  <2>9. QED
    BY <2>2, <2>3, <2>4, <2>6, <2>7, <2>8 DEF TypeOK
<1>6. QED
  BY <1>1, <1>2, <1>3, <1>4, <1>5 DEF ApplyObservation

\* No record takes the state out of its types.
LEMMA TypeStep ==
  ASSUME TypeOK, [Next]_vars
  PROVE  TypeOK'
<1>1. CASE \/ \E s \in SourceIds, a \in Authorities, p \in Provenances, r \in BOOLEAN :
               ApplySource(s, a, p, r)
           \/ \E l \in LinkIds, g \in Generations : ApplyLink(l, g) \/ RejectLink(l, g)
  BY <1>1, DeclarationType
<1>2. CASE UNCHANGED vars
  BY <1>2 DEF vars, TypeOK, RegistryTypeOK, StoreTypeOK, registryVars, linkVars,
     generationVars, storeVars, streamVars, slotVars, runtimeVars
<1>3. CASE \E o \in Observation : ApplyObservation(o)
  BY <1>3, ObservationType
<1>4. QED
  BY <1>1, <1>2, <1>3 DEF Next

\* Type correctness: no record, whatever its fields and whatever happened
\* before, takes the registry, the store or the statistics out of their types.
THEOREM TypeCorrect == Spec => []TypeOK
<1>1. TypeOK /\ [Next]_vars => TypeOK'
  BY TypeStep
<1>2. QED
  BY <1>1, TypeInit, PTL DEF Spec

(***************************************************************************)
(* At-most-once ingest.  AcceptedRevisionsFenced is not inductive alone:   *)
(* that entering a new scope forgets no older one needs ScopesRemembered,  *)
(* which ties the length of the retired list to the number of changes.     *)
(***************************************************************************)
StreamInv == ScopesRemembered /\ AcceptedRevisionsFenced

\* The state of one stream as AdvanceStream leaves it.
LEMMA AdvanceStreamEffect ==
  ASSUME StoreTypeOK, NEW o \in Observation, AdvanceStream(o)
  PROVE  /\ curScope'[o.source] = ScopeOf(o)
         /\ scopeChanges'[o.source] =
              IF EntersScope(o) THEN scopeChanges[o.source] + 1 ELSE scopeChanges[o.source]
         /\ retiredScopes'[o.source] =
              IF EntersScope(o) /\ curScope[o.source] # NoScope
              THEN PushRetired(retiredScopes[o.source], curScope[o.source], MaxRetiredScopes)
              ELSE retiredScopes[o.source]
         /\ \A s \in SourceIds \ {o.source} :
              /\ curScope'[s] = curScope[s]
              /\ scopeChanges'[s] = scopeChanges[s]
              /\ retiredScopes'[s] = retiredScopes[s]
BY ObservationParts DEF AdvanceStream, StoreTypeOK

\* A stream that moves on, with or without accepting the observation, still
\* fences everything it accepted.
LEMMA StreamStep ==
  ASSUME StoreTypeOK, StreamInv, NEW o \in Observation,
         ~ScopeBehind(o), ~RevisionReplayed(o), AdvanceStream(o),
         \/ /\ lastSeq' = [lastSeq EXCEPT ![o.source] = BaseSequence(o)]
            /\ acceptedRevs' = acceptedRevs
         \/ /\ lastSeq' = [lastSeq EXCEPT ![o.source] = o.sequence]
            /\ acceptedRevs' = [acceptedRevs EXCEPT ![o.source] =
                                  @ \cup {<<ScopeOf(o), o.sequence>>}]
  PROVE  StreamInv'
<1> DEFINE s == o.source
<1> DEFINE sc == ScopeOf(o)
<1>1. /\ s \in SourceIds /\ sc \in Scopes /\ sc # NoScope
      /\ o.sequence \in Nat /\ lastSeq[s] \in Int /\ scopeChanges[s] \in Nat
      /\ retiredScopes[s] \in Seq(Scopes)
      /\ MaxRetiredScopes \in Nat \ {0}
      /\ \A r \in acceptedRevs[s] : r[1] \in Scopes /\ r[2] \in Nat
  BY ObservationParts, StoreAssumption DEF StoreTypeOK, NoSequence
<1>2. /\ Len(retiredScopes'[s]) <= MaxRetiredScopes
      /\ RemembersScopes(s)' => Len(retiredScopes'[s]) = scopeChanges'[s] - 1
      /\ RemembersScopes(s)' => RemembersScopes(s)
      /\ RemembersScopes(s)' /\ EntersScope(o) /\ curScope[s] # NoScope
           => Range(retiredScopes'[s]) = Range(retiredScopes[s]) \cup {curScope[s]}
      /\ ~EntersScope(o) \/ curScope[s] = NoScope => retiredScopes'[s] = retiredScopes[s]
  <2>1. CASE EntersScope(o) /\ curScope[s] # NoScope
    <3>1. curScope[s] \in Scopes
      BY <2>1, <1>1 DEF StoreTypeOK
    <3>2. retiredScopes'[s] = PushRetired(retiredScopes[s], curScope[s], MaxRetiredScopes)
      BY <2>1, AdvanceStreamEffect
    <3>3. scopeChanges'[s] = scopeChanges[s] + 1
      BY <2>1, AdvanceStreamEffect
    <3>4. Len(retiredScopes[s]) <= MaxRetiredScopes
      BY <1>1 DEF StreamInv, ScopesRemembered
    <3>5. Len(retiredScopes'[s]) <= MaxRetiredScopes
      BY <1>1, <3>1, <3>2, <3>4, PushRetiredLength
    <3>6. ASSUME RemembersScopes(s)'
          PROVE  /\ RemembersScopes(s)
                 /\ Len(retiredScopes[s]) = scopeChanges[s] - 1
                 /\ Len(retiredScopes[s]) < MaxRetiredScopes
      <4>1. scopeChanges'[s] <= MaxRetiredScopes + 1
        BY <3>6 DEF RemembersScopes
      <4>2. RemembersScopes(s)
        BY <1>1, <3>3, <4>1 DEF RemembersScopes
      <4>3. Len(retiredScopes[s]) = scopeChanges[s] - 1
        BY <1>1, <2>1, <4>2 DEF StreamInv, ScopesRemembered
      <4>4. QED
        BY <1>1, <3>3, <4>1, <4>2, <4>3
    <3>7. ASSUME RemembersScopes(s)'
          PROVE  /\ Len(retiredScopes'[s]) = scopeChanges'[s] - 1
                 /\ Range(retiredScopes'[s]) = Range(retiredScopes[s]) \cup {curScope[s]}
      <4>1. Len(PushRetired(retiredScopes[s], curScope[s], MaxRetiredScopes))
              = Len(retiredScopes[s]) + 1
        BY <1>1, <3>1, <3>4, <3>6, <3>7, PushRetiredLength
      <4>2. Range(PushRetired(retiredScopes[s], curScope[s], MaxRetiredScopes))
              = Range(retiredScopes[s]) \cup {curScope[s]}
        BY <1>1, <3>1, <3>6, <3>7, PushRetiredRange
      <4>3. QED
        BY <1>1, <3>2, <3>3, <3>6, <3>7, <4>1, <4>2
    <3>8. QED
      BY <2>1, <3>5, <3>6, <3>7
  <2>2. CASE EntersScope(o) /\ curScope[s] = NoScope
    <3>1. retiredScopes'[s] = retiredScopes[s] /\ scopeChanges'[s] = scopeChanges[s] + 1
      BY <2>2, AdvanceStreamEffect
    <3>2. retiredScopes[s] = <<>> /\ scopeChanges[s] = 0
      BY <1>1, <2>2 DEF StreamInv, ScopesRemembered
    <3>3. QED
      BY <1>1, <2>2, <3>1, <3>2 DEF RemembersScopes
  <2>3. CASE ~EntersScope(o)
    <3>1. retiredScopes'[s] = retiredScopes[s] /\ scopeChanges'[s] = scopeChanges[s]
      BY <2>3, AdvanceStreamEffect
    <3>2. curScope[s] # NoScope
      BY <1>1, <2>3 DEF EntersScope
    <3>3. RemembersScopes(s)' => RemembersScopes(s)
      BY <3>1 DEF RemembersScopes
    <3>4. QED
      BY <1>1, <2>3, <3>1, <3>2, <3>3 DEF StreamInv, ScopesRemembered
  <2>4. QED
    BY <2>1, <2>2, <2>3
<1>3. curScope'[s] = sc
  BY AdvanceStreamEffect
<1>4. \A x \in SourceIds \ {s} : acceptedRevs'[x] = acceptedRevs[x] /\ lastSeq'[x] = lastSeq[x]
  BY <1>1 DEF StoreTypeOK
<1>5. ScopesRemembered'
  <2> SUFFICES ASSUME NEW x \in SourceIds
               PROVE  /\ Len(retiredScopes'[x]) <= MaxRetiredScopes
                      /\ curScope'[x] = NoScope =>
                           /\ scopeChanges'[x] = 0 /\ retiredScopes'[x] = <<>>
                           /\ lastSeq'[x] = NoSequence /\ acceptedRevs'[x] = {}
                      /\ curScope'[x] # NoScope /\ RemembersScopes(x)' =>
                           Len(retiredScopes'[x]) = scopeChanges'[x] - 1
    BY DEF ScopesRemembered
  <2>1. CASE x = s
    BY <2>1, <1>1, <1>2, <1>3
  <2>2. CASE x # s
    BY <2>2, <1>4, AdvanceStreamEffect DEF StreamInv, ScopesRemembered, RemembersScopes
  <2>3. QED
    BY <2>1, <2>2
<1>6. ASSUME RemembersScopes(s)', NEW r \in acceptedRevs'[s]
      PROVE  \/ r[1] = sc /\ r[2] <= lastSeq'[s]
             \/ r[1] # sc /\ r[1] \in Range(retiredScopes'[s])
  <2>1. CASE r = <<sc, o.sequence>> /\ lastSeq' = [lastSeq EXCEPT ![o.source] = o.sequence]
    <3>1. lastSeq'[s] = o.sequence
      BY <2>1, <1>1 DEF StoreTypeOK
    <3>2. r[1] = sc /\ r[2] = o.sequence
      BY <2>1
    <3>3. QED
      BY <1>1, <3>1, <3>2
  <2>2. CASE r \in acceptedRevs[s]
    <3>1. \/ r[1] = curScope[s] /\ r[2] <= lastSeq[s]
          \/ r[1] # curScope[s] /\ r[1] \in Range(retiredScopes[s])
      BY <1>1, <1>2, <1>6, <2>2 DEF StreamInv, AcceptedRevisionsFenced
    <3>2. r[1] \in Scopes /\ r[2] \in Nat
      BY <1>1, <2>2
    <3>3. curScope[s] # NoScope
      BY <1>1, <2>2 DEF StreamInv, ScopesRemembered
    <3>4. CASE EntersScope(o)
      <4>1. sc \notin Range(retiredScopes[s]) /\ sc # curScope[s]
        BY <3>4 DEF ScopeBehind, EntersScope
      <4>2. Range(retiredScopes'[s]) = Range(retiredScopes[s]) \cup {curScope[s]}
        BY <1>2, <1>6, <3>3, <3>4
      <4>3. QED
        BY <3>1, <4>1, <4>2
    <3>5. CASE ~EntersScope(o)
      <4>1. sc = curScope[s] /\ retiredScopes'[s] = retiredScopes[s]
        BY <3>5, <1>2 DEF EntersScope
      <4>2. BaseSequence(o) = lastSeq[s]
        BY <3>5 DEF BaseSequence
      <4>3. lastSeq'[s] = lastSeq[s] \/ lastSeq'[s] = o.sequence
        BY <1>1, <4>2 DEF StoreTypeOK
      <4>4. lastSeq[s] = NoSequence \/ o.sequence > lastSeq[s]
        BY <1>1, <4>2 DEF RevisionReplayed
      <4>5. lastSeq[s] <= lastSeq'[s]
        BY <1>1, <4>3, <4>4 DEF NoSequence
      <4>6. QED
        BY <1>1, <3>1, <3>2, <4>1, <4>3, <4>5
    <3>6. QED
      BY <3>4, <3>5
  <2>3. QED
    BY <1>1, <2>1, <2>2 DEF StoreTypeOK
<1>7. AcceptedRevisionsFenced'
  <2> SUFFICES ASSUME NEW x \in SourceIds, RemembersScopes(x)', NEW r \in acceptedRevs'[x]
               PROVE  \/ r[1] = curScope'[x] /\ r[2] <= lastSeq'[x]
                      \/ r[1] # curScope'[x] /\ r[1] \in Range(retiredScopes'[x])
    BY DEF AcceptedRevisionsFenced
  <2>1. CASE x = s
    BY <2>1, <1>3, <1>6
  <2>2. CASE x # s
    BY <2>2, <1>4, AdvanceStreamEffect
    DEF StreamInv, AcceptedRevisionsFenced, RemembersScopes
  <2>3. QED
    BY <2>1, <2>2
<1>8. QED
  BY <1>5, <1>7 DEF StreamInv

\* A step that leaves the streams alone keeps the stream invariant.
LEMMA StreamUntouched ==
  ASSUME StreamInv, UNCHANGED <<streamVars, acceptedRevs>>
  PROVE  StreamInv'
BY DEF StreamInv, ScopesRemembered, AcceptedRevisionsFenced, RemembersScopes, streamVars

\* Only observations that reach the store move a stream.
LEMMA ObservationStream ==
  ASSUME TypeOK, StreamInv, NEW o \in Observation, ApplyObservation(o)
  PROVE  StreamInv'
<1>1. CASE FenceUnheard(o)
  BY <1>1, StreamUntouched DEF FenceUnheard, RefuseUntouched
<1>2. CASE FenceUnknownLink(o)
  BY <1>2, StreamUntouched DEF FenceUnknownLink, storeVars
<1>3. CASE FenceGeneration(o)
  BY <1>3, StreamUntouched DEF FenceGeneration, storeVars
<1>4. CASE FenceInStore(o)
  <2>1. CASE RefuseUntouched
    BY <2>1, StreamUntouched DEF RefuseUntouched
  <2>2. CASE ~RefusedUntouched(o, o.generation) /\ RefuseLate(o)
    <3>1. ~ScopeBehind(o) /\ ~RevisionReplayed(o)
      BY <2>2 DEF RefusedUntouched
    <3>2. /\ AdvanceStream(o) /\ acceptedRevs' = acceptedRevs
          /\ lastSeq' = [lastSeq EXCEPT ![o.source] = BaseSequence(o)]
      BY <2>2 DEF RefuseLate
    <3>3. StoreTypeOK
      BY DEF TypeOK
    <3>4. QED
      BY <3>1, <3>2, <3>3, StreamStep
  <2>3. QED
    BY <1>4, <2>1, <2>2 DEF FenceInStore
<1>5. CASE \E v \in Verdicts : Accept(o, v)
  <2>1. ~ScopeBehind(o) /\ ~RevisionReplayed(o)
    BY <1>5 DEF Accept, RefusedUntouched
  <2>2. /\ AdvanceStream(o)
        /\ lastSeq' = [lastSeq EXCEPT ![o.source] = o.sequence]
        /\ acceptedRevs' = [acceptedRevs EXCEPT ![o.source] =
                               @ \cup {<<ScopeOf(o), o.sequence>>}]
    BY <1>5 DEF Accept, Admit
  <2>3. StoreTypeOK
    BY DEF TypeOK
  <2>4. QED
    BY <2>1, <2>2, <2>3, StreamStep
<1>6. QED
  BY <1>1, <1>2, <1>3, <1>4, <1>5 DEF ApplyObservation

\* No record breaks the stream invariant.
LEMMA StreamInvStep ==
  ASSUME TypeOK, StreamInv, [Next]_vars
  PROVE  StreamInv'
<1>1. CASE \E s \in SourceIds, a \in Authorities, p \in Provenances, r \in BOOLEAN :
             ApplySource(s, a, p, r)
  BY <1>1, StreamUntouched DEF ApplySource, storeVars
<1>2. CASE \E l \in LinkIds, g \in Generations : ApplyLink(l, g) \/ RejectLink(l, g)
  BY <1>2, StreamUntouched DEF ApplyLink, RejectLink, storeVars
<1>3. CASE UNCHANGED vars
  BY <1>3, StreamUntouched DEF vars, storeVars
<1>4. CASE \E o \in Observation : ApplyObservation(o)
  BY <1>4, ObservationStream
<1>5. QED
  BY <1>1, <1>2, <1>3, <1>4 DEF Next

\* The stream invariant holds throughout, for any number of sources, scopes and
\* revisions and any bound on the retired list.
LEMMA StreamInvariant == Spec => []StreamInv
<1>1. Init => StreamInv
  BY StoreAssumption DEF Init, StoreInit, StreamInv, ScopesRemembered,
     AcceptedRevisionsFenced
<1>2. TypeOK /\ StreamInv /\ [Next]_vars => StreamInv'
  BY StreamInvStep
<1>3. QED
  BY <1>1, <1>2, TypeCorrect, PTL DEF Spec

\* At-most-once ingest (EvidenceStore::accept): as long as a source has not
\* changed scope more often than the retired list can hold, nothing it ever
\* had accepted can be accepted again.
THEOREM AtMostOnce == Spec => []AcceptedRevisionsFenced
BY StreamInvariant, PTL DEF StreamInv

\* The bounded list of retired scopes forgets nothing before its bound is hit.
THEOREM RetiredScopesComplete == Spec => []ScopesRemembered
BY StreamInvariant, PTL DEF StreamInv

(***************************************************************************)
(* Sums.  SumFunction is a fold, which is a recursive function on the      *)
(* subsets of an index set.                                                *)
(***************************************************************************)
\* Induction on subsets: a collection that contains every subset of S all of
\* whose strict subsets it contains, contains them all.
LEMMA SubsetInduction ==
  ASSUME NEW S, IsFiniteSet(S), NEW G,
         \A T \in SUBSET S : (\A U \in (SUBSET T) \ {T} : U \in G) => T \in G
  PROVE  \A T \in SUBSET S : T \in G
<1> DEFINE Bad == {T \in SUBSET S : T \notin G}
           R == StrictSubsetOrdering(S)
<1> SUFFICES ASSUME Bad # {} PROVE FALSE
  OBVIOUS
<1>1. Bad \subseteq FiniteSubsetsOf(S)
  BY FS_Subset DEF FiniteSubsetsOf
<1>2. IsWellFoundedOn(R, FiniteSubsetsOf(S))
  BY FS_StrictSubsetOrderingWellFounded
<1> HIDE DEF R, Bad
<1>3. PICK T \in Bad : \A U \in Bad : ~ (<<U, T>> \in R)
  BY <1>1, <1>2, WFMin, Zenon
<1>4. ASSUME NEW U \in (SUBSET T) \ {T} PROVE U \in G
  <2>1. <<U, T>> \in R
    BY <1>3, <1>4 DEF R, Bad, StrictSubsetOrdering
  <2>2. QED
    BY <1>3, <1>4, <2>1 DEF Bad
<1>5. QED
  BY <1>3, <1>4 DEF Bad

\* The fold's own choice of an element, and one step of its recursion.
Picked(s) == CHOOSE x \in s : TRUE
SumStep(f, S, it) ==
  [s \in SUBSET S |-> IF s = {} THEN 0 ELSE f[Picked(s)] + it[s \ {Picked(s)}]]

\* A sum is the value of the recursive function at the whole set.
LEMMA SumUnfolded ==
  ASSUME NEW f, NEW S
  PROVE  SumFunctionOnSet(f, S) = (CHOOSE it : it = SumStep(f, S, it))[S]
BY DEF SumFunctionOnSet, FoldFunctionOnSet, MapThenFoldSet, SumStep, Picked

\* Two such functions, over a set and over a subset, agree where both are.
LEMMA SumStepUnique ==
  ASSUME NEW f, NEW S, IsFiniteSet(S), NEW T \in SUBSET S,
         NEW a, a = SumStep(f, S, a), NEW b, b = SumStep(f, T, b)
  PROVE  \A s \in SUBSET T : a[s] = b[s]
<1> DEFINE G == {s \in SUBSET T : a[s] = b[s]}
<1>1. IsFiniteSet(T)
  BY FS_Subset
<1>2. ASSUME NEW s \in SUBSET T, \A U \in (SUBSET s) \ {s} : U \in G PROVE s \in G
  <2>1. CASE s = {}
    BY <2>1 DEF SumStep
  <2>2. CASE s # {}
    <3>1. Picked(s) \in s
      BY <2>2 DEF Picked
    <3>2. s \ {Picked(s)} \in (SUBSET s) \ {s}
      BY <3>1
    <3>3. a[s \ {Picked(s)}] = b[s \ {Picked(s)}]
      BY <3>2, <1>2
    <3>4. a[s] = f[Picked(s)] + a[s \ {Picked(s)}]
      BY <2>2 DEF SumStep
    <3>5. b[s] = f[Picked(s)] + b[s \ {Picked(s)}]
      BY <2>2 DEF SumStep
    <3>6. QED
      BY <3>3, <3>4, <3>5
  <2>3. QED
    BY <2>1, <2>2
<1> HIDE DEF G
<1>3. \A s \in SUBSET T : s \in G
  BY <1>1, <1>2, SubsetInduction
<1>4. QED
  BY <1>3 DEF G

SumOver(f, S) == (CHOOSE it : it = SumStep(f, S, it))[S]

\* There is one.  It is put together from those of the strict subsets.
LEMMA SumStepExists ==
  ASSUME NEW f, NEW S, IsFiniteSet(S)
  PROVE  \E it : it = SumStep(f, S, it)
<1> DEFINE G == {T \in SUBSET S : \E it : it = SumStep(f, T, it)}
<1>1. ASSUME NEW T \in SUBSET S, \A U \in (SUBSET T) \ {T} : U \in G PROVE T \in G
  <2> DEFINE g(U) == CHOOSE it : it = SumStep(f, U, it)
             it == [s \in SUBSET T |-> IF s = {} THEN 0
                     ELSE f[Picked(s)] + SumOver(f, s \ {Picked(s)})]
  <2>1. \A U \in (SUBSET T) \ {T} : g(U) = SumStep(f, U, g(U))
    <3> TAKE U \in (SUBSET T) \ {T}
    <3>1. \E h : h = SumStep(f, U, h)
      BY <1>1
    <3>2. QED
      BY <3>1
  <2>2. \A s \in SUBSET T : s # {} => s \ {Picked(s)} \in (SUBSET T) \ {T}
    BY DEF Picked
  <2>3. ASSUME NEW s \in (SUBSET T) \ {T} PROVE it[s] = SumOver(f, s)
    <3> HIDE DEF g
    <3>1. g(s) = SumStep(f, s, g(s))
      BY <2>1
    <3>2. SumOver(f, s) = g(s)[s]
      BY DEF SumOver, g
    <3>3. CASE s = {}
      <4>1. g(s)[s] = 0
        BY <3>1, <3>3 DEF SumStep
      <4>2. QED
        BY <3>2, <3>3, <4>1
    <3>4. CASE s # {}
      <4> DEFINE U == s \ {Picked(s)}
      <4>1. U \in (SUBSET T) \ {T} /\ U \in SUBSET s
        BY <2>2, <3>4
      <4>2. g(U) = SumStep(f, U, g(U))
        BY <2>1, <4>1
      <4>3. IsFiniteSet(s)
        BY FS_Subset
      <4>4. g(s)[U] = g(U)[U]
        BY <3>1, <4>1, <4>2, <4>3, SumStepUnique
      <4>5. SumOver(f, U) = g(U)[U]
        BY DEF SumOver, g
      <4>6. g(s)[s] = f[Picked(s)] + g(s)[U]
        BY <3>1, <3>4 DEF SumStep
      <4>7. QED
        BY <3>2, <3>4, <4>4, <4>5, <4>6
    <3>5. QED
      BY <3>3, <3>4
  <2>4. it = SumStep(f, T, it)
    <3> HIDE DEF g
    <3>1. \A s \in SUBSET T : s # {} =>
            it[s \ {Picked(s)}] = SumOver(f, s \ {Picked(s)})
      BY <2>2, <2>3
    <3>2. QED
      BY <3>1 DEF SumStep
  <2>5. QED
    BY <2>4
<1> HIDE DEF G
<1>2. \A T \in SUBSET S : T \in G
  BY <1>1, SubsetInduction
<1>3. QED
  BY <1>2 DEF G

\* What a sum is, by the fold's own choice of an element.
LEMMA SumRecursion ==
  ASSUME NEW f, NEW S, IsFiniteSet(S)
  PROVE  /\ S = {} => SumFunctionOnSet(f, S) = 0
         /\ S # {} =>
              /\ Picked(S) \in S
              /\ SumFunctionOnSet(f, S) =
                   f[Picked(S)] + SumFunctionOnSet(f, S \ {Picked(S)})
<1> DEFINE g(T) == CHOOSE it : it = SumStep(f, T, it)
           U == S \ {Picked(S)}
<1>1. IsFiniteSet(U) /\ U \in SUBSET S
  BY FS_Subset
<1>2. g(S) = SumStep(f, S, g(S))
  <2>1. \E it : it = SumStep(f, S, it)
    BY SumStepExists
  <2>2. QED
    BY <2>1
<1>3. g(U) = SumStep(f, U, g(U))
  <2>1. \E it : it = SumStep(f, U, it)
    BY <1>1, SumStepExists
  <2>2. QED
    BY <2>1
<1>4. SumFunctionOnSet(f, S) = g(S)[S] /\ SumFunctionOnSet(f, U) = g(U)[U]
  BY SumUnfolded
<1> HIDE DEF g
<1>5. g(S)[U] = g(U)[U]
  BY <1>1, <1>2, <1>3, SumStepUnique
<1>6. S = {} => g(S)[S] = 0
  BY <1>2 DEF SumStep
<1>7. S # {} => g(S)[S] = f[Picked(S)] + g(S)[U]
  BY <1>2 DEF SumStep
<1>8. S # {} => Picked(S) \in S
  BY DEF Picked
<1>9. QED
  BY <1>4, <1>5, <1>6, <1>7, <1>8

\* The sum of naturals is one.
LEMMA SumIsNatural ==
  ASSUME NEW D, IsFiniteSet(D), NEW f \in [D -> Nat]
  PROVE  SumFunction(f) \in Nat
<1> DEFINE sum(T) == SumFunctionOnSet(f, T)
           G == {T \in SUBSET D : sum(T) \in Nat}
<1> HIDE DEF sum
<1>1. ASSUME NEW T \in SUBSET D, \A U \in (SUBSET T) \ {T} : U \in G PROVE T \in G
  <2>1. IsFiniteSet(T)
    BY FS_Subset
  <2>2. /\ T = {} => sum(T) = 0
        /\ T # {} => Picked(T) \in T /\ sum(T) = f[Picked(T)] + sum(T \ {Picked(T)})
    BY <2>1, SumRecursion DEF sum
  <2>3. T # {} => T \ {Picked(T)} \in G
    BY <1>1, <2>2
  <2>4. QED
    BY <2>2, <2>3
<1> HIDE DEF G
<1>2. D \in G
  BY <1>1, SubsetInduction
<1>3. SumFunction(f) = sum(D)
  BY DEF SumFunction, sum
<1>4. QED
  BY <1>2, <1>3 DEF G

\* Zeros add up to zero.
LEMMA SumOfZeros ==
  ASSUME NEW D, IsFiniteSet(D)
  PROVE  SumFunction([x \in D |-> 0]) = 0
<1> DEFINE f == [x \in D |-> 0]
           sum(T) == SumFunctionOnSet(f, T)
           G == {T \in SUBSET D : sum(T) = 0}
<1>1. DOMAIN f = D /\ \A x \in D : f[x] = 0
  OBVIOUS
<1> HIDE DEF sum, f
<1>2. ASSUME NEW T \in SUBSET D, \A U \in (SUBSET T) \ {T} : U \in G PROVE T \in G
  <2>1. IsFiniteSet(T)
    BY FS_Subset
  <2>2. /\ T = {} => sum(T) = 0
        /\ T # {} => Picked(T) \in T /\ sum(T) = f[Picked(T)] + sum(T \ {Picked(T)})
    BY <2>1, SumRecursion DEF sum
  <2>3. T # {} => T \ {Picked(T)} \in G
    BY <1>2, <2>2
  <2>4. QED
    BY <1>1, <2>2, <2>3
<1> HIDE DEF G
<1>3. D \in G
  BY <1>2, SubsetInduction
<1>4. SumFunction(f) = sum(D)
  BY <1>1 DEF SumFunction, sum
<1>5. QED
  BY <1>3, <1>4 DEF G, f

\* Raising one value by one raises the sum by one.
LEMMA SumOfIncrement ==
  ASSUME NEW D, IsFiniteSet(D), NEW f \in [D -> Nat], NEW x \in D
  PROVE  SumFunction([f EXCEPT ![x] = @ + 1]) = SumFunction(f) + 1
<1> DEFINE h == [f EXCEPT ![x] = @ + 1]
           a(T) == SumFunctionOnSet(f, T)
           b(T) == SumFunctionOnSet(h, T)
           G == {T \in SUBSET D : /\ a(T) \in Nat
                                   /\ b(T) = a(T) + (IF x \in T THEN 1 ELSE 0)}
<1>1. h \in [D -> Nat] /\ h[x] = f[x] + 1 /\ \A y \in D \ {x} : h[y] = f[y]
  OBVIOUS
<1> HIDE DEF a, b, h
<1>2. ASSUME NEW T \in SUBSET D, \A U \in (SUBSET T) \ {T} : U \in G PROVE T \in G
  <2>1. IsFiniteSet(T)
    BY FS_Subset
  <2>2. /\ T = {} => a(T) = 0 /\ b(T) = 0
        /\ T # {} => /\ Picked(T) \in T
                     /\ a(T) = f[Picked(T)] + a(T \ {Picked(T)})
                     /\ b(T) = h[Picked(T)] + b(T \ {Picked(T)})
    BY <2>1, SumRecursion DEF a, b
  <2>3. CASE T = {}
    BY <2>2, <2>3
  <2>4. CASE T # {}
    <3> DEFINE U == T \ {Picked(T)}
    <3>1. U \in G
      BY <1>2, <2>2, <2>4
    <3>2. (IF x \in T THEN 1 ELSE 0) =
            (IF x \in U THEN 1 ELSE 0) + (IF x = Picked(T) THEN 1 ELSE 0)
      BY <2>2, <2>4
    <3>3. /\ Picked(T) \in D /\ f[Picked(T)] \in Nat
          /\ h[Picked(T)] = f[Picked(T)] + (IF x = Picked(T) THEN 1 ELSE 0)
      BY <1>1, <2>2, <2>4
    <3>4. a(U) \in Nat /\ b(U) = a(U) + (IF x \in U THEN 1 ELSE 0)
      BY <3>1
    <3>5. QED
      BY <2>2, <2>4, <3>2, <3>3, <3>4
  <2>5. QED
    BY <2>3, <2>4
<1> HIDE DEF G
<1>3. D \in G
  BY <1>2, SubsetInduction
<1>4. SumFunction(f) = a(D) /\ SumFunction(h) = b(D)
  BY <1>1 DEF SumFunction, a, b
<1>5. QED
  BY <1>3, <1>4 DEF G, h

(***************************************************************************)
(* Accounting: the runtime's, the store's and the links' counters.         *)
(***************************************************************************)
\* The counters of one observation that was accepted.
CountsAccepted ==
  /\ submitted' = submitted + 1 /\ accepted' = accepted + 1
  /\ totalAccepted' = totalAccepted + 1
  /\ \E l \in LinkIds : linkAccepted' = [linkAccepted EXCEPT ![l] = @ + 1]
  /\ UNCHANGED <<fenced, totalFenced, ownFenced, linkFenced>>

\* The counters of one that was fenced, by the store or by the runtime itself.
CountsFenced ==
  /\ submitted' = submitted + 1 /\ fenced' = fenced + 1
  /\ \/ totalFenced' = totalFenced + 1 /\ UNCHANGED ownFenced
     \/ ownFenced' = ownFenced + 1 /\ UNCHANGED totalFenced
  /\ \/ UNCHANGED linkFenced
     \/ \E l \in LinkIds : linkFenced' = [linkFenced EXCEPT ![l] = @ + 1]
  /\ UNCHANGED <<accepted, totalAccepted, linkAccepted>>

CountsNothing ==
  UNCHANGED <<submitted, accepted, fenced, totalAccepted, totalFenced, ownFenced,
              linkAccepted, linkFenced>>

\* Every step counts one observation once in each place, or none.
LEMMA StepCounts ==
  ASSUME [Next]_vars
  PROVE  CountsAccepted \/ CountsFenced \/ CountsNothing
<1>1. ASSUME NEW o \in Observation, FenceUnheard(o) PROVE CountsFenced
  BY <1>1 DEF FenceUnheard, Submit, RefuseUntouched, CountFence, CountsFenced, linkVars
<1>2. ASSUME NEW o \in Observation, FenceUnknownLink(o) PROVE CountsFenced
  BY <1>2 DEF FenceUnknownLink, Submit, CountsFenced, linkVars, storeVars
<1>3. ASSUME NEW o \in Observation, FenceGeneration(o) PROVE CountsFenced
  BY <1>3, ObservationParts DEF FenceGeneration, Submit, CountsFenced, storeVars
<1>4. ASSUME NEW o \in Observation, FenceInStore(o) PROVE CountsFenced
  BY <1>4, ObservationParts DEF FenceInStore, ReachesStore, Submit, RefuseUntouched,
     RefuseLate, CountFence, CountsFenced
<1>5. ASSUME NEW o \in Observation, NEW v \in Verdicts, Accept(o, v) PROVE CountsAccepted
  BY <1>5, ObservationParts DEF Accept, ReachesStore, Submit, Admit, CountsAccepted
<1>6. ASSUME NEW s \in SourceIds, NEW a \in Authorities, NEW p \in Provenances,
             NEW r \in BOOLEAN, ApplySource(s, a, p, r)
      PROVE  CountsNothing
  BY <1>6 DEF ApplySource, CountsNothing, linkVars, storeVars
<1>7. ASSUME NEW l \in LinkIds, NEW g \in Generations, ApplyLink(l, g) \/ RejectLink(l, g)
      PROVE  CountsNothing
  BY <1>7 DEF ApplyLink, RejectLink, CountsNothing, registryVars, linkVars, storeVars
<1>8. CASE UNCHANGED vars
  BY <1>8 DEF vars, runtimeVars, registryVars, linkVars, storeVars, CountsNothing
<1>9. QED
  BY <1>1, <1>2, <1>3, <1>4, <1>5, <1>6, <1>7, <1>8 DEF Next, ApplyObservation

\* What that does to the sums over all links.
LEMMA StepSums ==
  ASSUME TypeOK, [Next]_vars
  PROVE  /\ SumFunction(linkAccepted) \in Nat /\ SumFunction(linkFenced) \in Nat
         /\ CountsAccepted =>
              SumFunction(linkAccepted') = SumFunction(linkAccepted) + 1
         /\ CountsFenced =>
              SumFunction(linkFenced') \in {SumFunction(linkFenced), SumFunction(linkFenced) + 1}
<1>1. /\ IsFiniteSet(LinkIds)
      /\ linkAccepted \in [LinkIds -> Nat] /\ linkFenced \in [LinkIds -> Nat]
  BY RegistryAssumption DEF TypeOK, RegistryTypeOK
<1>2. \A l \in LinkIds :
        /\ SumFunction([linkAccepted EXCEPT ![l] = @ + 1]) = SumFunction(linkAccepted) + 1
        /\ SumFunction([linkFenced EXCEPT ![l] = @ + 1]) = SumFunction(linkFenced) + 1
  BY <1>1, SumOfIncrement
<1>3. SumFunction(linkAccepted) \in Nat /\ SumFunction(linkFenced) \in Nat
  BY <1>1, SumIsNatural
<1>4. CountsAccepted => SumFunction(linkAccepted') = SumFunction(linkAccepted) + 1
  BY <1>2 DEF CountsAccepted
<1>5. CountsFenced =>
        SumFunction(linkFenced') \in {SumFunction(linkFenced), SumFunction(linkFenced) + 1}
  BY <1>2 DEF CountsFenced
<1>6. QED
  BY <1>3, <1>4, <1>5

\* Every observation is counted exactly once and the runtime, the store and the
\* links agree, whichever way each one left apply_observation_locked.
THEOREM EveryObservationCounted == Spec => []Accounting
<1>1. Init => Accounting
  <2> SUFFICES ASSUME Init PROVE Accounting
    OBVIOUS
  <2>1. linkAccepted = [l \in LinkIds |-> 0] /\ linkFenced = [l \in LinkIds |-> 0]
    BY DEF Init, RegistryInit
  <2>2. SumFunction(linkAccepted) = 0 /\ SumFunction(linkFenced) = 0
    BY <2>1, RegistryAssumption, SumOfZeros
  <2>3. QED
    BY <2>2 DEF Init, StoreInit, Accounting
<1>2. TypeOK /\ Accounting /\ [Next]_vars => Accounting'
  <2> SUFFICES ASSUME TypeOK, Accounting, [Next]_vars PROVE Accounting'
    OBVIOUS
  <2>1. /\ submitted \in Nat /\ accepted \in Nat /\ fenced \in Nat /\ ownFenced \in Nat
        /\ totalAccepted \in Nat /\ totalFenced \in Nat
    BY DEF TypeOK, StoreTypeOK
  <2>2. CASE CountsAccepted
    <3>1. /\ SumFunction(linkAccepted') = SumFunction(linkAccepted) + 1
          /\ SumFunction(linkFenced') = SumFunction(linkFenced)
      BY <2>2, StepSums DEF CountsAccepted
    <3>2. /\ submitted' = accepted' + fenced' /\ accepted' = totalAccepted'
          /\ fenced' = totalFenced' + ownFenced'
      BY <2>1, <2>2 DEF CountsAccepted, Accounting
    <3>3. /\ SumFunction(linkAccepted') = accepted'
          /\ SumFunction(linkFenced') <= fenced'
      BY <2>1, <2>2, <3>1, StepSums DEF CountsAccepted, Accounting
    <3>4. QED
      BY <3>2, <3>3 DEF Accounting
  <2>3. CASE CountsFenced
    BY <2>1, <2>3, StepSums DEF CountsFenced, Accounting
  <2>4. CASE CountsNothing
    BY <2>4 DEF CountsNothing, Accounting
  <2>5. QED
    BY <2>2, <2>3, <2>4, StepCounts
<1>3. QED
  BY <1>1, <1>2, TypeCorrect, PTL DEF Spec
=============================================================================
