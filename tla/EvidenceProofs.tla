--------------------------- MODULE EvidenceProofs ---------------------------
(***************************************************************************)
(* Proofs about the evidence Ingest retains, for every value of the        *)
(* constants: it keeps its standing, its generations and scopes stay       *)
(* fenced, no counter delta spans a loss, and no step revives it.          *)
(***************************************************************************)
EXTENDS IngestProofs

(***************************************************************************)
(* What the bounded push leaves where.                                     *)
(***************************************************************************)
\* The pushed item is last; before it is the list, or the list without its
\* oldest entry.
LEMMA PushRetiredShape ==
  ASSUME NEW T, NEW list \in Seq(T), NEW item \in T, NEW bound \in Nat \ {0}
  PROVE  LET p == PushRetired(list, item, bound) IN
         \E d \in {0, 1} :
           /\ p \in Seq(T) /\ Len(p) = Len(list) + 1 - d /\ Len(p) >= 1
           /\ p[Len(p)] = item
           /\ \A i \in 1..(Len(p) - 1) : i + d \in 1..Len(list) /\ p[i] = list[i + d]
<1> DEFINE p == PushRetired(list, item, bound)
<1>1. CASE Len(list) < bound
  <2>1. p = Append(list, item)
    BY <1>1 DEF PushRetired
  <2>2. /\ p \in Seq(T) /\ Len(p) = Len(list) + 1 - 0 /\ Len(p) >= 1
        /\ p[Len(p)] = item
        /\ \A i \in 1..(Len(p) - 1) : i + 0 \in 1..Len(list) /\ p[i] = list[i + 0]
    BY <2>1
  <2>3. QED
    BY <2>2
<1>2. CASE ~(Len(list) < bound)
  <2>1. list # <<>> /\ Len(list) >= 1
    BY <1>2
  <2>2. /\ Tail(list) \in Seq(T) /\ Len(Tail(list)) = Len(list) - 1
        /\ \A i \in 1..(Len(list) - 1) : Tail(list)[i] = list[i + 1]
    BY <2>1
  <2>3. p = Append(Tail(list), item)
    BY <1>2 DEF PushRetired
  <2>4. /\ p \in Seq(T) /\ Len(p) = Len(list) /\ p[Len(p)] = item
        /\ \A i \in 1..(Len(p) - 1) : p[i] = Tail(list)[i]
    BY <2>1, <2>2, <2>3
  <2>5. /\ Len(p) = Len(list) + 1 - 1 /\ Len(p) >= 1
        /\ \A i \in 1..(Len(p) - 1) : i + 1 \in 1..Len(list) /\ p[i] = list[i + 1]
    BY <2>1, <2>2, <2>4
  <2>6. QED
    BY <2>4, <2>5
<1>3. QED
  BY <1>1, <1>2

\* Everything in the list afterwards was there before or is the pushed item.
LEMMA PushRetiredElements ==
  ASSUME NEW T, NEW list \in Seq(T), NEW item \in T, NEW bound \in Nat \ {0}
  PROVE  \A i \in DOMAIN PushRetired(list, item, bound) :
           \/ PushRetired(list, item, bound)[i] = item
           \/ \E j \in DOMAIN list : PushRetired(list, item, bound)[i] = list[j]
<1> DEFINE p == PushRetired(list, item, bound)
<1> HIDE DEF p
<1>1. PICK d \in {0, 1} :
        /\ p \in Seq(T) /\ Len(p) = Len(list) + 1 - d /\ Len(p) >= 1
        /\ p[Len(p)] = item
        /\ \A i \in 1..(Len(p) - 1) : i + d \in 1..Len(list) /\ p[i] = list[i + d]
  BY PushRetiredShape DEF p
<1>2. DOMAIN p = 1..Len(p) /\ Len(p) \in Nat /\ DOMAIN list = 1..Len(list)
  BY <1>1
<1>3. \A i \in DOMAIN p : p[i] = item \/ \E j \in DOMAIN list : p[i] = list[j]
  <2> TAKE i \in DOMAIN p
  <2>1. CASE i = Len(p)
    BY <1>1, <2>1
  <2>2. CASE i # Len(p)
    <3>1. i \in 1..(Len(p) - 1)
      BY <1>2, <2>2
    <3>2. QED
      BY <1>1, <1>2, <3>1
  <2>3. QED
    BY <2>1, <2>2
<1>4. QED
  BY <1>3 DEF p

(***************************************************************************)
(* The inductive invariant of the retained evidence.                       *)
(***************************************************************************)
\* The list of retired generations is within its bound, empty before the link
\* has a generation, and complete until it first had to forget one.
GenerationsRemembered ==
  \A l \in LinkIds :
    /\ Len(retiredGenerations[l]) <= MaxRetiredGenerations
    /\ RemembersGenerations(l) => Len(retiredGenerations[l]) = generationChanges[l]
    /\ ~HasGeneration(l) => retiredGenerations[l] = <<>> /\ generationChanges[l] = 0

\* Retained evidence comes from an accepted revision of its source.
EvidenceAccepted ==
  \A slot \in Slots : \A i \in DOMAIN history[slot] :
    LET e == history[slot][i] IN <<e.scope, e.sequence>> \in acceptedRevs[e.source]

\* A counter sample comes from an accepted revision; while its scope is current
\* and no gap has been counted since, no later revision of the stream is missing.
Accounted(s, x) ==
  /\ <<x.scope, x.sequence>> \in acceptedRevs[s]
  /\ x.gap_epoch <= gapCount[s]
  /\ x.scope = curScope[s] /\ RemembersScopes(s) /\ x.gap_epoch = gapCount[s] =>
       \A q \in x.sequence..lastSeq[s] : <<x.scope, q>> \in acceptedRevs[s]

SamplesAccounted ==
  \A slot \in Slots, s \in SourceIds :
    /\ Len(continuity[slot][s]) <= 2
    /\ \A i \in DOMAIN continuity[slot][s] : Accounted(s, continuity[slot][s][i])

GenerationInv == GenerationsRemembered /\ GenerationsFenced
SampleInv == SamplesAccounted /\ DeltaNeverSpansLoss

(***************************************************************************)
(* Topology generations.                                                   *)
(***************************************************************************)
\* A generation that is current or remembered as retired.
FencedGeneration(l, g) ==
  g = currentGeneration[l] \/ g \in Range(retiredGenerations[l])

\* observe_generation forgets no generation the list has room for, and never
\* makes one current again that it still remembers.
LEMMA GenerationStep ==
  ASSUME RegistryTypeOK, GenerationsRemembered,
         NEW l \in LinkIds, NEW g \in Generations, ObserveGeneration(l, g)
  PROVE  /\ GenerationsRemembered'
         /\ currentGeneration'[l] # NoGeneration
         /\ \A x \in LinkIds : RemembersGenerations(x)' =>
              /\ RemembersGenerations(x)
              /\ \A h \in Generations : FencedGeneration(x, h) =>
                   /\ FencedGeneration(x, h)'
                   /\ h = currentGeneration'[x] => h = currentGeneration[x]
<1> USE RegistryAssumption
<1>1. /\ retiredGenerations \in [LinkIds -> Seq(Generations)]
      /\ currentGeneration \in [LinkIds -> Generations \cup {NoGeneration}]
      /\ generationChanges \in [LinkIds -> Nat]
      /\ MaxRetiredGenerations \in Nat \ {0}
  BY DEF RegistryTypeOK
<1>2. CASE ~GenerationChanged(l, g)
  <2>1. UNCHANGED generationVars
    BY <1>2 DEF ObserveGeneration
  <2>2. currentGeneration[l] # NoGeneration
    BY <1>2 DEF GenerationChanged, GenerationBehind, HasGeneration
  <2>3. QED
    BY <2>1, <2>2 DEF generationVars, GenerationsRemembered, RemembersGenerations,
       HasGeneration, FencedGeneration
<1>3. CASE GenerationChanged(l, g) /\ ~HasGeneration(l)
  <2>1. /\ currentGeneration' = [currentGeneration EXCEPT ![l] = g]
        /\ UNCHANGED <<retiredGenerations, generationChanges>>
    BY <1>3 DEF ObserveGeneration
  <2>2. currentGeneration[l] = NoGeneration /\ Range(retiredGenerations[l]) = {}
    <3>1. currentGeneration[l] = NoGeneration /\ retiredGenerations[l] = <<>>
      BY <1>3 DEF HasGeneration, GenerationsRemembered
    <3>2. QED
      BY <3>1 DEF Range
  <2>3. GenerationsRemembered'
    BY <1>1, <2>1 DEF GenerationsRemembered, RemembersGenerations, HasGeneration
  <2>4. ASSUME NEW x \in LinkIds, NEW h \in Generations, FencedGeneration(x, h)
        PROVE  /\ FencedGeneration(x, h)'
               /\ h = currentGeneration'[x] => h = currentGeneration[x]
    <3>1. CASE x = l
      BY <2>2, <2>4, <3>1 DEF FencedGeneration
    <3>2. CASE x # l
      BY <1>1, <2>1, <2>4, <3>2 DEF FencedGeneration
    <3>3. QED
      BY <3>1, <3>2
  <2>5. currentGeneration'[l] # NoGeneration
    BY <1>1, <2>1
  <2>6. QED
    BY <2>1, <2>3, <2>4, <2>5 DEF RemembersGenerations
<1>4. CASE GenerationChanged(l, g) /\ HasGeneration(l)
  <2> DEFINE cur == currentGeneration[l]
  <2>1. /\ currentGeneration' = [currentGeneration EXCEPT ![l] = g]
        /\ generationChanges' = [generationChanges EXCEPT ![l] = @ + 1]
        /\ retiredGenerations' = [retiredGenerations EXCEPT ![l] =
             PushRetired(retiredGenerations[l], cur, MaxRetiredGenerations)]
    BY <1>4 DEF ObserveGeneration
  <2>2. cur \in Generations /\ g \notin Range(retiredGenerations[l]) /\ g # cur
    BY <1>1, <1>4 DEF HasGeneration, GenerationChanged, GenerationBehind
  <2>3. Len(PushRetired(retiredGenerations[l], cur, MaxRetiredGenerations))
          <= MaxRetiredGenerations
    BY <1>1, <2>2, PushRetiredLength DEF GenerationsRemembered
  <2>4. ASSUME RemembersGenerations(l)'
        PROVE  /\ RemembersGenerations(l)
               /\ Len(retiredGenerations'[l]) = generationChanges'[l]
               /\ Range(retiredGenerations'[l]) = Range(retiredGenerations[l]) \cup {cur}
    <3>1. generationChanges[l] + 1 <= MaxRetiredGenerations
      BY <1>1, <2>1, <2>4 DEF RemembersGenerations
    <3>2. Len(retiredGenerations[l]) = generationChanges[l] /\ RemembersGenerations(l)
      BY <1>1, <3>1 DEF GenerationsRemembered, RemembersGenerations
    <3>3. Len(retiredGenerations[l]) < MaxRetiredGenerations
      BY <1>1, <3>1, <3>2
    <3>4. Len(PushRetired(retiredGenerations[l], cur, MaxRetiredGenerations))
            = Len(retiredGenerations[l]) + 1
      BY <1>1, <2>2, <3>3, PushRetiredLength
    <3>5. Range(PushRetired(retiredGenerations[l], cur, MaxRetiredGenerations))
            = Range(retiredGenerations[l]) \cup {cur}
      BY <1>1, <2>2, <3>3, PushRetiredRange
    <3>6. QED
      BY <1>1, <2>1, <3>2, <3>4, <3>5
  <2>5. GenerationsRemembered'
    BY <1>1, <2>1, <2>3, <2>4 DEF GenerationsRemembered, RemembersGenerations, HasGeneration
  <2>6. ASSUME NEW x \in LinkIds, RemembersGenerations(x)'
        PROVE  /\ RemembersGenerations(x)
               /\ \A h \in Generations : FencedGeneration(x, h) =>
                    /\ FencedGeneration(x, h)'
                    /\ h = currentGeneration'[x] => h = currentGeneration[x]
    <3>1. CASE x = l
      BY <1>1, <2>1, <2>2, <2>4, <2>6, <3>1 DEF FencedGeneration
    <3>2. CASE x # l
      BY <1>1, <2>1, <2>6, <3>2 DEF FencedGeneration, RemembersGenerations
    <3>3. QED
      BY <3>1, <3>2
  <2>7. QED
    BY <1>1, <2>1, <2>5, <2>6
<1>5. QED
  BY <1>2, <1>3, <1>4

(***************************************************************************)
(* Which steps move what.                                                  *)
(***************************************************************************)
\* Retained evidence, counter samples and accepted revisions change only when
\* the runtime accepts an observation.
LEMMA SlotsOnlyByAccept ==
  ASSUME [Next]_vars
  PROVE  \/ UNCHANGED <<slotVars, acceptedRevs>>
         \/ \E o \in Observation, v \in Verdicts : Accept(o, v)
<1>1. CASE UNCHANGED vars
  BY <1>1 DEF vars, storeVars
<1>2. CASE \E s \in SourceIds, a \in Authorities, p \in Provenances, r \in BOOLEAN :
             ApplySource(s, a, p, r)
  BY <1>2 DEF ApplySource, storeVars
<1>3. CASE \E l \in LinkIds, g \in Generations : ApplyLink(l, g) \/ RejectLink(l, g)
  BY <1>3 DEF ApplyLink, RejectLink, storeVars
<1>4. CASE \E o \in Observation : ApplyObservation(o)
  <2> PICK o \in Observation : ApplyObservation(o)
    BY <1>4
  <2>1. CASE FenceUnheard(o) \/ FenceUnknownLink(o) \/ FenceGeneration(o)
    BY <2>1 DEF FenceUnheard, FenceUnknownLink, FenceGeneration, RefuseUntouched, storeVars
  <2>2. CASE FenceInStore(o)
    BY <2>2 DEF FenceInStore, RefuseUntouched, RefuseLate
  <2>3. CASE \E v \in Verdicts : Accept(o, v)
    BY <2>3
  <2>4. QED
    BY <2>1, <2>2, <2>3 DEF ApplyObservation
<1>5. QED
  BY <1>1, <1>2, <1>3, <1>4 DEF Next

\* The generations of links move only through observe_generation.
LEMMA GenerationsOnlyObserved ==
  ASSUME [Next]_vars
  PROVE  \/ UNCHANGED generationVars
         \/ \E l \in LinkIds, g \in Generations : ObserveGeneration(l, g)
<1>1. CASE UNCHANGED vars
  BY <1>1 DEF vars, registryVars, linkVars
<1>2. CASE \E s \in SourceIds, a \in Authorities, p \in Provenances, r \in BOOLEAN :
             ApplySource(s, a, p, r)
  BY <1>2 DEF ApplySource, linkVars
<1>3. CASE \E l \in LinkIds, g \in Generations : ApplyLink(l, g) \/ RejectLink(l, g)
  BY <1>3 DEF ApplyLink, RegisterLink, RejectLink, registryVars, linkVars
<1>4. CASE \E o \in Observation : ApplyObservation(o)
  <2> PICK o \in Observation : ApplyObservation(o)
    BY <1>4
  <2>1. CASE FenceUnheard(o) \/ FenceUnknownLink(o) \/ FenceGeneration(o)
    BY <2>1 DEF FenceUnheard, FenceUnknownLink, FenceGeneration, linkVars
  <2>2. CASE FenceInStore(o) \/ \E v \in Verdicts : Accept(o, v)
    <3>1. ObserveGeneration(o.link, o.generation)
      BY <2>2 DEF FenceInStore, Accept, ReachesStore
    <3>2. QED
      BY <3>1, ObservationParts
  <2>3. QED
    BY <2>1, <2>2 DEF ApplyObservation
<1>5. QED
  BY <1>1, <1>2, <1>3, <1>4 DEF Next

\* A registered source stays registered under its authority: register_source
\* refuses a registration that contradicts the first one.
LEMMA SourcesKeepStanding ==
  ASSUME TypeOK, [Next]_vars, NEW s \in SourceIds, sources[s].registered
  PROVE  sources'[s].registered /\ sources'[s].authority = sources[s].authority
<1>1. CASE UNCHANGED sources
  BY <1>1
<1>2. CASE \E x \in SourceIds, a \in Authorities, p \in Provenances, r \in BOOLEAN :
             ApplySource(x, a, p, r)
  <2> PICK x \in SourceIds, a \in Authorities, p \in Provenances, r \in BOOLEAN :
        ApplySource(x, a, p, r)
    BY <1>2
  <2>1. CASE CanRegisterSource(x, a, p) /\ RegisterSource(x, a, p, r)
    <3>1. CASE x = s
      BY <2>1, <3>1 DEF CanRegisterSource, RegisterSource, TypeOK, RegistryTypeOK
    <3>2. CASE x # s
      BY <2>1, <3>2 DEF RegisterSource, TypeOK, RegistryTypeOK
    <3>3. QED
      BY <3>1, <3>2
  <2>2. QED
    BY <1>1, <2>1 DEF ApplySource
<1>3. CASE \E l \in LinkIds, g \in Generations : ApplyLink(l, g) \/ RejectLink(l, g)
  BY <1>1, <1>3 DEF ApplyLink, RejectLink, registryVars
<1>4. CASE \E o \in Observation : ApplyObservation(o)
  BY <1>1, <1>4 DEF ApplyObservation, FenceUnheard, FenceUnknownLink, FenceGeneration,
     FenceInStore, Accept, ReachesStore, Submit
<1>5. CASE UNCHANGED vars
  BY <1>1, <1>5 DEF vars, registryVars
<1>6. QED
  BY <1>2, <1>3, <1>4, <1>5 DEF Next

\* Every entry of a slot's history is evidence.
LEMMA RetainedType ==
  ASSUME TypeOK, NEW slot \in Slots, NEW i \in DOMAIN history[slot]
  PROVE  /\ history[slot][i] \in Evidence
         /\ history[slot][i].source \in SourceIds
         /\ history[slot][i].generation \in Generations
<1>1. history[slot] \in Seq(Evidence)
  BY DEF TypeOK, StoreTypeOK
<1>2. history[slot][i] \in Evidence
  BY <1>1
<1>3. QED
  BY <1>2 DEF Evidence

\* What an accepted observation leaves in the history of a slot: entries that
\* were there, and in its own slot the new evidence.
LEMMA HistoryStep ==
  ASSUME TypeOK, NEW o \in Observation, NEW v \in Verdicts, Accept(o, v),
         NEW slot \in Slots, NEW i \in DOMAIN history'[slot]
  PROVE  \/ \E j \in DOMAIN history[slot] : history'[slot][i] = history[slot][j]
         \/ slot = SlotOf(o) /\ history'[slot][i] = EvidenceOf(o, AuthorityOf(o))
<1> DEFINE e == EvidenceOf(o, AuthorityOf(o))
<1>1. AuthorityOf(o) \in Authorities
  BY ObservationParts DEF AuthorityOf, TypeOK, RegistryTypeOK, SourceRecord
<1>2. e \in Evidence
  BY <1>1, ObservationParts DEF EvidenceOf, Evidence, Observation
<1>3. /\ history \in [Slots -> Seq(Evidence)] /\ SlotOf(o) \in Slots
      /\ MaxEvidence \in Nat \ {0}
  BY ObservationParts, StoreAssumption DEF TypeOK, StoreTypeOK
<1>4. history' = [history EXCEPT ![SlotOf(o)] =
                    PushRetired(history[SlotOf(o)], e, MaxEvidence)]
  BY DEF Accept, Admit
<1> HIDE DEF e
<1>5. CASE slot = SlotOf(o)
  <2>1. history'[slot] = PushRetired(history[slot], e, MaxEvidence)
    BY <1>3, <1>4, <1>5
  <2>2. history[slot] \in Seq(Evidence)
    BY <1>3
  <2>3. QED
    BY <1>2, <1>3, <1>5, <2>1, <2>2, PushRetiredElements DEF e
<1>6. CASE slot # SlotOf(o)
  BY <1>3, <1>4, <1>6
<1>7. QED
  BY <1>5, <1>6

(***************************************************************************)
(* Standing, provenance and generation of retained evidence.               *)
(***************************************************************************)
\* A source's registration fixes its authority for good, so the authority a
\* piece of evidence was stored with never differs from its source's
\* (register_source, apply_observation_locked).
THEOREM StandingIsKept == Spec => []StandingKept
<1>1. Init => StandingKept
  BY DEF Init, StoreInit, StandingKept
<1>2. TypeOK /\ StandingKept /\ [Next]_vars => StandingKept'
  <2> SUFFICES ASSUME TypeOK, StandingKept, [Next]_vars,
                      NEW slot \in Slots, NEW i \in DOMAIN history'[slot]
               PROVE  /\ sources'[history'[slot][i].source].registered
                      /\ history'[slot][i].authority
                           = sources'[history'[slot][i].source].authority
    BY DEF StandingKept
  <2>1. ASSUME NEW j \in DOMAIN history[slot], history'[slot][i] = history[slot][j]
        PROVE  /\ sources'[history'[slot][i].source].registered
               /\ history'[slot][i].authority
                    = sources'[history'[slot][i].source].authority
    <3>1. history[slot][j].source \in SourceIds
      BY RetainedType
    <3>2. QED
      BY <2>1, <3>1, SourcesKeepStanding DEF StandingKept
  <2>2. CASE UNCHANGED <<slotVars, acceptedRevs>>
    BY <2>1, <2>2 DEF slotVars
  <2>3. CASE \E o \in Observation, v \in Verdicts : Accept(o, v)
    <3> PICK o \in Observation, v \in Verdicts : Accept(o, v)
      BY <2>3
    <3>1. CASE slot = SlotOf(o) /\ history'[slot][i] = EvidenceOf(o, AuthorityOf(o))
      <4>1. sources[o.source].registered /\ sources' = sources
        BY DEF Accept, ReachesStore, Submit, Unheard, Speaks
      <4>2. QED
        BY <3>1, <4>1 DEF EvidenceOf, AuthorityOf
    <3>2. QED
      BY <2>1, <3>1, HistoryStep
  <2>4. QED
    BY <2>2, <2>3, SlotsOnlyByAccept
<1>3. QED
  BY <1>1, <1>2, TypeCorrect, PTL DEF Spec

\* Nothing is retained that was not accepted, and accepted revisions are never
\* forgotten by the history variable that records them.
LEMMA EvidenceIsAccepted == Spec => []EvidenceAccepted
<1>1. Init => EvidenceAccepted
  BY DEF Init, StoreInit, EvidenceAccepted
<1>2. TypeOK /\ EvidenceAccepted /\ [Next]_vars => EvidenceAccepted'
  <2> SUFFICES ASSUME TypeOK, EvidenceAccepted, [Next]_vars,
                      NEW slot \in Slots, NEW i \in DOMAIN history'[slot]
               PROVE  <<history'[slot][i].scope, history'[slot][i].sequence>>
                        \in acceptedRevs'[history'[slot][i].source]
    BY DEF EvidenceAccepted
  <2>1. CASE UNCHANGED <<slotVars, acceptedRevs>>
    BY <2>1 DEF slotVars, EvidenceAccepted
  <2>2. CASE \E o \in Observation, v \in Verdicts : Accept(o, v)
    <3> PICK o \in Observation, v \in Verdicts : Accept(o, v)
      BY <2>2
    <3>1. /\ acceptedRevs' = [acceptedRevs EXCEPT ![o.source] =
                                @ \cup {<<ScopeOf(o), o.sequence>>}]
          /\ acceptedRevs \in [SourceIds -> SUBSET (Scopes \X (0..MaxSequence))]
          /\ o.source \in SourceIds
      BY ObservationParts DEF Accept, Admit, TypeOK, StoreTypeOK
    <3>2. ASSUME NEW j \in DOMAIN history[slot], history'[slot][i] = history[slot][j]
          PROVE  <<history'[slot][i].scope, history'[slot][i].sequence>>
                   \in acceptedRevs'[history'[slot][i].source]
      <4>1. history[slot][j].source \in SourceIds
        BY RetainedType
      <4>2. <<history[slot][j].scope, history[slot][j].sequence>>
              \in acceptedRevs[history[slot][j].source]
        BY DEF EvidenceAccepted
      <4>3. QED
        BY <3>1, <3>2, <4>1, <4>2
    <3>3. CASE history'[slot][i] = EvidenceOf(o, AuthorityOf(o))
      BY <3>1, <3>3 DEF EvidenceOf
    <3>4. QED
      BY <3>2, <3>3, HistoryStep
  <2>3. QED
    BY <2>1, <2>2, SlotsOnlyByAccept
<1>3. QED
  BY <1>1, <1>2, TypeCorrect, PTL DEF Spec

\* An accepted observation is evidence of the generation that is then current.
LEMMA AcceptedGeneration ==
  ASSUME TypeOK, NEW o \in Observation, NEW v \in Verdicts, Accept(o, v)
  PROVE  currentGeneration'[o.link] = o.generation
<1>1. /\ ObserveGeneration(o.link, o.generation)
      /\ ~GenerationBehind(o.link, o.generation)
  BY DEF Accept, ReachesStore
<1>2. CASE currentGeneration[o.link] = o.generation
  BY <1>1, <1>2 DEF ObserveGeneration, GenerationChanged, generationVars
<1>3. CASE currentGeneration[o.link] # o.generation
  <2>1. currentGeneration' = [currentGeneration EXCEPT ![o.link] = o.generation]
    BY <1>1, <1>3 DEF ObserveGeneration, GenerationChanged
  <2>2. QED
    BY <2>1, ObservationParts DEF TypeOK, RegistryTypeOK
<1>4. QED
  BY <1>2, <1>3

\* No record breaks the generation invariant.
LEMMA GenerationInvStep ==
  ASSUME TypeOK, GenerationInv, [Next]_vars
  PROVE  GenerationInv'
<1> USE DEF GenerationInv
<1>1. /\ GenerationsRemembered'
      /\ \A x \in LinkIds : RemembersGenerations(x)' =>
           /\ RemembersGenerations(x)
           /\ \A h \in Generations : FencedGeneration(x, h) => FencedGeneration(x, h)'
  <2>1. CASE UNCHANGED generationVars
    BY <2>1 DEF generationVars, GenerationsRemembered, RemembersGenerations,
       HasGeneration, FencedGeneration
  <2>2. CASE \E l \in LinkIds, g \in Generations : ObserveGeneration(l, g)
    BY <2>2, GenerationStep DEF TypeOK
  <2>3. QED
    BY <2>1, <2>2, GenerationsOnlyObserved
<1>2. ASSUME NEW slot \in Slots, RemembersGenerations(slot[1])',
             NEW i \in DOMAIN history'[slot],
             NEW h, h = history'[slot][i].generation
      PROVE  FencedGeneration(slot[1], h)'
  <2>1. slot[1] \in LinkIds
    BY DEF Slots
  <2>2. ASSUME NEW j \in DOMAIN history[slot], history'[slot][i] = history[slot][j]
        PROVE  FencedGeneration(slot[1], h)'
    <3>1. h \in Generations /\ h = history[slot][j].generation
      BY <1>2, <2>2, RetainedType
    <3>2. FencedGeneration(slot[1], h)
      BY <1>1, <1>2, <2>1, <3>1 DEF GenerationsFenced, FencedGeneration
    <3>3. QED
      BY <1>1, <1>2, <2>1, <3>1, <3>2
  <2>3. CASE UNCHANGED <<slotVars, acceptedRevs>>
    BY <2>2, <2>3 DEF slotVars
  <2>4. CASE \E o \in Observation, v \in Verdicts : Accept(o, v)
    <3> PICK o \in Observation, v \in Verdicts : Accept(o, v)
      BY <2>4
    <3>1. CASE slot = SlotOf(o) /\ history'[slot][i] = EvidenceOf(o, AuthorityOf(o))
      <4>1. slot[1] = o.link /\ h = o.generation
        BY <1>2, <3>1 DEF SlotOf, EvidenceOf
      <4>2. currentGeneration'[o.link] = o.generation
        BY AcceptedGeneration
      <4>3. QED
        BY <4>1, <4>2 DEF FencedGeneration
    <3>2. QED
      BY <2>2, <3>1, HistoryStep
  <2>5. QED
    BY <2>3, <2>4, SlotsOnlyByAccept
<1>3. GenerationsFenced'
  BY <1>2 DEF GenerationsFenced, FencedGeneration
<1>4. QED
  BY <1>1, <1>3

\* GenerationsFenced needs GenerationsRemembered: that a change of generation
\* pushes no remembered one off the list follows from the list's length being
\* the number of changes.
LEMMA GenerationInvariant == Spec => []GenerationInv
<1>1. Init => GenerationInv
  BY RegistryAssumption DEF Init, RegistryInit, StoreInit, GenerationInv,
     GenerationsRemembered, GenerationsFenced
<1>2. TypeOK /\ GenerationInv /\ [Next]_vars => GenerationInv'
  BY GenerationInvStep
<1>3. QED
  BY <1>1, <1>2, TypeCorrect, PTL DEF Spec

\* As long as a link has not changed generation more often than its list holds,
\* the generation of everything retained about it is current or fenced
\* (observe_generation).
THEOREM GenerationsAreFenced == Spec => []GenerationsFenced
BY GenerationInvariant, PTL DEF GenerationInv

(***************************************************************************)
(* Counter samples.                                                        *)
(***************************************************************************)
\* The stream of an observation the store does not refuse untouched: it enters
\* the scope and counts the gap, and takes the revision only when accepted.
StreamMoves(o) ==
  /\ ~ScopeBehind(o) /\ ~RevisionReplayed(o) /\ AdvanceStream(o)
  /\ \/ /\ lastSeq' = [lastSeq EXCEPT ![o.source] = BaseSequence(o)]
        /\ acceptedRevs' = acceptedRevs
     \/ /\ lastSeq' = [lastSeq EXCEPT ![o.source] = o.sequence]
        /\ acceptedRevs' = [acceptedRevs EXCEPT ![o.source] =
                              @ \cup {<<ScopeOf(o), o.sequence>>}]

\* No other step touches a stream.
LEMMA StreamsOnlyMove ==
  ASSUME [Next]_vars
  PROVE  \/ UNCHANGED <<streamVars, acceptedRevs>>
         \/ \E o \in Observation : StreamMoves(o)
<1>1. CASE UNCHANGED vars
  BY <1>1 DEF vars, storeVars
<1>2. CASE \E s \in SourceIds, a \in Authorities, p \in Provenances, r \in BOOLEAN :
             ApplySource(s, a, p, r)
  BY <1>2 DEF ApplySource, storeVars
<1>3. CASE \E l \in LinkIds, g \in Generations : ApplyLink(l, g) \/ RejectLink(l, g)
  BY <1>3 DEF ApplyLink, RejectLink, storeVars
<1>4. CASE \E o \in Observation : ApplyObservation(o)
  <2> PICK o \in Observation : ApplyObservation(o)
    BY <1>4
  <2>1. CASE FenceUnheard(o) \/ FenceUnknownLink(o) \/ FenceGeneration(o)
    BY <2>1 DEF FenceUnheard, FenceUnknownLink, FenceGeneration, RefuseUntouched, storeVars
  <2>2. CASE FenceInStore(o)
    BY <2>2 DEF FenceInStore, RefuseUntouched, RefuseLate, RefusedUntouched, StreamMoves
  <2>3. CASE \E v \in Verdicts : Accept(o, v)
    BY <2>3 DEF Accept, Admit, RefusedUntouched, StreamMoves
  <2>4. QED
    BY <2>1, <2>2, <2>3 DEF ApplyObservation
<1>5. QED
  BY <1>1, <1>2, <1>3, <1>4 DEF Next

\* Accepted revisions only grow and a list that forgot a scope stays forgetful.
LEMMA StreamMonotone ==
  ASSUME TypeOK, [Next]_vars, NEW s \in SourceIds
  PROVE  /\ acceptedRevs[s] \subseteq acceptedRevs'[s]
         /\ RemembersScopes(s)' => RemembersScopes(s)
<1>1. CASE UNCHANGED <<streamVars, acceptedRevs>>
  BY <1>1 DEF streamVars, RemembersScopes
<1>2. CASE \E o \in Observation : StreamMoves(o)
  <2> PICK o \in Observation : StreamMoves(o)
    BY <1>2
  <2>1. /\ scopeChanges \in [SourceIds -> Nat] /\ o.source \in SourceIds
        /\ acceptedRevs \in [SourceIds -> SUBSET (Scopes \X (0..MaxSequence))]
        /\ MaxRetiredScopes \in Nat
    BY ObservationParts, StoreAssumption DEF TypeOK, StoreTypeOK
  <2>2. acceptedRevs[s] \subseteq acceptedRevs'[s]
    BY <2>1 DEF StreamMoves
  <2>3. scopeChanges'[s] = scopeChanges[s] \/ scopeChanges'[s] = scopeChanges[s] + 1
    BY <2>1 DEF StreamMoves, AdvanceStream
  <2>4. QED
    BY <2>1, <2>2, <2>3 DEF RemembersScopes
<1>3. QED
  BY <1>1, <1>2, StreamsOnlyMove

\* An accounted sample stays accounted: a stream that returns to its scope is
\* fenced, a gap moves the epoch on, and without one the next revision is the
\* successor of the last.
LEMMA AccountedStep ==
  ASSUME TypeOK, StreamInv, [Next]_vars, NEW s \in SourceIds, NEW x \in Sample,
         Accounted(s, x)
  PROVE  Accounted(s, x)'
<1>1. CASE UNCHANGED <<streamVars, acceptedRevs>>
  BY <1>1 DEF streamVars, Accounted, RemembersScopes
<1>2. ASSUME NEW o \in Observation, StreamMoves(o)
      PROVE  Accounted(s, x)'
  <2>1. /\ x.scope \in Scopes /\ x.sequence \in Nat /\ x.gap_epoch \in Nat
        /\ o.sequence \in Nat /\ o.source \in SourceIds
        /\ lastSeq \in [SourceIds -> 0..MaxSequence \cup {NoSequence}]
        /\ curScope \in [SourceIds -> Scopes \cup {NoScope}]
        /\ gapCount \in [SourceIds -> Nat] /\ MaxSequence \in Nat
        /\ acceptedRevs \in [SourceIds -> SUBSET (Scopes \X (0..MaxSequence))]
    BY ObservationParts, StoreAssumption DEF Sample, TypeOK, StoreTypeOK
  <2>2. CASE o.source # s
    BY <1>2, <2>1, <2>2 DEF StreamMoves, AdvanceStream, Accounted, RemembersScopes,
       TypeOK, StoreTypeOK
  <2>3. CASE o.source = s
    <3>1. /\ curScope'[s] = ScopeOf(o)
          /\ gapCount'[s] = IF RevisionGap(o) THEN gapCount[s] + 1 ELSE gapCount[s]
          /\ acceptedRevs[s] \subseteq acceptedRevs'[s]
          /\ RemembersScopes(s)' => RemembersScopes(s)
      BY <1>2, <2>1, <2>3, StreamMonotone DEF StreamMoves, AdvanceStream
    <3>2. ASSUME x.scope = ScopeOf(o), RemembersScopes(s)', x.gap_epoch = gapCount'[s],
                 NEW q \in x.sequence..lastSeq'[s]
          PROVE  <<x.scope, q>> \in acceptedRevs'[s]
      <4>1. <<x.scope, x.sequence>> \in acceptedRevs[s]
        BY DEF Accounted
      <4>2. x.scope = curScope[s] /\ x.sequence <= lastSeq[s]
        <5>1. \/ x.scope = curScope[s] /\ x.sequence <= lastSeq[s]
              \/ x.scope # curScope[s] /\ x.scope \in Range(retiredScopes[s])
          BY <3>1, <3>2, <4>1 DEF StreamInv, AcceptedRevisionsFenced
        <5>2. QED
          BY <1>2, <2>3, <3>2, <5>1 DEF StreamMoves, ScopeBehind, EntersScope
      <4>3. BaseSequence(o) = lastSeq[s] /\ lastSeq[s] \in Nat /\ lastSeq[s] # NoSequence
        BY <2>1, <2>3, <3>2, <4>2 DEF BaseSequence, EntersScope, NoSequence
      <4>4. x.gap_epoch <= gapCount[s]
        BY DEF Accounted
      <4>5. ~RevisionGap(o) /\ x.gap_epoch = gapCount[s]
        BY <2>1, <3>1, <3>2, <4>4
      <4>6. \A p \in x.sequence..lastSeq[s] : <<x.scope, p>> \in acceptedRevs[s]
        BY <3>1, <3>2, <4>2, <4>5 DEF Accounted
      <4>7. o.sequence = lastSeq[s] + 1
        BY <1>2, <2>1, <4>3, <4>5 DEF StreamMoves, RevisionReplayed, RevisionGap
      <4>8. CASE lastSeq' = [lastSeq EXCEPT ![o.source] = BaseSequence(o)]
        <5>1. lastSeq'[s] = lastSeq[s]
          BY <2>1, <2>3, <4>3, <4>8
        <5>2. QED
          BY <3>1, <3>2, <4>6, <5>1
      <4>9. CASE /\ lastSeq' = [lastSeq EXCEPT ![o.source] = o.sequence]
                 /\ acceptedRevs' = [acceptedRevs EXCEPT ![o.source] =
                                       @ \cup {<<ScopeOf(o), o.sequence>>}]
        <5>1. lastSeq'[s] = lastSeq[s] + 1 /\ <<x.scope, o.sequence>> \in acceptedRevs'[s]
          BY <2>1, <2>3, <3>2, <4>7, <4>9
        <5>2. q \in x.sequence..lastSeq[s] \/ q = o.sequence
          BY <2>1, <3>2, <4>3, <4>7, <5>1
        <5>3. QED
          BY <3>1, <4>6, <5>1, <5>2
      <4>10. QED
        BY <1>2, <4>8, <4>9 DEF StreamMoves
    <3>3. <<x.scope, x.sequence>> \in acceptedRevs'[s] /\ x.gap_epoch <= gapCount'[s]
      BY <2>1, <3>1 DEF Accounted
    <3>4. QED
      BY <3>1, <3>2, <3>3 DEF Accounted
  <2>4. QED
    BY <2>2, <2>3
<1>3. QED
  BY <1>1, <1>2, StreamsOnlyMove

\* Where an accepted observation leaves the samples of a slot and source: as
\* they were, or the newest one followed by its own.
LEMMA ContinuityStep ==
  ASSUME TypeOK, NEW o \in Observation, NEW v \in Verdicts, Accept(o, v),
         NEW slot \in Slots, NEW s \in SourceIds
  PROVE  LET before == continuity[slot][s]
             after  == continuity'[slot][s]
             y      == SampleOf(o, GapEpoch(o))
         IN  \/ after = before
             \/ /\ slot = SlotOf(o) /\ s = o.source /\ o.key \in CounterKeys
                /\ \/ before = <<>> /\ after = <<y>>
                   \/ before # <<>> /\ after = <<before[Len(before)], y>>
<1> DEFINE y == SampleOf(o, GapEpoch(o))
<1>1. /\ continuity \in [Slots -> [SourceIds -> Seq(Sample)]]
      /\ SlotOf(o) \in Slots /\ o.source \in SourceIds
  BY ObservationParts DEF TypeOK, StoreTypeOK
<1>2. continuity' = IF o.key \in CounterKeys
                    THEN [continuity EXCEPT ![SlotOf(o)][o.source] = ObserveCounter(@, y)]
                    ELSE continuity
  BY DEF Accept, Admit
<1> HIDE DEF y
<1>3. CASE o.key \in CounterKeys /\ slot = SlotOf(o) /\ s = o.source
  <2>1. continuity'[slot][s] = ObserveCounter(continuity[slot][s], y)
    BY <1>1, <1>2, <1>3
  <2>2. QED
    BY <1>3, <2>1 DEF ObserveCounter, y
<1>4. CASE ~(o.key \in CounterKeys /\ slot = SlotOf(o) /\ s = o.source)
  <2>1. continuity'[slot][s] = continuity[slot][s]
    BY <1>1, <1>2, <1>4
  <2>2. QED
    BY <2>1
<1>5. QED
  BY <1>3, <1>4

\* The sample of an accepted observation is accounted for from the start.
LEMMA NewSampleAccounted ==
  ASSUME TypeOK, NEW o \in Observation, NEW v \in Verdicts, Accept(o, v),
         NEW y \in Sample, y = SampleOf(o, GapEpoch(o))
  PROVE  /\ Accounted(o.source, y)'
         /\ lastSeq'[o.source] = y.sequence
<1>1. /\ o.source \in SourceIds /\ o.sequence \in Nat
      /\ lastSeq \in [SourceIds -> 0..MaxSequence \cup {NoSequence}]
      /\ gapCount \in [SourceIds -> Nat]
      /\ acceptedRevs \in [SourceIds -> SUBSET (Scopes \X (0..MaxSequence))]
  BY ObservationParts, StoreAssumption DEF TypeOK, StoreTypeOK
<1>2. y.scope = ScopeOf(o) /\ y.sequence = o.sequence /\ y.gap_epoch = GapEpoch(o)
  BY DEF SampleOf
<1>3. lastSeq'[o.source] = o.sequence
  BY <1>1 DEF Accept, Admit
<1>4. <<ScopeOf(o), o.sequence>> \in acceptedRevs'[o.source]
  BY <1>1 DEF Accept, Admit
<1>5. gapCount'[o.source] = GapEpoch(o) /\ GapEpoch(o) \in Nat
  BY <1>1 DEF Accept, Admit, AdvanceStream, GapEpoch
<1>6. \A q \in y.sequence..lastSeq'[o.source] : q = o.sequence
  BY <1>1, <1>2, <1>3
<1>7. QED
  BY <1>2, <1>3, <1>4, <1>5, <1>6 DEF Accounted

\* Every retained sample is accounted for, whatever keys, fences and scopes the
\* stream met since it was taken.
LEMMA SamplesAccountedStep ==
  ASSUME TypeOK, StreamInv, SamplesAccounted, [Next]_vars
  PROVE  SamplesAccounted'
<1>1. ASSUME NEW slot \in Slots, NEW s \in SourceIds, NEW i \in DOMAIN continuity[slot][s],
             NEW x, x = continuity[slot][s][i]
      PROVE  x \in Sample /\ Accounted(s, x)'
  <2>1. continuity[slot][s] \in Seq(Sample)
    BY DEF TypeOK, StoreTypeOK
  <2>2. x \in Sample
    BY <1>1, <2>1
  <2>3. QED
    BY <1>1, <2>2, AccountedStep DEF SamplesAccounted
<1>2. CASE UNCHANGED <<slotVars, acceptedRevs>>
  BY <1>1, <1>2 DEF slotVars, SamplesAccounted
<1>3. CASE \E o \in Observation, v \in Verdicts : Accept(o, v)
  <2> PICK o \in Observation, v \in Verdicts : Accept(o, v)
    BY <1>3
  <2> SUFFICES ASSUME NEW slot \in Slots, NEW s \in SourceIds
               PROVE  /\ Len(continuity'[slot][s]) <= 2
                      /\ \A i \in DOMAIN continuity'[slot][s] :
                           \A x : x = continuity'[slot][s][i] => Accounted(s, x)'
    BY DEF SamplesAccounted
  <2> DEFINE before == continuity[slot][s]
  <2> DEFINE after == continuity'[slot][s]
  <2> DEFINE y == SampleOf(o, GapEpoch(o))
  <2>1. CASE after = before
    BY <1>1, <2>1 DEF SamplesAccounted
  <2>2. CASE /\ s = o.source
             /\ \/ before = <<>> /\ after = <<y>>
                \/ before # <<>> /\ after = <<before[Len(before)], y>>
    <3>1. y \in Sample
      BY SampleType DEF TypeOK
    <3>2. before # <<>> => Len(before) \in DOMAIN before
      <4>1. before \in Seq(Sample)
        BY DEF TypeOK, StoreTypeOK
      <4>2. QED
        BY <4>1
    <3>3. ASSUME NEW i \in DOMAIN after, NEW x, x = after[i]
          PROVE  Accounted(s, x)'
      <4>1. x = y \/ (before # <<>> /\ x = before[Len(before)])
        BY <2>2, <3>3
      <4>2. CASE x = y
        BY <2>2, <3>1, <4>2, NewSampleAccounted
      <4>3. CASE before # <<>> /\ x = before[Len(before)]
        BY <1>1, <3>2, <4>3
      <4>4. QED
        BY <4>1, <4>2, <4>3
    <3>4. Len(after) <= 2
      <4>1. Len(<<y>>) = 1 /\ Len(<<before[Len(before)], y>>) = 2
        OBVIOUS
      <4>2. PICK n \in {1, 2} : Len(after) = n
        BY <2>2, <4>1
      <4>3. n <= 2
        BY <4>2
      <4>4. QED
        BY <4>2, <4>3
    <3>5. QED
      BY <3>3, <3>4
  <2>3. QED
    BY <2>1, <2>2, ContinuityStep
<1>4. QED
  BY <1>2, <1>3, SlotsOnlyByAccept

\* A pair of samples kept together stays faithful, and a new pair is: with no
\* gap between its epochs every revision between its members was accepted, and
\* otherwise the fold reports the gap and the slot is marked.
LEMMA DeltaStep ==
  ASSUME TypeOK, StreamInv, SamplesAccounted, DeltaNeverSpansLoss, [Next]_vars
  PROVE  DeltaNeverSpansLoss'
<1> SUFFICES ASSUME NEW slot \in Slots, NEW s \in SourceIds,
                    Len(continuity'[slot][s]) = 2,
                    SameIdentity(continuity'[slot][s][1], continuity'[slot][s][2]),
                    RemembersScopes(s)'
             PROVE  LET samples == continuity'[slot][s] IN
                    \/ /\ ~SequenceGap(samples[1], samples[2])
                       /\ \A q \in samples[1].sequence..samples[2].sequence :
                            <<samples[1].scope, q>> \in acceptedRevs'[s]
                    \/ SequenceGap(samples[1], samples[2]) /\ slot \in gapSlots'
  BY DEF DeltaNeverSpansLoss, SameIdentity, SequenceGap
<1>1. RemembersScopes(s) /\ acceptedRevs[s] \subseteq acceptedRevs'[s]
  BY StreamMonotone
<1>2. gapSlots \subseteq gapSlots'
  <2>1. CASE UNCHANGED <<slotVars, acceptedRevs>>
    BY <2>1 DEF slotVars
  <2>2. CASE \E o \in Observation, v \in Verdicts : Accept(o, v)
    BY <2>2 DEF Accept, Admit
  <2>3. QED
    BY <2>1, <2>2, SlotsOnlyByAccept
<1>3. CASE continuity'[slot][s] = continuity[slot][s]
  BY <1>1, <1>2, <1>3 DEF DeltaNeverSpansLoss
<1>4. CASE continuity'[slot][s] # continuity[slot][s]
  <2> PICK o \in Observation, v \in Verdicts : Accept(o, v)
    BY <1>4, SlotsOnlyByAccept DEF slotVars
  <2> DEFINE before == continuity[slot][s]
  <2> PICK x : x = before[Len(before)]
    OBVIOUS
  <2> PICK y : y = SampleOf(o, GapEpoch(o))
    OBVIOUS
  <2>1. /\ slot = SlotOf(o) /\ s = o.source /\ o.key \in CounterKeys
        /\ before # <<>> /\ continuity'[slot][s] = <<x, y>>
    <3>1. Len(<<y>>) = 1
      OBVIOUS
    <3>2. QED
      BY <1>4, <3>1, ContinuityStep
  <2>2. continuity'[slot][s][1] = x /\ continuity'[slot][s][2] = y
    BY <2>1
  <2>3. x \in Sample /\ y \in Sample /\ Accounted(s, x)'
    <3>1. before \in Seq(Sample) /\ y \in Sample
      BY SampleType DEF TypeOK, StoreTypeOK
    <3>2. Len(before) \in DOMAIN before /\ x \in Sample
      BY <2>1, <3>1
    <3>3. Accounted(s, x)
      BY <3>2 DEF SamplesAccounted
    <3>4. QED
      BY <3>1, <3>2, <3>3, AccountedStep
  <2>4. x.scope = y.scope /\ y.scope = ScopeOf(o) /\ y.gap_epoch = GapEpoch(o)
    BY <2>2 DEF SameIdentity, SampleOf
  <2>5. CASE ~SequenceGap(x, y)
    <3>1. curScope'[s] = ScopeOf(o) /\ gapCount'[s] = GapEpoch(o)
      <4>1. /\ s \in SourceIds /\ gapCount[s] \in Nat
            /\ curScope \in [SourceIds -> Scopes \cup {NoScope}]
            /\ gapCount \in [SourceIds -> Nat]
        BY <2>1, ObservationParts DEF TypeOK, StoreTypeOK
      <4>2. /\ curScope' = [curScope EXCEPT ![o.source] = ScopeOf(o)]
            /\ gapCount' = [gapCount EXCEPT ![o.source] = IF RevisionGap(o) THEN @ + 1 ELSE @]
        BY DEF Accept, Admit, AdvanceStream
      <4>3. QED
        BY <2>1, <4>1, <4>2 DEF GapEpoch
    <3>2. x.gap_epoch = y.gap_epoch
      BY <2>5 DEF SequenceGap
    <3>3. lastSeq'[s] = y.sequence
      BY <2>1, <2>3, NewSampleAccounted
    <3>4. \A q \in x.sequence..y.sequence : <<x.scope, q>> \in acceptedRevs'[s]
      BY <2>3, <2>4, <3>1, <3>2, <3>3 DEF Accounted
    <3>5. QED
      BY <2>2, <2>5, <3>4
  <2>6. CASE SequenceGap(x, y)
    <3>1. CounterOutcome(o).sequence_gap
      BY <2>1, <2>2, <2>6 DEF CounterOutcome, ContinuityOutcome, Outcome, SequenceGap
    <3>2. slot \in gapSlots'
      BY <2>1, <3>1 DEF Accept, Admit, MarksGap
    <3>3. QED
      BY <2>2, <2>6, <3>2
  <2>7. QED
    BY <2>5, <2>6
<1>5. QED
  BY <1>3, <1>4

\* Samples are accounted for and pairs of samples are faithful, throughout.
LEMMA SampleInvariant == Spec => []SampleInv
<1>1. Init => SampleInv
  BY DEF Init, StoreInit, SampleInv, SamplesAccounted, DeltaNeverSpansLoss
<1>2. TypeOK /\ StreamInv /\ SampleInv /\ [Next]_vars => SampleInv'
  BY SamplesAccountedStep, DeltaStep DEF SampleInv
<1>3. QED
  BY <1>1, <1>2, TypeCorrect, StreamInvariant, PTL DEF Spec

\* No counter delta is derived across a lost revision (CounterContinuity and
\* the gap epochs of EvidenceStore::accept), for any number of sources, keys and
\* scopes, whatever is refused in between.
THEOREM DeltasNeverSpanLoss == Spec => []DeltaNeverSpansLoss
BY SampleInvariant, PTL DEF SampleInv

(***************************************************************************)
(* No step revives old evidence.                                           *)
(***************************************************************************)
\* A revision that was accepted before is not accepted again.
LEMMA AcceptedOnce ==
  ASSUME TypeOK, StreamInv, NEW o \in Observation, StreamMoves(o),
         RemembersScopes(o.source)
  PROVE  <<ScopeOf(o), o.sequence>> \notin acceptedRevs[o.source]
<1> SUFFICES ASSUME <<ScopeOf(o), o.sequence>> \in acceptedRevs[o.source] PROVE FALSE
  OBVIOUS
<1>1. /\ o.source \in SourceIds /\ o.sequence \in Nat
      /\ lastSeq[o.source] \in Int
  BY ObservationParts, StoreAssumption DEF TypeOK, StoreTypeOK, NoSequence
<1>2. \/ ScopeOf(o) = curScope[o.source] /\ o.sequence <= lastSeq[o.source]
      \/ ScopeOf(o) # curScope[o.source] /\ ScopeOf(o) \in Range(retiredScopes[o.source])
  BY <1>1 DEF StreamInv, AcceptedRevisionsFenced
<1>3. QED
  BY <1>1, <1>2 DEF StreamMoves, ScopeBehind, EntersScope, RevisionReplayed,
     BaseSequence, NoSequence

\* A scope something was accepted under does not become current again.
LEMMA ScopeNotRevived ==
  ASSUME TypeOK, StreamInv, [Next]_vars, NEW s \in SourceIds, RemembersScopes(s)',
         NEW sc, NEW q, <<sc, q>> \in acceptedRevs[s], sc = curScope'[s]
  PROVE  sc = curScope[s]
<1>1. CASE UNCHANGED <<streamVars, acceptedRevs>>
  BY <1>1 DEF streamVars
<1>2. ASSUME NEW o \in Observation, StreamMoves(o) PROVE sc = curScope[s]
  <2>1. o.source \in SourceIds /\ curScope \in [SourceIds -> Scopes \cup {NoScope}]
    BY ObservationParts DEF TypeOK, StoreTypeOK
  <2>2. CASE o.source # s
    BY <1>2, <2>1, <2>2 DEF StreamMoves, AdvanceStream
  <2>3. CASE o.source = s
    <3>1. sc = ScopeOf(o)
      BY <1>2, <2>1, <2>3 DEF StreamMoves, AdvanceStream
    <3>2. RemembersScopes(s)
      BY StreamMonotone
    <3>3. sc = curScope[s] \/ sc \in Range(retiredScopes[s])
      BY <3>2 DEF StreamInv, AcceptedRevisionsFenced
    <3>4. QED
      BY <1>2, <2>3, <3>1, <3>3 DEF StreamMoves, ScopeBehind, EntersScope
  <2>4. QED
    BY <2>2, <2>3
<1>3. QED
  BY <1>1, <1>2, StreamsOnlyMove

\* The entry at i is the newest of source s in the list.
NewestAt(list, i, s) ==
  /\ i \in DOMAIN list /\ list[i].source = s
  /\ \A j \in DOMAIN list : list[j].source = s => j <= i

\* The newest entry of a source after a bounded push of another source's item
\* was its newest entry before.
LEMMA NewestBeforePush ==
  ASSUME NEW T, NEW list \in Seq(T), NEW item \in T, NEW bound \in Nat \ {0},
         NEW s, NEW n
  PROVE  item.source # s /\ NewestAt(PushRetired(list, item, bound), n, s) =>
           \E k : NewestAt(list, k, s) /\ list[k] = PushRetired(list, item, bound)[n]
<1> DEFINE p == PushRetired(list, item, bound)
<1> HIDE DEF p
<1>1. PICK d \in {0, 1} :
        /\ p \in Seq(T) /\ Len(p) = Len(list) + 1 - d /\ Len(p) >= 1
        /\ p[Len(p)] = item
        /\ \A i \in 1..(Len(p) - 1) : i + d \in 1..Len(list) /\ p[i] = list[i + d]
  BY PushRetiredShape DEF p
<1> SUFFICES ASSUME item.source # s, NewestAt(p, n, s)
             PROVE  \E k : NewestAt(list, k, s) /\ list[k] = p[n]
  BY DEF p
<1>2. /\ DOMAIN p = 1..Len(p) /\ Len(p) \in Nat
      /\ DOMAIN list = 1..Len(list) /\ Len(list) \in Nat
  BY <1>1
<1>3. n \in 1..(Len(p) - 1) /\ p[n].source = s
  <2>1. n \in DOMAIN p /\ p[n].source = s
    BY DEF NewestAt
  <2>2. n # Len(p)
    BY <1>1, <2>1
  <2>3. QED
    BY <1>2, <2>1, <2>2
<1>4. n + d \in DOMAIN list /\ list[n + d] = p[n]
  BY <1>1, <1>2, <1>3
<1>5. ASSUME NEW j \in DOMAIN list, list[j].source = s, ~(j <= n + d)
      PROVE  FALSE
  <2>1. j - d \in 1..(Len(p) - 1) /\ (j - d) + d = j
    BY <1>1, <1>2, <1>3, <1>5
  <2>2. p[j - d] = list[j] /\ j - d \in DOMAIN p
    BY <1>1, <1>2, <2>1
  <2>3. j - d <= n
    BY <1>5, <2>2 DEF NewestAt
  <2>4. QED
    BY <1>2, <1>3, <1>5, <2>1, <2>3
<1>6. NewestAt(list, n + d, s)
  BY <1>3, <1>4, <1>5 DEF NewestAt
<1>7. QED
  BY <1>4, <1>6

\* Evidence that was retained before and is the newest of its source now was
\* the newest before: an accepted observation is not a copy of retained evidence.
LEMMA NewestNotRevived ==
  ASSUME TypeOK, StreamInv, EvidenceAccepted, [Next]_vars, NEW slot \in Slots,
         NEW s \in SourceIds, RemembersScopes(s),
         NEW e \in NewestOf(s, slot)', e \in Range(history[slot])
  PROVE  e \in NewestOf(s, slot)
<1>1. PICK i \in DOMAIN history'[slot] :
        /\ e = history'[slot][i] /\ e.source = s
        /\ \A j \in DOMAIN history'[slot] : history'[slot][j].source = s => j <= i
  BY DEF NewestOf
<1>2. CASE history'[slot] = history[slot]
  BY <1>1, <1>2 DEF NewestOf
<1>3. CASE history'[slot] # history[slot]
  <2> PICK o \in Observation, v \in Verdicts : Accept(o, v)
    BY <1>3, SlotsOnlyByAccept DEF slotVars
  <2> DEFINE list == history[slot]
  <2> DEFINE item == EvidenceOf(o, AuthorityOf(o))
  <2>1. /\ list \in Seq(Evidence) /\ item \in Evidence /\ MaxEvidence \in Nat \ {0}
        /\ item.source = o.source
    <3>1. AuthorityOf(o) \in Authorities
      BY ObservationParts DEF AuthorityOf, TypeOK, RegistryTypeOK, SourceRecord
    <3>2. QED
      BY <3>1, ObservationParts, StoreAssumption
      DEF EvidenceOf, Evidence, Observation, TypeOK, StoreTypeOK
  <2>2. history'[slot] = PushRetired(list, item, MaxEvidence)
    BY <1>3 DEF Accept, Admit, TypeOK, StoreTypeOK
  <2> DEFINE p == PushRetired(list, item, MaxEvidence)
  <2> HIDE DEF item
  <2>3. NewestAt(p, i, s) /\ e = p[i]
    BY <1>1, <2>2 DEF NewestAt
  <2>4. CASE o.source # s
    <3>1. \E k : NewestAt(list, k, s) /\ list[k] = p[i]
      BY <2>1, <2>3, <2>4, NewestBeforePush
    <3>2. QED
      BY <2>3, <3>1 DEF NewestOf, NewestAt
  <2>5. CASE o.source = s
    <3>1. e = item
      <4>1. Len(p) \in DOMAIN p /\ p[Len(p)] = item /\ DOMAIN p = 1..Len(p) /\ Len(p) \in Nat
        BY <2>1, PushRetiredShape
      <4> HIDE DEF p
      <4>2. i = Len(p)
        BY <2>1, <2>3, <2>5, <4>1 DEF NewestAt
      <4>3. QED
        BY <2>3, <4>1, <4>2
    <3>2. PICK j \in DOMAIN list : e = list[j]
      BY DEF Range
    <3>3. <<e.scope, e.sequence>> \in acceptedRevs[e.source]
      BY <3>2 DEF EvidenceAccepted
    <3>4. StreamMoves(o)
      BY DEF Accept, Admit, RefusedUntouched, StreamMoves
    <3>5. <<ScopeOf(o), o.sequence>> \in acceptedRevs[o.source]
      BY <3>1, <3>3 DEF item, EvidenceOf
    <3>6. QED
      BY <2>5, <3>4, <3>5, AcceptedOnce
  <2>6. QED
    BY <2>4, <2>5
<1>4. QED
  BY <1>2, <1>3

\* No step revives old evidence (contenders): what becomes eligible in a slot
\* is new there, because neither an old revision, nor a retired scope, nor a
\* retired generation becomes current again while it is remembered.
THEOREM NothingRevived == Spec => NoRevival
<1> DEFINE Inv == TypeOK /\ StreamInv /\ EvidenceAccepted /\ GenerationInv
<1> DEFINE Step == \A slot \in Slots : \A e \in Eligible(slot)' :
                     /\ RemembersScopes(e.source)'
                     /\ RemembersGenerations(slot[1])'
                     /\ e \in Range(history[slot])
                     => e \in Eligible(slot)
<1>1. Inv /\ [Next]_vars => Step
  <2> SUFFICES ASSUME Inv, [Next]_vars, NEW slot \in Slots,
                      NEW e \in Eligible(slot)', RemembersScopes(e.source)',
                      RemembersGenerations(slot[1])', e \in Range(history[slot])
               PROVE  e \in Eligible(slot)
    OBVIOUS
  <2>1. PICK j \in DOMAIN history[slot] : e = history[slot][j]
    BY DEF Range
  <2>2. /\ e.source \in SourceIds /\ e.generation \in Generations
        /\ slot[1] \in LinkIds /\ RemembersScopes(e.source)
    BY <2>1, RetainedType, StreamMonotone DEF Slots
  <2>3. e.scope = curScope'[e.source] /\ e.generation = currentGeneration'[slot[1]]
    BY DEF Eligible
  <2>4. e \in NewestOf(e.source, slot)'
    BY DEF Eligible, NewestOf
  <2>5. e \in NewestOf(e.source, slot)
    BY <2>2, <2>4, NewestNotRevived
  <2>6. e.scope = curScope[e.source]
    <3>1. <<e.scope, e.sequence>> \in acceptedRevs[e.source]
      BY <2>1 DEF EvidenceAccepted
    <3>2. QED
      BY <2>2, <2>3, <3>1, ScopeNotRevived
  <2>7. e.generation = currentGeneration[slot[1]]
    <3>1. CASE UNCHANGED generationVars
      BY <2>3, <3>1 DEF generationVars
    <3>2. CASE \E l \in LinkIds, g \in Generations : ObserveGeneration(l, g)
      <4>1. RemembersGenerations(slot[1])
        BY <2>2, <3>2, GenerationStep DEF GenerationInv, TypeOK
      <4>2. FencedGeneration(slot[1], e.generation)
        BY <2>1, <4>1 DEF GenerationInv, GenerationsFenced, FencedGeneration
      <4>3. QED
        BY <2>2, <2>3, <3>2, <4>2, GenerationStep DEF GenerationInv, TypeOK
    <3>3. QED
      BY <3>1, <3>2, GenerationsOnlyObserved
  <2>8. QED
    BY <2>2, <2>5, <2>6, <2>7 DEF Eligible
<1>2. Spec => []Inv
  BY TypeCorrect, StreamInvariant, EvidenceIsAccepted, GenerationInvariant, PTL
<1>3. QED
  BY <1>1, <1>2, PTL DEF Spec, NoRevival
=============================================================================
