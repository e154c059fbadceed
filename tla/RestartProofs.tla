--------------------------- MODULE RestartProofs ----------------------------
(***************************************************************************)
(* Proofs about Restart: what holds of the evidence in one process holds   *)
(* through any number of saves and restarts, and no save is one that the   *)
(* next process has to refuse.                                             *)
(***************************************************************************)
EXTENDS Restart, EvidenceProofs, FiniteSetTheorems

(***************************************************************************)
(* The inductive invariant.  It is said of values rather than of the       *)
(* state, since it has to hold of the running process and of every         *)
(* snapshot on disk alike: a restart makes the one the other.              *)
(***************************************************************************)
RegistryTypes(src, kn, facts, current, retired, changes, acc, fen) ==
  /\ src \in [SourceIds -> SourceRecord]
  /\ kn \in SUBSET LinkIds
  /\ facts \in [LinkIds -> Generations \cup {NoGeneration}]
  /\ current \in [LinkIds -> Generations \cup {NoGeneration}]
  /\ retired \in [LinkIds -> Seq(Generations)]
  /\ changes \in [LinkIds -> Nat]
  /\ acc \in [LinkIds -> Nat]
  /\ fen \in [LinkIds -> Nat]

StreamTypes(scope, last, retired, changes, gaps, revs) ==
  /\ scope \in [SourceIds -> Scopes \cup {NoScope}]
  /\ last \in [SourceIds -> 0..MaxSequence \cup {NoSequence}]
  /\ retired \in [SourceIds -> Seq(Scopes)]
  /\ changes \in [SourceIds -> Nat]
  /\ gaps \in [SourceIds -> Nat]
  /\ revs \in [SourceIds -> SUBSET (Scopes \X (0..MaxSequence))]

SlotTypes(hist, cont, marked, acc, fen) ==
  /\ hist \in [Slots -> Seq(Evidence)]
  /\ cont \in [Slots -> [SourceIds -> Seq(Sample)]]
  /\ marked \in SUBSET Slots
  /\ acc \in Nat /\ fen \in Nat

\* StreamInv of these values.
StreamsSound(scope, last, retired, changes, revs) ==
  \A s \in SourceIds :
    /\ Len(retired[s]) <= MaxRetiredScopes
    /\ scope[s] = NoScope =>
         changes[s] = 0 /\ retired[s] = <<>> /\ last[s] = NoSequence /\ revs[s] = {}
    /\ scope[s] # NoScope /\ changes[s] <= MaxRetiredScopes + 1 =>
         Len(retired[s]) = changes[s] - 1
    /\ changes[s] <= MaxRetiredScopes + 1 =>
         \A r \in revs[s] :
           \/ r[1] = scope[s] /\ r[2] <= last[s]
           \/ r[1] # scope[s] /\ r[1] \in Range(retired[s])

\* GenerationInv of these values.
GenerationsSound(current, retired, changes, hist) ==
  /\ \A l \in LinkIds :
       /\ Len(retired[l]) <= MaxRetiredGenerations
       /\ changes[l] <= MaxRetiredGenerations => Len(retired[l]) = changes[l]
       /\ current[l] = NoGeneration => retired[l] = <<>> /\ changes[l] = 0
  /\ \A slot \in Slots : changes[slot[1]] <= MaxRetiredGenerations =>
       \A i \in DOMAIN hist[slot] :
         \/ hist[slot][i].generation = current[slot[1]]
         \/ hist[slot][i].generation \in Range(retired[slot[1]])

\* SampleInv of these values.
SamplesSound(cont, marked, scope, last, changes, gaps, revs) ==
  \A slot \in Slots, s \in SourceIds :
    LET x == cont[slot][s] IN
    /\ Len(x) <= 2
    /\ \A i \in DOMAIN x :
         /\ <<x[i].scope, x[i].sequence>> \in revs[s]
         /\ x[i].gap_epoch <= gaps[s]
         /\ x[i].scope = scope[s] /\ changes[s] <= MaxRetiredScopes + 1
              /\ x[i].gap_epoch = gaps[s] =>
                \A q \in x[i].sequence..last[s] : <<x[i].scope, q>> \in revs[s]
    /\ Len(x) = 2 /\ SameIdentity(x[1], x[2]) /\ changes[s] <= MaxRetiredScopes + 1 =>
         \/ /\ ~SequenceGap(x[1], x[2])
            /\ \A q \in x[1].sequence..x[2].sequence : <<x[1].scope, q>> \in revs[s]
         \/ SequenceGap(x[1], x[2]) /\ slot \in marked

\* The bounds: sources and links within their limits, slots and histories too;
\* whoever has a stream or a counter sample is registered, and nobody is
\* registered without a provenance.
Registered(src) == {s \in SourceIds : src[s].registered}
Retaining(hist) == {slot \in Slots : hist[slot] # <<>>}

SourcesBounded(src) ==
  /\ Cardinality(Registered(src)) <= MaxSources
  /\ \A s \in Registered(src) : src[s].provenance # UnknownProvenance

SlotsBounded(hist) ==
  /\ Cardinality(Retaining(hist)) <= MaxLinks * Cardinality(Keys)
  /\ \A slot \in Slots : Len(hist[slot]) <= MaxEvidence

SpeakersRegistered(src, scope, cont) ==
  \A s \in SourceIds :
    (scope[s] # NoScope \/ \E slot \in Slots : cont[slot][s] # <<>>) => src[s].registered

Sound(c) ==
  /\ RegistryTypes(c.sources, c.links.known, c.links.facts, c.links.current, c.links.retired,
                   c.links.changes, c.links.accepted, c.links.fenced)
  /\ StreamTypes(c.streams.scope, c.streams.last, c.streams.retired, c.streams.changes,
                 c.streams.gaps, c.revisions)
  /\ SlotTypes(c.slots.history, c.slots.continuity, c.slots.gaps, c.accepted, c.fenced)
  /\ c.transitions \in [LinkIds -> [Kinds -> Nat]]
  /\ StreamsSound(c.streams.scope, c.streams.last, c.streams.retired, c.streams.changes,
                  c.revisions)
  /\ GenerationsSound(c.links.current, c.links.retired, c.links.changes, c.slots.history)
  /\ SamplesSound(c.slots.continuity, c.slots.gaps, c.streams.scope, c.streams.last,
                  c.streams.changes, c.streams.gaps, c.revisions)
  /\ SourcesBounded(c.sources)
  /\ Cardinality(c.links.known) <= MaxLinks
  /\ SlotsBounded(c.slots.history)
  /\ SpeakersRegistered(c.sources, c.streams.scope, c.slots.continuity)
  /\ c.slots.live = Retaining(c.slots.history)
  /\ c.streams.live = {s \in SourceIds : c.streams.scope[s] # NoScope}
  /\ SumFunction(c.links.accepted) = c.accepted

BoundInv ==
  /\ SourcesBounded(sources)
  /\ Cardinality(known) <= MaxLinks
  /\ SlotsBounded(history)
  /\ SpeakersRegistered(sources, curScope, continuity)

ProcessInv == TypeOK /\ StreamInv /\ GenerationInv /\ SampleInv /\ BoundInv /\ TotalsAgree

DiskInv == \E S : disk \in Seq(S) /\ \A c \in S : Sound(c)

LifeInv == ProcessInv /\ DiskInv

(***************************************************************************)
(* Saving and restoring.                                                   *)
(***************************************************************************)
\* The invariants of the process, said of values.
LEMMA ProcessValues ==
  ASSUME ProcessInv
  PROVE  /\ RegistryTypes(sources, known, factsGeneration, currentGeneration, retiredGenerations,
                          generationChanges, linkAccepted, linkFenced)
         /\ StreamTypes(curScope, lastSeq, retiredScopes, scopeChanges, gapCount, acceptedRevs)
         /\ SlotTypes(history, continuity, gapSlots, totalAccepted, totalFenced)
         /\ events \in [LinkIds -> [Kinds -> Nat]]
         /\ StreamsSound(curScope, lastSeq, retiredScopes, scopeChanges, acceptedRevs)
         /\ GenerationsSound(currentGeneration, retiredGenerations, generationChanges, history)
         /\ SamplesSound(continuity, gapSlots, curScope, lastSeq, scopeChanges, gapCount,
                         acceptedRevs)
<1>1. TypeOK /\ StreamInv /\ GenerationInv /\ SampleInv
  BY DEF ProcessInv
<1>2. RegistryTypeOK /\ StoreTypeOK /\ events \in [LinkIds -> [Kinds -> Nat]]
  BY <1>1 DEF TypeOK
<1>3. RegistryTypes(sources, known, factsGeneration, currentGeneration, retiredGenerations,
                    generationChanges, linkAccepted, linkFenced)
  BY <1>2 DEF RegistryTypeOK, RegistryTypes
<1>4. /\ StreamTypes(curScope, lastSeq, retiredScopes, scopeChanges, gapCount, acceptedRevs)
      /\ SlotTypes(history, continuity, gapSlots, totalAccepted, totalFenced)
  BY <1>2 DEF StoreTypeOK, StreamTypes, SlotTypes
<1>5. StreamsSound(curScope, lastSeq, retiredScopes, scopeChanges, acceptedRevs)
  BY <1>1 DEF StreamInv, ScopesRemembered, AcceptedRevisionsFenced, RemembersScopes, StreamsSound
<1>6. GenerationsSound(currentGeneration, retiredGenerations, generationChanges, history)
  BY <1>1 DEF GenerationInv, GenerationsRemembered, GenerationsFenced, RemembersGenerations,
     HasGeneration, GenerationsSound
<1>7. SamplesSound(continuity, gapSlots, curScope, lastSeq, scopeChanges, gapCount, acceptedRevs)
  BY <1>1 DEF SampleInv, SamplesAccounted, Accounted, DeltaNeverSpansLoss, RemembersScopes,
     SamplesSound
<1>8. QED
  BY <1>2, <1>3, <1>4, <1>5, <1>6, <1>7

\* collect_snapshot writes down a sound state.
LEMMA CollectedIsSound ==
  ASSUME ProcessInv
  PROVE  Sound(CollectSnapshot)
<1> DEFINE c == CollectSnapshot
<1>1. /\ c.sources = sources /\ c.links.known = known /\ c.links.facts = factsGeneration
      /\ c.links.current = currentGeneration /\ c.links.retired = retiredGenerations
      /\ c.links.changes = generationChanges /\ c.links.accepted = linkAccepted
      /\ c.links.fenced = linkFenced
  BY DEF CollectSnapshot
<1>2. /\ c.streams.scope = curScope /\ c.streams.last = lastSeq
      /\ c.streams.retired = retiredScopes /\ c.streams.changes = scopeChanges
      /\ c.streams.gaps = gapCount /\ c.streams.live = {s \in SourceIds : curScope[s] # NoScope}
  BY DEF CollectSnapshot, Streams
<1>3. /\ c.slots.history = history /\ c.slots.continuity = continuity
      /\ c.slots.gaps = gapSlots /\ c.slots.live = Retaining(history)
  BY DEF CollectSnapshot, LiveSlots, Retaining
<1>4. /\ c.transitions = events /\ c.accepted = totalAccepted /\ c.fenced = totalFenced
      /\ c.revisions = acceptedRevs
  BY DEF CollectSnapshot
<1> HIDE DEF c
<1>5. BoundInv
  BY DEF ProcessInv
<1>6. SumFunction(linkAccepted) = totalAccepted
  BY DEF ProcessInv, TotalsAgree
<1>7. Sound(c)
  BY <1>1, <1>2, <1>3, <1>4, <1>5, <1>6, ProcessValues DEF Sound, BoundInv
<1>8. QED
  BY <1>7 DEF c

\* restore_from brings a sound state back.
LEMMA RestoredIsSound ==
  ASSUME NEW c, Sound(c), RestoreFrom(c)
  PROVE  ProcessInv'
<1>1. /\ c.sources = sources' /\ c.links.known = known' /\ c.links.facts = factsGeneration'
      /\ c.links.current = currentGeneration' /\ c.links.retired = retiredGenerations'
      /\ c.links.changes = generationChanges' /\ c.links.accepted = linkAccepted'
      /\ c.links.fenced = linkFenced'
  BY DEF RestoreFrom, RestoreSources, RestoreLinks
<1>2. /\ c.streams.scope = curScope' /\ c.streams.last = lastSeq'
      /\ c.streams.retired = retiredScopes' /\ c.streams.changes = scopeChanges'
      /\ c.streams.gaps = gapCount'
  BY DEF RestoreFrom, RestoreStreams
<1>3. /\ c.slots.history = history' /\ c.slots.continuity = continuity'
      /\ c.slots.gaps = gapSlots'
  BY DEF RestoreFrom, RestoreSlots
<1>4. /\ c.transitions = events' /\ c.accepted = totalAccepted' /\ c.fenced = totalFenced'
      /\ c.revisions = acceptedRevs' /\ accepted' = c.accepted /\ fenced' = c.fenced
  BY DEF RestoreFrom, RestoreTotals
<1>5. TypeOK'
  <2>1. RegistryTypeOK'
    BY <1>1 DEF Sound, RegistryTypes, RegistryTypeOK
  <2>2. StoreTypeOK' /\ accepted' \in Nat /\ fenced' \in Nat
    BY <1>2, <1>3, <1>4 DEF Sound, StreamTypes, SlotTypes, StoreTypeOK
  <2>3. observed' \in [LinkIds -> Verdicts \cup {NoVerdict}]
    BY DEF RestoreFrom, Forget
  <2>4. submitted' = 0 /\ ownFenced' = 0 /\ declared' = 0
    BY DEF RestoreFrom, Forget
  <2>5. events' \in [LinkIds -> [Kinds -> Nat]]
    BY <1>4 DEF Sound
  <2>6. QED
    BY <2>1, <2>2, <2>3, <2>4, <2>5 DEF TypeOK
<1>6. StreamInv'
  <2>1. StreamsSound(curScope', lastSeq', retiredScopes', scopeChanges', acceptedRevs')
    BY <1>2, <1>4 DEF Sound
  <2>2. QED
    BY <2>1 DEF StreamInv, ScopesRemembered, AcceptedRevisionsFenced, RemembersScopes, StreamsSound
<1>7. GenerationInv'
  <2>1. GenerationsSound(currentGeneration', retiredGenerations', generationChanges', history')
    BY <1>1, <1>3 DEF Sound
  <2>2. QED
    BY <2>1 DEF GenerationInv, GenerationsRemembered, GenerationsFenced, RemembersGenerations,
       HasGeneration, GenerationsSound
<1>8. SampleInv'
  <2>1. SamplesSound(continuity', gapSlots', curScope', lastSeq', scopeChanges', gapCount',
                     acceptedRevs')
    BY <1>2, <1>3, <1>4 DEF Sound
  <2>2. QED
    BY <2>1 DEF SampleInv, SamplesAccounted, Accounted, DeltaNeverSpansLoss, RemembersScopes,
       SamplesSound, SameIdentity, SequenceGap
<1>9. BoundInv'
  <2>1. /\ SourcesBounded(sources') /\ Cardinality(known') <= MaxLinks /\ SlotsBounded(history')
        /\ SpeakersRegistered(sources', curScope', continuity')
    BY <1>1, <1>2, <1>3 DEF Sound
  <2>2. QED
    BY <2>1 DEF BoundInv, SourcesBounded, SlotsBounded, SpeakersRegistered, Registered, Retaining
<1>10. TotalsAgree'
  <2>1. c.fenced \in Nat /\ SumFunction(c.links.accepted) = c.accepted
    BY DEF Sound, SlotTypes
  <2>2. ownFenced' = 0
    BY DEF RestoreFrom, Forget
  <2>3. QED
    BY <1>1, <1>4, <2>1, <2>2 DEF TotalsAgree
<1>11. QED
  BY <1>5, <1>6, <1>7, <1>8, <1>9, <1>10 DEF ProcessInv

(***************************************************************************)
(* The bounds in one process.                                              *)
(***************************************************************************)
\* What is counted is finite.
LEMMA Finite ==
  /\ IsFiniteSet(SourceIds) /\ IsFiniteSet(LinkIds) /\ IsFiniteSet(Slots)
  /\ Cardinality(Keys) \in Nat /\ MaxLinks * Cardinality(Keys) \in Nat
<1>1. IsFiniteSet(SourceIds) /\ IsFiniteSet(LinkIds) /\ IsFiniteSet(Keys) /\ MaxLinks \in Nat
  BY RegistryAssumption, StoreAssumption
<1>2. IsFiniteSet(Slots)
  BY <1>1, FS_Product DEF Slots
<1>3. Cardinality(Keys) \in Nat
  BY <1>1, FS_CardinalityType
<1>4. \A m, n \in Nat : m * n \in Nat
  OBVIOUS
<1>5. QED
  BY <1>1, <1>2, <1>3, <1>4

\* One more member of a finite set that has room for it.
LEMMA RoomForOne ==
  ASSUME NEW U, IsFiniteSet(U), NEW S \in SUBSET U, NEW x \in U, NEW n \in Nat,
         Cardinality(S) <= n, x \in S \/ Cardinality(S) < n
  PROVE  Cardinality(S \cup {x}) <= n
<1>1. IsFiniteSet(S) /\ Cardinality(S) \in Nat
  BY FS_Subset, FS_CardinalityType
<1>2. Cardinality(S \cup {x}) = IF x \in S THEN Cardinality(S) ELSE Cardinality(S) + 1
  BY <1>1, FS_AddElement
<1>3. QED
  BY <1>1, <1>2

\* register_source keeps to max_sources and to declared provenances.
LEMMA SourcesStep ==
  ASSUME TypeOK, SourcesBounded(sources), [Next]_vars
  PROVE  /\ SourcesBounded(sources')
         /\ Registered(sources) \subseteq Registered(sources')
<1>1. CASE UNCHANGED sources
  BY <1>1
<1>2. ASSUME NEW s \in SourceIds, NEW a \in Authorities, NEW p \in Provenances, NEW r \in BOOLEAN,
             CanRegisterSource(s, a, p), RegisterSource(s, a, p, r)
      PROVE  /\ SourcesBounded(sources')
             /\ Registered(sources) \subseteq Registered(sources')
  <2>1. sources \in [SourceIds -> SourceRecord]
    BY DEF TypeOK, RegistryTypeOK
  <2>2. /\ sources'[s].registered /\ sources'[s].provenance = p /\ p # UnknownProvenance
        /\ \A x \in SourceIds \ {s} : sources'[x] = sources[x]
    BY <1>2, <2>1 DEF RegisterSource, CanRegisterSource
  <2>3. Registered(sources') = Registered(sources) \cup {s}
    BY <2>2 DEF Registered
  <2>4. s \in Registered(sources) \/ Cardinality(Registered(sources)) < MaxSources
    BY <1>2 DEF CanRegisterSource, RegisteredSources, Registered
  <2>5. Cardinality(Registered(sources')) <= MaxSources
    <3>1. Registered(sources) \in SUBSET SourceIds /\ MaxSources \in Nat
      BY RegistryAssumption DEF Registered
    <3>2. Cardinality(Registered(sources)) <= MaxSources
      BY DEF SourcesBounded
    <3>3. QED
      BY <2>3, <2>4, <3>1, <3>2, Finite, RoomForOne
  <2>6. \A x \in Registered(sources') : sources'[x].provenance # UnknownProvenance
    BY <2>2, <2>3 DEF SourcesBounded, Registered
  <2>7. QED
    BY <2>3, <2>5, <2>6 DEF SourcesBounded
<1>3. CASE \E s \in SourceIds, a \in Authorities, p \in Provenances, r \in BOOLEAN :
             ApplySource(s, a, p, r)
  BY <1>1, <1>2, <1>3 DEF ApplySource
<1>4. CASE \E l \in LinkIds, g \in Generations : ApplyLink(l, g) \/ RejectLink(l, g)
  BY <1>1, <1>4 DEF ApplyLink, RejectLink, registryVars
<1>5. CASE \E o \in Observation : ApplyObservation(o)
  BY <1>1, <1>5 DEF ApplyObservation, FenceUnheard, FenceUnknownLink, FenceGeneration,
     FenceInStore, Accept, ReachesStore, Submit
<1>6. CASE UNCHANGED vars
  BY <1>1, <1>6 DEF vars, registryVars
<1>7. QED
  BY <1>3, <1>4, <1>5, <1>6 DEF Next

\* Links are added while there is room, by declarations and by observations.
LEMMA LinksStep ==
  ASSUME TypeOK, Cardinality(known) <= MaxLinks, [Next]_vars
  PROVE  Cardinality(known') <= MaxLinks
<1>1. CASE UNCHANGED known
  BY <1>1
<1>2. ASSUME NEW l \in LinkIds, known' = known \cup {l},
             l \in known \/ Cardinality(known) < MaxLinks
      PROVE  Cardinality(known') <= MaxLinks
  <2>1. known \in SUBSET LinkIds /\ MaxLinks \in Nat
    BY RegistryAssumption DEF TypeOK, RegistryTypeOK
  <2>2. QED
    BY <1>2, <2>1, Finite, RoomForOne
<1>3. CASE \E s \in SourceIds, a \in Authorities, p \in Provenances, r \in BOOLEAN :
             ApplySource(s, a, p, r)
  BY <1>1, <1>3 DEF ApplySource, linkVars
<1>4. ASSUME NEW l \in LinkIds, NEW g \in Generations, ApplyLink(l, g) \/ RejectLink(l, g)
      PROVE  Cardinality(known') <= MaxLinks
  <2>1. CASE ApplyLink(l, g)
    BY <1>2, <2>1 DEF ApplyLink, CanRegisterLink, RegisterLink
  <2>2. CASE RejectLink(l, g)
    BY <1>1, <2>2 DEF RejectLink, registryVars, linkVars
  <2>3. QED
    BY <1>4, <2>1, <2>2
<1>5. ASSUME NEW o \in Observation, ApplyObservation(o)
      PROVE  Cardinality(known') <= MaxLinks
  <2>1. CASE FenceUnheard(o) \/ FenceUnknownLink(o) \/ FenceGeneration(o)
    BY <1>1, <2>1 DEF FenceUnheard, FenceUnknownLink, FenceGeneration, linkVars
  <2>2. CASE ReachesStore(o)
    BY <1>2, <2>2, ObservationParts DEF ReachesStore, EnsureLink, CanEnsureLink
  <2>3. QED
    BY <1>5, <2>1, <2>2 DEF ApplyObservation, FenceInStore, Accept
<1>6. CASE UNCHANGED vars
  BY <1>1, <1>6 DEF vars, registryVars, linkVars
<1>7. QED
  BY <1>3, <1>4, <1>5, <1>6 DEF Next

\* A slot is opened while there is room, and a full history makes room.
LEMMA SlotsStep ==
  ASSUME TypeOK, SlotsBounded(history), [Next]_vars
  PROVE  SlotsBounded(history')
<1>1. CASE UNCHANGED <<slotVars, acceptedRevs>>
  BY <1>1 DEF slotVars
<1>2. ASSUME NEW o \in Observation, NEW v \in Verdicts, Accept(o, v)
      PROVE  SlotsBounded(history')
  <2> DEFINE slot == SlotOf(o)
  <2> DEFINE e == EvidenceOf(o, AuthorityOf(o))
  <2>1. slot \in Slots /\ history \in [Slots -> Seq(Evidence)] /\ MaxEvidence \in Nat \ {0}
    BY ObservationParts, StoreAssumption DEF TypeOK, StoreTypeOK
  <2>2. e \in Evidence
    <3>1. AuthorityOf(o) \in Authorities
      BY ObservationParts DEF AuthorityOf, TypeOK, RegistryTypeOK, SourceRecord
    <3>2. QED
      BY <3>1, ObservationParts DEF EvidenceOf, Evidence, Observation
  <2>3. /\ history' = [history EXCEPT ![slot] = PushRetired(history[slot], e, MaxEvidence)]
        /\ ~StoreFull(o)
    BY <1>2 DEF Accept, Admit, RefusedLate
  <2>4. history[slot] = <<>> => Cardinality(Retaining(history)) < MaxLinks * Cardinality(Keys)
    <3>1. Retaining(history) = LiveSlots
      BY DEF Retaining, LiveSlots
    <3>2. IsFiniteSet(Retaining(history)) /\ Cardinality(Retaining(history)) \in Nat
      BY Finite, FS_Subset, FS_CardinalityType DEF Retaining
    <3>3. QED
      BY <2>3, <3>1, <3>2, Finite DEF StoreFull
  <2> HIDE DEF slot, e
  <2>5. PICK h : h = PushRetired(history[slot], e, MaxEvidence)
    OBVIOUS
  <2>6. Len(h) <= MaxEvidence /\ h # <<>>
    <3>1. history[slot] \in Seq(Evidence) /\ Len(history[slot]) <= MaxEvidence
      BY <2>1 DEF SlotsBounded
    <3>2. Len(h) <= MaxEvidence
      BY <2>1, <2>2, <2>5, <3>1, PushRetiredLength
    <3>3. h \in Seq(Evidence) /\ Len(h) >= 1
      BY <2>1, <2>2, <2>5, <3>1, PushRetiredShape
    <3>4. QED
      BY <3>2, <3>3
  <2>7. history'[slot] = h /\ \A x \in Slots \ {slot} : history'[x] = history[x]
    BY <2>1, <2>3, <2>5
  <2>8. Retaining(history') = Retaining(history) \cup {slot}
    BY <2>1, <2>6, <2>7 DEF Retaining
  <2>9. Cardinality(Retaining(history')) <= MaxLinks * Cardinality(Keys)
    <3>1. PICK n \in Nat : n = MaxLinks * Cardinality(Keys)
      BY Finite
    <3>2. slot \in Retaining(history) \/ Cardinality(Retaining(history)) < n
      BY <2>1, <2>4, <3>1 DEF Retaining
    <3>3. Retaining(history) \in SUBSET Slots /\ Cardinality(Retaining(history)) <= n
      BY <3>1 DEF Retaining, SlotsBounded
    <3>4. QED
      BY <2>1, <2>8, <3>1, <3>2, <3>3, Finite, RoomForOne
  <2>10. \A x \in Slots : Len(history'[x]) <= MaxEvidence
    BY <2>6, <2>7 DEF SlotsBounded
  <2>11. QED
    BY <2>9, <2>10 DEF SlotsBounded
<1>3. QED
  BY <1>1, <1>2, SlotsOnlyByAccept

\* Only a registered source gets a stream or a sample.
LEMMA SpeakersStep ==
  ASSUME TypeOK, SourcesBounded(sources), SpeakersRegistered(sources, curScope, continuity),
         [Next]_vars
  PROVE  SpeakersRegistered(sources', curScope', continuity')
<1>1. \A s \in SourceIds : sources[s].registered => sources'[s].registered
  BY SourcesKeepStanding
<1>2. CASE UNCHANGED <<curScope, continuity>>
  BY <1>1, <1>2 DEF SpeakersRegistered
<1>3. ASSUME NEW o \in Observation, FenceInStore(o) \/ \E v \in Verdicts : Accept(o, v)
      PROVE  SpeakersRegistered(sources', curScope', continuity')
  <2>1. o.source \in SourceIds /\ sources[o.source].registered /\ sources' = sources
    BY <1>3, ObservationParts DEF FenceInStore, Accept, ReachesStore, Submit, Unheard, Speaks
  <2>2. \A s \in SourceIds \ {o.source} : curScope'[s] = curScope[s]
    <3>1. CASE AdvanceStream(o)
      BY <3>1, AdvanceStreamEffect DEF TypeOK
    <3>2. CASE curScope' = curScope
      BY <3>2
    <3>3. QED
      BY <1>3, <3>1, <3>2
      DEF FenceInStore, RefuseUntouched, RefuseLate, streamVars, Accept, Admit
  <2>3. \A s \in SourceIds \ {o.source} : \A slot \in Slots :
          continuity'[slot][s] = continuity[slot][s]
    <3>1. CASE FenceInStore(o)
      BY <3>1 DEF FenceInStore, RefuseUntouched, RefuseLate, slotVars
    <3>2. CASE \E v \in Verdicts : Accept(o, v)
      BY <3>2, ContinuityStep
    <3>3. QED
      BY <1>3, <3>1, <3>2
  <2>4. QED
    BY <2>1, <2>2, <2>3 DEF SpeakersRegistered
<1>4. CASE \E o \in Observation : ApplyObservation(o)
  <2> PICK o \in Observation : ApplyObservation(o)
    BY <1>4
  <2>1. CASE FenceUnheard(o) \/ FenceUnknownLink(o) \/ FenceGeneration(o)
    BY <1>2, <2>1 DEF FenceUnheard, FenceUnknownLink, FenceGeneration, RefuseUntouched,
       storeVars, streamVars, slotVars
  <2>2. QED
    BY <1>3, <2>1 DEF ApplyObservation
<1>5. CASE \E s \in SourceIds, a \in Authorities, p \in Provenances, r \in BOOLEAN :
             ApplySource(s, a, p, r)
  BY <1>2, <1>5 DEF ApplySource, storeVars, streamVars, slotVars
<1>6. CASE \E l \in LinkIds, g \in Generations : ApplyLink(l, g) \/ RejectLink(l, g)
  BY <1>2, <1>6 DEF ApplyLink, RejectLink, storeVars, streamVars, slotVars
<1>7. CASE UNCHANGED vars
  BY <1>2, <1>7 DEF vars, storeVars, streamVars, slotVars
<1>8. QED
  BY <1>4, <1>5, <1>6, <1>7 DEF Next

(***************************************************************************)
(* Any number of lives.                                                    *)
(***************************************************************************)
\* Every observation counts once with the runtime, the store and the links.
LEMMA TotalsStep ==
  ASSUME TypeOK, TotalsAgree, [Next]_vars
  PROVE  TotalsAgree'
<1>1. /\ accepted \in Nat /\ fenced \in Nat /\ ownFenced \in Nat
      /\ totalAccepted \in Nat /\ totalFenced \in Nat
  BY DEF TypeOK, StoreTypeOK
<1>2. CASE CountsAccepted
  <2>1. SumFunction(linkAccepted') = SumFunction(linkAccepted) + 1
    BY <1>2, StepSums
  <2>2. QED
    BY <1>1, <1>2, <2>1 DEF CountsAccepted, TotalsAgree
<1>3. CASE CountsFenced
  BY <1>1, <1>3 DEF CountsFenced, TotalsAgree
<1>4. CASE CountsNothing
  BY <1>4 DEF CountsNothing, TotalsAgree
<1>5. QED
  BY <1>2, <1>3, <1>4, StepCounts

\* A record applied by the running process.
LEMMA ProcessStep ==
  ASSUME ProcessInv, [Next]_vars
  PROVE  ProcessInv'
<1>1. TypeOK /\ StreamInv /\ GenerationInv /\ SampleInv /\ BoundInv /\ TotalsAgree
  BY DEF ProcessInv
<1>2. TypeOK' /\ StreamInv' /\ GenerationInv'
  BY <1>1, TypeStep, StreamInvStep, GenerationInvStep
<1>3. SampleInv'
  BY <1>1, SamplesAccountedStep, DeltaStep DEF SampleInv
<1>4. /\ SourcesBounded(sources') /\ Cardinality(known') <= MaxLinks /\ SlotsBounded(history')
      /\ SpeakersRegistered(sources', curScope', continuity')
  BY <1>1, SourcesStep, LinksStep, SlotsStep, SpeakersStep DEF BoundInv
<1>5. BoundInv'
  BY <1>4 DEF BoundInv, SourcesBounded, SlotsBounded, SpeakersRegistered, Registered, Retaining
<1>6. TotalsAgree'
  BY <1>1, TotalsStep
<1>7. QED
  BY <1>2, <1>3, <1>5, <1>6 DEF ProcessInv

\* A step that leaves the process alone.
LEMMA ProcessUntouched ==
  ASSUME ProcessInv, UNCHANGED vars
  PROVE  ProcessInv'
BY ProcessStep

\* persist puts what it collected in front and drops all but the last primary.
LEMMA PersistStep ==
  ASSUME ProcessInv, DiskInv, Persist
  PROVE  DiskInv'
<1>1. PICK S : disk \in Seq(S) /\ \A c \in S : Sound(c)
  BY DEF DiskInv
<1>2. PICK c : c = CollectSnapshot
  OBVIOUS
<1>3. Sound(c)
  BY <1>2, CollectedIsSound
<1>4. PICK T : T = S \cup {c}
  OBVIOUS
<1>5. disk \in Seq(T) /\ <<c>> \in Seq(T) /\ Len(<<c>>) = 1
  BY <1>1, <1>4
<1>6. PICK d : d = <<c>> \o disk
  OBVIOUS
<1>7. d \in Seq(T) /\ Len(d) = 1 + Len(disk)
  BY <1>5, <1>6
<1>8. PICK n : n = IF disk = <<>> THEN 1 ELSE 2
  OBVIOUS
<1>9. n \in 1..Len(d)
  <2>1. disk # <<>> => Len(disk) >= 1
    BY <1>1
  <2>2. Len(disk) \in Nat
    BY <1>1
  <2>3. QED
    BY <1>7, <1>8, <2>1, <2>2
<1>10. SubSeq(d, 1, n) \in Seq(T)
  BY <1>7, <1>9
<1>11. disk' = SubSeq(d, 1, n)
  BY <1>2, <1>6, <1>8 DEF Persist
<1>12. disk' \in Seq(T) /\ \A x \in T : Sound(x)
  BY <1>1, <1>3, <1>4, <1>10, <1>11
<1>13. QED
  BY <1>12 DEF DiskInv

\* Every process and every snapshot is sound.
LEMMA LifeInvariant == LifeSpec => []LifeInv
<1>1. LifeInit => LifeInv
  <2> SUFFICES ASSUME LifeInit PROVE LifeInv
    OBVIOUS
  <2>1. Init /\ TypeOK
    BY TypeInit DEF LifeInit
  <2>2. StreamInv
    BY <2>1, StoreAssumption DEF Init, StoreInit, StreamInv, ScopesRemembered,
       AcceptedRevisionsFenced
  <2>3. GenerationInv
    BY <2>1, RegistryAssumption DEF Init, RegistryInit, StoreInit, GenerationInv,
       GenerationsRemembered, GenerationsFenced
  <2>4. SampleInv
    BY <2>1 DEF Init, StoreInit, SampleInv, SamplesAccounted, DeltaNeverSpansLoss
  <2>5. BoundInv
    <3>1. Registered(sources) = {} /\ known = {} /\ Retaining(history) = {}
      BY <2>1 DEF Init, RegistryInit, StoreInit, Registered, Retaining
    <3>2. \A slot \in Slots : Len(history[slot]) <= MaxEvidence
      BY <2>1, StoreAssumption DEF Init, StoreInit
    <3>3. SpeakersRegistered(sources, curScope, continuity)
      BY <2>1 DEF Init, StoreInit, SpeakersRegistered
    <3>4. PICK n \in Nat : n = MaxLinks * Cardinality(Keys)
      BY Finite
    <3>5. Cardinality({}) = 0 /\ MaxSources \in Nat /\ MaxLinks \in Nat
      BY RegistryAssumption, FS_EmptySet
    <3>6. QED
      BY <3>1, <3>2, <3>3, <3>4, <3>5 DEF BoundInv, SourcesBounded, SlotsBounded
  <2>6. DiskInv
    <3>1. disk \in Seq({}) /\ \A c \in {} : Sound(c)
      BY DEF LifeInit
    <3>2. QED
      BY <3>1 DEF DiskInv
  <2>7. TotalsAgree
    <3>1. linkAccepted = [l \in LinkIds |-> 0]
      BY <2>1 DEF Init, RegistryInit
    <3>2. SumFunction(linkAccepted) = 0
      BY <3>1, RegistryAssumption, SumOfZeros
    <3>3. QED
      BY <2>1, <3>2 DEF Init, StoreInit, TotalsAgree
  <2>8. QED
    BY <2>1, <2>2, <2>3, <2>4, <2>5, <2>6, <2>7 DEF LifeInv, ProcessInv
<1>2. LifeInv /\ [LifeNext]_<<vars, lifeVars>> => LifeInv'
  <2> SUFFICES ASSUME LifeInv, [LifeNext]_<<vars, lifeVars>> PROVE LifeInv'
    OBVIOUS
  <2>1. ProcessInv /\ DiskInv
    BY DEF LifeInv
  <2>2. CASE [Next]_vars /\ UNCHANGED disk
    BY <2>1, <2>2, ProcessStep DEF LifeInv, DiskInv
  <2>3. CASE Persist
    BY <2>1, <2>3, ProcessUntouched, PersistStep DEF Persist, LifeInv
  <2>4. CASE Restart
    <3>1. PICK i \in DOMAIN disk : RestoreFrom(disk[i])
      BY <2>4 DEF Restart
    <3>2. Sound(disk[i])
      BY <2>1, <3>1 DEF DiskInv
    <3>3. ProcessInv'
      BY <3>1, <3>2, RestoredIsSound
    <3>4. DiskInv'
      BY <2>1, <2>4 DEF Restart, DiskInv
    <3>5. QED
      BY <3>3, <3>4 DEF LifeInv
  <2>5. QED
    BY <2>2, <2>3, <2>4 DEF LifeNext, lifeVars
<1>3. QED
  BY <1>1, <1>2, PTL DEF LifeSpec

\* Types survive every save and restart (restore_from restores everything that
\* collect_snapshot wrote, and nothing else).
THEOREM LivesKeepTypes == LifeSpec => []TypeOK
BY LifeInvariant, PTL DEF LifeInv, ProcessInv

\* At-most-once ingest through any number of restarts: what the restored
\* process has had accepted, it fences, because the stream positions and the
\* retired scopes are restored with the evidence.
THEOREM AtMostOnceThroughRestarts == LifeSpec => []AcceptedRevisionsFenced
BY LifeInvariant, PTL DEF LifeInv, ProcessInv, StreamInv

\* No delta spans a lost revision, not even one between a sample taken before a
\* restart and one taken after it.
THEOREM NoLossSpannedThroughRestarts == LifeSpec => []DeltaNeverSpansLoss
BY LifeInvariant, PTL DEF LifeInv, ProcessInv, SampleInv

\* Replays of superseded topologies stay fenced through restarts.
THEOREM GenerationsFencedThroughRestarts == LifeSpec => []GenerationsFenced
BY LifeInvariant, PTL DEF LifeInv, ProcessInv, GenerationInv

\* The counters agree in a process that restored them as in the one that
\* counted (restore_totals, and the counters collect_snapshot saves per link).
THEOREM TotalsAgreeThroughRestarts == LifeSpec => []TotalsAgree
BY LifeInvariant, PTL DEF LifeInv, ProcessInv

\* A sound snapshot passes every bound of load_once and of restore_from.
LEMMA SoundIsRestorable ==
  ASSUME NEW c, Sound(c)
  PROVE  Restorable(c)
<1>1. /\ SourcesBounded(c.sources) /\ Cardinality(c.links.known) <= MaxLinks
      /\ SlotsBounded(c.slots.history) /\ c.slots.live = Retaining(c.slots.history)
      /\ c.streams.live = {s \in SourceIds : c.streams.scope[s] # NoScope}
      /\ SpeakersRegistered(c.sources, c.streams.scope, c.slots.continuity)
      /\ c.links.known \in SUBSET LinkIds
  BY DEF Sound, RegistryTypes
<1>2. /\ \A l \in LinkIds : Len(c.links.retired[l]) <= MaxRetiredGenerations
      /\ \A s \in SourceIds : Len(c.streams.retired[s]) <= MaxRetiredScopes
  BY DEF Sound, GenerationsSound, StreamsSound
<1>3. /\ \A l \in LinkIds : Len(c.links.retired[l]) \in Nat
      /\ \A s \in SourceIds : Len(c.streams.retired[s]) \in Nat
      /\ \A slot \in Slots : Len(c.slots.history[slot]) \in Nat
  BY DEF Sound, RegistryTypes, StreamTypes, SlotTypes
<1>4. /\ MaxRetiredGenerations \in Nat /\ MaxRetiredScopes \in Nat /\ MaxEvidence \in Nat
      /\ MaxSources \in Nat
      /\ DecodedRetired \in Nat /\ DecodedEvidence \in Nat /\ DecodedSources \in Nat
      /\ DecodedRetired >= MaxRetiredScopes /\ DecodedRetired >= MaxRetiredGenerations
      /\ DecodedEvidence >= MaxEvidence /\ DecodedSources >= MaxSources
  BY RegistryAssumption, StoreAssumption, RestartAssumption
<1>5. ASSUME NEW T \in SUBSET Registered(c.sources)
      PROVE  Cardinality(T) \in Nat /\ Cardinality(T) <= MaxSources
  <2>1. IsFiniteSet(Registered(c.sources))
    BY Finite, FS_Subset DEF Registered
  <2>2. /\ IsFiniteSet(T) /\ Cardinality(T) <= Cardinality(Registered(c.sources))
        /\ Cardinality(T) \in Nat /\ Cardinality(Registered(c.sources)) \in Nat
    BY <2>1, FS_Subset, FS_CardinalityType
  <2>3. QED
    BY <1>1, <1>4, <2>2 DEF SourcesBounded
<1>6. SourcesRestorable(c)
  BY <1>1 DEF SourcesBounded, Registered, SourcesRestorable
<1>7. LinksRestorable(c)
  BY <1>1, <1>2, <1>3, <1>4 DEF LinksRestorable
<1>8. SlotsRestorable(c)
  <2>1. ASSUME NEW slot \in Slots
        PROVE  LET sampled == {s \in SourceIds : c.slots.continuity[slot][s] # <<>>} IN
               /\ Len(c.slots.history[slot]) <= DecodedEvidence
               /\ Len(c.slots.history[slot]) <= MaxEvidence
               /\ Cardinality(sampled) <= DecodedSources /\ Cardinality(sampled) <= MaxSources
    <3> DEFINE sampled == {s \in SourceIds : c.slots.continuity[slot][s] # <<>>}
    <3>1. sampled \in SUBSET Registered(c.sources)
      BY <1>1 DEF SpeakersRegistered, Registered
    <3>2. Cardinality(sampled) \in Nat /\ Cardinality(sampled) <= MaxSources
      BY <1>5, <3>1
    <3>3. Len(c.slots.history[slot]) <= MaxEvidence
      BY <1>1 DEF SlotsBounded
    <3> HIDE DEF sampled
    <3>4. Cardinality(sampled) <= DecodedSources
      BY <1>4, <3>2
    <3>5. Len(c.slots.history[slot]) <= DecodedEvidence
      BY <1>3, <1>4, <3>3
    <3>6. QED
      BY <3>2, <3>3, <3>4, <3>5 DEF sampled
  <2>2. c.slots.live \subseteq Slots /\ Cardinality(c.slots.live) <= MaxLinks * Cardinality(Keys)
    BY <1>1 DEF Retaining, SlotsBounded
  <2>3. QED
    BY <2>1, <2>2 DEF SlotsRestorable
<1>9. StreamsRestorable(c)
  <2>1. c.streams.live \in SUBSET Registered(c.sources) /\ c.streams.live \subseteq SourceIds
    BY <1>1 DEF SpeakersRegistered, Registered
  <2>2. Cardinality(c.streams.live) <= MaxSources
    BY <1>5, <2>1
  <2>3. QED
    BY <1>2, <1>3, <1>4, <2>1, <2>2 DEF StreamsRestorable
<1>10. QED
  BY <1>6, <1>7, <1>8, <1>9 DEF Restorable

\* No save is refused by the process that starts from it: whatever was ingested,
\* and whatever older saves were restored on the way, every bound load_once and
\* restore_from insist on holds of every snapshot on disk.
THEOREM SavesAreRestorable == LifeSpec => []SavedIsRestorable
<1>1. LifeInv => SavedIsRestorable
  <2>1. ASSUME DiskInv, NEW i \in DOMAIN disk PROVE Sound(disk[i])
    BY <2>1 DEF DiskInv
  <2>2. QED
    BY <2>1, SoundIsRestorable DEF LifeInv, SavedIsRestorable
<1>2. QED
  BY <1>1, LifeInvariant, PTL
=============================================================================
