---------------------------- MODULE LinkRegistry ----------------------------
(***************************************************************************)
(* The registry of evidence sources and observed links                     *)
(* (src/store/link_registry.cpp): which sources may speak and with what    *)
(* authority, which links are known, and which topology generation of each *)
(* link is current.                                                        *)
(*                                                                         *)
(* LinkRegistry::retire_link has no caller in the runtime, so no link is   *)
(* ever retired here.  Identifiers, names and link facts other than the    *)
(* topology generation are opaque.                                         *)
(***************************************************************************)
EXTENDS Integers, Sequences, FiniteSets, Functions

CONSTANTS
  SourceIds, LinkIds, Generations,
  Provenances,             \* ProvenanceClass: "unknown", "real", "synthetic", "replayed"
  Authorities,             \* AuthorityClass, ordered: a set of naturals
  NoGeneration,            \* GenerationId{}, the invalid generation
  MaxSources,              \* policy.limits.max_sources
  MaxLinks,                \* policy.limits.max_links
  MaxRetiredGenerations,   \* kMaxRetiredGenerations (32 in the code)
  AllowImplicitLinks       \* policy.allow_implicit_links

\* ProvenanceClass: "unknown" is the class a registration must not carry.
UnknownProvenance == "unknown"

ASSUME RegistryAssumption ==
  /\ IsFiniteSet(SourceIds) /\ IsFiniteSet(LinkIds)
  /\ Authorities \subseteq Nat /\ Authorities # {}
  /\ UnknownProvenance \in Provenances
  /\ NoGeneration \notin Generations
  /\ MaxSources \in Nat /\ MaxLinks \in Nat
  /\ MaxRetiredGenerations \in Nat \ {0}
  /\ AllowImplicitLinks \in BOOLEAN

VARIABLES
  sources,              \* sources_, keyed by source
  known,                \* the keys of links_
  factsGeneration,      \* LinkEntry::facts.generation
  currentGeneration,    \* LinkGenerationState::current_generation
  retiredGenerations,   \* LinkGenerationState::retired_generations
  generationChanges,    \* LinkGenerationState::generation_changes
  linkAccepted,         \* LinkEntry::accepted_observations
  linkFenced            \* LinkEntry::fenced_observations

generationVars == <<currentGeneration, retiredGenerations, generationChanges>>
linkVars == <<known, factsGeneration, generationVars, linkAccepted, linkFenced>>
registryVars == <<sources, linkVars>>

SourceRecord == [registered: BOOLEAN, retired: BOOLEAN,
                 authority: Authorities, provenance: Provenances]

RegistryTypeOK ==
  /\ sources \in [SourceIds -> SourceRecord]
  /\ known \in SUBSET LinkIds
  /\ factsGeneration \in [LinkIds -> Generations \cup {NoGeneration}]
  /\ currentGeneration \in [LinkIds -> Generations \cup {NoGeneration}]
  /\ retiredGenerations \in [LinkIds -> Seq(Generations)]
  /\ generationChanges \in [LinkIds -> Nat]
  /\ linkAccepted \in [LinkIds -> Nat]
  /\ linkFenced \in [LinkIds -> Nat]

RegistryInit ==
  /\ sources = [s \in SourceIds |->
                  [registered |-> FALSE, retired |-> FALSE,
                   authority |-> CHOOSE a \in Authorities : TRUE,
                   provenance |-> UnknownProvenance]]
  /\ known = {}
  /\ factsGeneration = [l \in LinkIds |-> NoGeneration]
  /\ currentGeneration = [l \in LinkIds |-> NoGeneration]
  /\ retiredGenerations = [l \in LinkIds |-> <<>>]
  /\ generationChanges = [l \in LinkIds |-> 0]
  /\ linkAccepted = [l \in LinkIds |-> 0]
  /\ linkFenced = [l \in LinkIds |-> 0]

-----------------------------------------------------------------------------
\* Mutant: the list is never trimmed.
PushRetired_Untrimmed(list, item, bound) == Append(list, item)

\* push_back, then erase from the front while the list exceeds its bound.
PushRetired(list, item, bound) ==
  IF Len(list) < bound THEN Append(list, item) ELSE Append(Tail(list), item)

(***************************************************************************)
(* Sources.                                                                *)
(***************************************************************************)
RegisteredSources == {s \in SourceIds : sources[s].registered}
\* Mutant: a re-registration may change the authority.
CanRegisterSource_NoConflict(s, authority, provenance) ==
  /\ provenance # UnknownProvenance
  /\ sources[s].registered \/ Cardinality(RegisteredSources) < MaxSources

CanRegisterSource(s, authority, provenance) ==
  /\ provenance # UnknownProvenance
  /\ IF sources[s].registered
     THEN sources[s].authority = authority /\ sources[s].provenance = provenance
     ELSE Cardinality(RegisteredSources) < MaxSources

\* register_source, followed by retire_source when the record says so.
RegisterSource(s, authority, provenance, retire) ==
  sources' = [sources EXCEPT ![s] =
                [registered |-> TRUE, retired |-> retire,
                 authority |-> authority, provenance |-> provenance]]

Speaks(s) == sources[s].registered /\ ~sources[s].retired

(***************************************************************************)
(* Topology generations: observe_generation is split into its three        *)
(* outcomes.  `Behind' changes nothing; `Changed' also covers the first    *)
(* generation of a link that was registered without one.                   *)
(***************************************************************************)
HasGeneration(l) == currentGeneration[l] # NoGeneration
\* Mutant: no generation is ever behind.
GenerationBehind_Never(l, g) == FALSE

GenerationBehind(l, g) ==
  /\ HasGeneration(l)
  /\ currentGeneration[l] # g
  /\ g \in Range(retiredGenerations[l])

GenerationChanged(l, g) ==
  currentGeneration[l] # g /\ ~GenerationBehind(l, g)
\* Mutant: the generation left behind is not remembered.
ObserveGeneration_Forgets(l, g) ==
  IF ~GenerationChanged(l, g) THEN UNCHANGED generationVars
  ELSE /\ currentGeneration' = [currentGeneration EXCEPT ![l] = g]
       /\ generationChanges' = IF HasGeneration(l)
                               THEN [generationChanges EXCEPT ![l] = @ + 1]
                               ELSE generationChanges
       /\ UNCHANGED retiredGenerations

ObserveGeneration(l, g) ==
  IF ~GenerationChanged(l, g) THEN UNCHANGED generationVars
  ELSE /\ currentGeneration' = [currentGeneration EXCEPT ![l] = g]
       /\ IF HasGeneration(l)
          THEN /\ retiredGenerations' = [retiredGenerations EXCEPT ![l] =
                    PushRetired(@, currentGeneration[l], MaxRetiredGenerations)]
               /\ generationChanges' = [generationChanges EXCEPT ![l] = @ + 1]
          ELSE UNCHANGED <<retiredGenerations, generationChanges>>

(***************************************************************************)
(* Links.  A re-registration that names a generation other than the one in *)
(* the stored facts goes through observe_generation and is refused when    *)
(* that generation is retired; one that repeats the stored facts is not    *)
(* tested at all.                                                          *)
(***************************************************************************)
CanRegisterLink(l, g) ==
  IF l \in known THEN g = factsGeneration[l] \/ ~GenerationBehind(l, g)
                 ELSE Cardinality(known) < MaxLinks

\* register_link, then the runtime's own observe_generation on the same
\* generation: for a link that existed the second call finds the work done.
RegisterLink(l, g) ==
  /\ known' = known \cup {l}
  /\ factsGeneration' = [factsGeneration EXCEPT ![l] = g]
  /\ ObserveGeneration(l, g)

\* What the runtime's own observe_generation reports as `changed' after
\* register_link already observed the generation of new facts.
ChangedAfterRegister(l, g) ==
  l \in known /\ g = factsGeneration[l] /\ GenerationChanged(l, g)

CanEnsureLink(l) ==
  l \in known \/ (AllowImplicitLinks /\ Cardinality(known) < MaxLinks)

\* ensure_implicit_link: facts without a generation.
EnsureLink(l) == known' = known \cup {l} /\ UNCHANGED factsGeneration
=============================================================================
