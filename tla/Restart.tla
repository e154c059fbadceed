------------------------------ MODULE Restart -------------------------------
(***************************************************************************)
(* Lives of an observatory: records are applied (Ingest), the state is     *)
(* saved, and after a stop or a crash another process restores what was    *)
(* saved (collect_snapshot, persist, reload and restore_from of            *)
(* src/runtime/observatory.cpp, with the persisted_ and restore operations *)
(* of the registry and the store and the bounds load_once decodes under).  *)
(*                                                                         *)
(* A save is one step: module Snapshot has its files and crashes, module   *)
(* SnapshotCodec its encoding.  The policy is the same in every process,   *)
(* and the transition log is within its bound.                             *)
(***************************************************************************)
EXTENDS Ingest

CONSTANTS
  DecodedRetired,      \* kMaxRetiredScopesBound (64 in the code)
  DecodedEvidence,     \* kMaxEvidencePerSlotBound (1024 in the code)
  DecodedSources,      \* kMaxSourcesBound (4096 in the code)
  MaxSaves,            \* bound on saves
  MaxRestarts          \* bound on restarts

\* The sanity bounds of the decoder are no tighter than the policy's.
ASSUME RestartAssumption ==
  /\ {DecodedRetired, DecodedEvidence, DecodedSources} \subseteq Nat
  /\ DecodedRetired >= MaxRetiredScopes /\ DecodedRetired >= MaxRetiredGenerations
  /\ DecodedEvidence >= MaxEvidence /\ DecodedSources >= MaxSources
  /\ MaxSaves \in Nat /\ MaxRestarts \in Nat

VARIABLES
  disk,        \* contents of the primary and of the backup, those there are
  saves, restarts

lifeVars == <<disk, saves, restarts>>

LifeInit == Init /\ disk = <<>> /\ saves = 0 /\ restarts = 0

-----------------------------------------------------------------------------
\* Links with a state, slots with evidence and streams with a scope are what
\* there is to save; the rest of each function is its initial value.
Streams == {s \in SourceIds : curScope[s] # NoScope}

CollectSnapshot ==
  [sources |-> sources,
   links   |-> [known |-> known, facts |-> factsGeneration, current |-> currentGeneration,
                retired |-> retiredGenerations, changes |-> generationChanges,
                accepted |-> linkAccepted, fenced |-> linkFenced],
   slots   |-> [live |-> LiveSlots, history |-> history, continuity |-> continuity,
                gaps |-> gapSlots],
   streams |-> [live |-> Streams, scope |-> curScope, last |-> lastSeq,
                retired |-> retiredScopes, changes |-> scopeChanges, gaps |-> gapCount],
   transitions |-> events,
   accepted |-> totalAccepted, fenced |-> totalFenced,
   revisions |-> acceptedRevs]       \* history variable

\* persist: the last primary becomes the backup.
Persist ==
  /\ saves < MaxSaves
  /\ saves' = saves + 1
  /\ disk' = SubSeq(<<CollectSnapshot>> \o disk, 1, IF disk = <<>> THEN 1 ELSE 2)
  /\ UNCHANGED <<vars, restarts>>

-----------------------------------------------------------------------------
(***************************************************************************)
(* What load_once and then the restore operations ask of the contents.     *)
(***************************************************************************)
SourcesRestorable(c) ==
  LET registered == {s \in SourceIds : c.sources[s].registered} IN
  /\ Cardinality(registered) <= MaxSources
  /\ \A s \in registered : c.sources[s].provenance # UnknownProvenance

LinksRestorable(c) ==
  /\ Cardinality(c.links.known) <= MaxLinks
  /\ \A l \in c.links.known :
       Len(c.links.retired[l]) <= DecodedRetired /\ Len(c.links.retired[l]) <= MaxRetiredGenerations

SlotsRestorable(c) ==
  /\ Cardinality(c.slots.live) <= MaxLinks * Cardinality(Keys)
  /\ \A slot \in c.slots.live :
       LET sampled == {s \in SourceIds : c.slots.continuity[slot][s] # <<>>} IN
       /\ Len(c.slots.history[slot]) <= DecodedEvidence
       /\ Len(c.slots.history[slot]) <= MaxEvidence
       /\ Cardinality(sampled) <= DecodedSources /\ Cardinality(sampled) <= MaxSources

StreamsRestorable(c) ==
  /\ Cardinality(c.streams.live) <= MaxSources
  /\ \A s \in c.streams.live :
       Len(c.streams.retired[s]) <= DecodedRetired /\ Len(c.streams.retired[s]) <= MaxRetiredScopes

Restorable(c) ==
  SourcesRestorable(c) /\ LinksRestorable(c) /\ SlotsRestorable(c) /\ StreamsRestorable(c)

-----------------------------------------------------------------------------
(***************************************************************************)
(* restore_from.                                                           *)
(***************************************************************************)
RestoreSources(c) == sources' = c.sources

RestoreLinks(c) ==
  /\ known' = c.links.known
  /\ factsGeneration' = c.links.facts
  /\ currentGeneration' = c.links.current
  /\ retiredGenerations' = c.links.retired
  /\ generationChanges' = c.links.changes
  /\ linkAccepted' = c.links.accepted
  /\ linkFenced' = c.links.fenced

\* Counter baselines are restored, not dropped.
RestoreSlots(c) ==
  /\ history' = c.slots.history
  /\ continuity' = c.slots.continuity
  /\ gapSlots' = c.slots.gaps

\* Mutant: a stream comes back without the revision it was at.
RestoreStreams_NoRevision(c) ==
  /\ curScope' = c.streams.scope
  /\ lastSeq' = [s \in SourceIds |-> NoSequence]
  /\ retiredScopes' = c.streams.retired
  /\ scopeChanges' = c.streams.changes
  /\ gapCount' = c.streams.gaps

RestoreStreams(c) ==
  /\ curScope' = c.streams.scope
  /\ lastSeq' = c.streams.last
  /\ retiredScopes' = c.streams.retired
  /\ scopeChanges' = c.streams.changes
  /\ gapCount' = c.streams.gaps

\* Mutant: the totals start from zero again.
RestoreTotals_FromZero(c) ==
  /\ totalAccepted' = 0 /\ totalFenced' = 0
  /\ accepted' = c.accepted /\ fenced' = c.fenced
  /\ acceptedRevs' = c.revisions

\* restore_totals, and the statistics that describe the evidence.
RestoreTotals(c) ==
  /\ totalAccepted' = c.accepted /\ totalFenced' = c.fenced
  /\ accepted' = c.accepted /\ fenced' = c.fenced
  /\ acceptedRevs' = c.revisions

\* What the new process does not know of the old one.
Forget ==
  /\ observed' = [l \in LinkIds |-> NoVerdict]
  /\ submitted' = 0 /\ ownFenced' = 0 /\ declared' = 0

RestoreFrom(c) ==
  /\ RestoreSources(c)
  /\ RestoreLinks(c)
  /\ RestoreSlots(c)
  /\ RestoreStreams(c)
  /\ events' = c.transitions
  /\ RestoreTotals(c)
  /\ Forget

\* A process ends, saved or not, and another starts from the primary, or from
\* the backup when the primary is damaged.  A start that cannot restore ends
\* its process without a trace, and one that finds no snapshot is Init again.
Restart ==
  /\ restarts < MaxRestarts
  /\ restarts' = restarts + 1
  /\ \E i \in DOMAIN disk : Restorable(disk[i]) /\ RestoreFrom(disk[i])
  /\ UNCHANGED <<disk, saves>>

LifeNext == (Next /\ UNCHANGED lifeVars) \/ Persist \/ Restart

LifeSpec == LifeInit /\ [][LifeNext]_<<vars, lifeVars>>

-----------------------------------------------------------------------------
(***************************************************************************)
(* Properties.  Those of Ingest hold through every restart as well.        *)
(***************************************************************************)
\* A snapshot is never one that the process which wrote it could not restore:
\* every bound of load_once and restore_from holds of whatever ingest, and
\* restores of older saves, can lead to.
SavedIsRestorable == \A i \in DOMAIN disk : Restorable(disk[i])

\* The counters of the runtime, of the store and of the links agree in a
\* process that restored them as in the one that counted.
TotalsAgree ==
  /\ accepted = totalAccepted
  /\ fenced = totalFenced + ownFenced
  /\ SumFunction(linkAccepted) = accepted
=============================================================================
