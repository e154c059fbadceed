------------------------------- MODULE Ingest -------------------------------
(***************************************************************************)
(* Application of ingested records by the observatory                      *)
(* (src/runtime/observatory.cpp, apply_record_locked and what it calls).   *)
(* The state lock makes one record one atomic step; this module composes   *)
(* the link registry and the evidence store the way the runtime does, with *)
(* the runtime's statistics and the transitions it records.                *)
(*                                                                         *)
(* The result of classify() on a link is an arbitrary member of Verdicts   *)
(* (a record of the state and the operational and administrative texts):   *)
(* ingest only compares it with the previous one.                          *)
(***************************************************************************)
EXTENDS EvidenceStore

CONSTANTS
  States, Texts,       \* link states; value texts, "none" included
  NoVerdict,           \* the link has no entry in observed_states_
  MaxSubmitted,        \* bound on observation records
  MaxDeclared          \* bound on declaration records

Verdicts == [state: States, oper: Texts, admin: Texts]

Kinds == {"LinkRegistered", "GenerationChanged", "ClassificationChanged",
          "OperStateChanged", "AdminStateChanged", "CounterReset",
          "CounterWrap", "RevisionGap"}

ASSUME IngestAssumption ==
  /\ NoVerdict \notin Verdicts
  /\ MaxSubmitted \in Nat /\ MaxDeclared \in Nat

VARIABLES
  observed,     \* observed_states_, last_oper_text_ and last_admin_text_
  events,       \* transitions recorded, per link and kind
  submitted,    \* stats_.records_submitted
  accepted,     \* stats_.records_accepted
  fenced,       \* stats_.records_fenced
  ownFenced,    \* the sum of own_fence_counts_
  declared      \* stats_.declarations_applied + declarations_rejected

runtimeVars == <<observed, events, submitted, accepted, fenced, ownFenced, declared>>
vars == <<registryVars, storeVars, runtimeVars>>

TypeOK ==
  /\ RegistryTypeOK
  /\ StoreTypeOK
  /\ observed \in [LinkIds -> Verdicts \cup {NoVerdict}]
  /\ events \in [LinkIds -> [Kinds -> Nat]]
  /\ submitted \in Nat /\ accepted \in Nat /\ fenced \in Nat
  /\ ownFenced \in Nat /\ declared \in Nat

Init ==
  /\ RegistryInit
  /\ StoreInit
  /\ observed = [l \in LinkIds |-> NoVerdict]
  /\ events = [l \in LinkIds |-> [k \in Kinds |-> 0]]
  /\ submitted = 0 /\ accepted = 0 /\ fenced = 0 /\ ownFenced = 0 /\ declared = 0

\* One record of each of the given kinds in the transition log.
Record(l, kinds) ==
  events' = [events EXCEPT ![l] =
               [k \in Kinds |-> IF k \in kinds THEN @[k] + 1 ELSE @[k]]]

-----------------------------------------------------------------------------
(***************************************************************************)
(* Declarations.                                                           *)
(***************************************************************************)
Declare == declared < MaxDeclared /\ declared' = declared + 1

\* A declaration may also be refused for its name or its facts alone.
Malformed == FALSE \in Validity

ApplySource(s, authority, provenance, retire) ==
  /\ Declare
  /\ \/ /\ CanRegisterSource(s, authority, provenance)
        /\ RegisterSource(s, authority, provenance, retire)
     \/ /\ ~CanRegisterSource(s, authority, provenance) \/ Malformed
        /\ UNCHANGED sources
  /\ UNCHANGED <<linkVars, storeVars, observed, events, submitted, accepted,
                 fenced, ownFenced>>

ApplyLink(l, g) ==
  /\ Declare
  /\ CanRegisterLink(l, g)
  /\ RegisterLink(l, g)
  /\ Record(l, (IF l \in known THEN {} ELSE {"LinkRegistered"}) \cup
               (IF ChangedAfterRegister(l, g) THEN {"GenerationChanged"} ELSE {}))
  /\ UNCHANGED <<sources, linkAccepted, linkFenced, storeVars, observed,
                 submitted, accepted, fenced, ownFenced>>

RejectLink(l, g) ==
  /\ Declare
  /\ ~CanRegisterLink(l, g) \/ Malformed
  /\ UNCHANGED <<registryVars, storeVars, observed, events, submitted,
                 accepted, fenced, ownFenced>>

-----------------------------------------------------------------------------
(***************************************************************************)
(* apply_observation_locked, one action per way out.                       *)
(***************************************************************************)
Submit(o) ==
  /\ submitted < MaxSubmitted
  /\ submitted' = submitted + 1
  /\ UNCHANGED <<sources, declared>>

\* A source that may not speak, or a family that is switched off.
Unheard(o) == ~Speaks(o.source) \/ o.key \notin EnabledKeys

FenceUnheard(o) ==
  /\ Submit(o)
  /\ Unheard(o)
  /\ RefuseUntouched
  /\ fenced' = fenced + 1
  /\ UNCHANGED <<linkVars, observed, events, accepted, ownFenced>>

FenceUnknownLink(o) ==
  /\ Submit(o)
  /\ ~Unheard(o)
  /\ ~CanEnsureLink(o.link)
  /\ fenced' = fenced + 1
  /\ ownFenced' = ownFenced + 1
  /\ UNCHANGED <<linkVars, storeVars, observed, events, accepted>>

FenceGeneration(o) ==
  /\ Submit(o)
  /\ ~Unheard(o)
  /\ GenerationBehind(o.link, o.generation)
  /\ fenced' = fenced + 1
  /\ ownFenced' = ownFenced + 1
  /\ linkFenced' = [linkFenced EXCEPT ![o.link] = @ + 1]
  /\ UNCHANGED <<known, factsGeneration, generationVars, linkAccepted,
                 storeVars, observed, events, accepted>>

\* The observation gets to the store, under the generation it has just made
\* current: an implicit link is created and its generation advances whatever
\* the store then says.
ReachesStore(o) ==
  /\ Submit(o)
  /\ ~Unheard(o)
  /\ CanEnsureLink(o.link)
  /\ ~GenerationBehind(o.link, o.generation)
  /\ EnsureLink(o.link)
  /\ ObserveGeneration(o.link, o.generation)

GenerationEvent(o) ==
  IF GenerationChanged(o.link, o.generation) THEN {"GenerationChanged"} ELSE {}

AuthorityOf(o) == sources[o.source].authority

FenceInStore(o) ==
  /\ ReachesStore(o)
  /\ \/ RefusedUntouched(o, o.generation) /\ RefuseUntouched
     \/ /\ ~RefusedUntouched(o, o.generation)
        /\ RefusedLate(o, AuthorityOf(o))
        /\ RefuseLate(o)
  /\ Record(o.link, GenerationEvent(o))
  /\ fenced' = fenced + 1
  /\ linkFenced' = [linkFenced EXCEPT ![o.link] = @ + 1]
  /\ UNCHANGED <<linkAccepted, observed, accepted, ownFenced>>

CounterEvents(o) ==
  CASE CounterOutcome(o).discontinuity = "Reset" -> {"CounterReset"}
    [] CounterOutcome(o).discontinuity = "Wrap"  -> {"CounterWrap"}
    [] OTHER -> {}

GapEvents(o) == IF RevisionGap(o) THEN {"RevisionGap"} ELSE {}

\* refresh_classification_locked: the first verdict of a link only changes
\* its classification, from none.
RefreshEvents(l, v) ==
  IF observed[l] = NoVerdict THEN {"ClassificationChanged"}
  ELSE {k \in {"ClassificationChanged", "OperStateChanged", "AdminStateChanged"} :
          CASE k = "ClassificationChanged" -> observed[l].state # v.state
            [] k = "OperStateChanged"      -> observed[l].oper # v.oper
            [] k = "AdminStateChanged"     -> observed[l].admin # v.admin}

Accept(o, v) ==
  /\ ReachesStore(o)
  /\ ~RefusedUntouched(o, o.generation)
  /\ ~RefusedLate(o, AuthorityOf(o))
  /\ Admit(o, AuthorityOf(o))
  /\ linkAccepted' = [linkAccepted EXCEPT ![o.link] = @ + 1]
  /\ Record(o.link, GenerationEvent(o) \cup CounterEvents(o) \cup GapEvents(o)
                      \cup RefreshEvents(o.link, v))
  /\ observed' = [observed EXCEPT ![o.link] = v]
  /\ accepted' = accepted + 1
  /\ UNCHANGED <<linkFenced, fenced, ownFenced>>

ApplyObservation(o) ==
  \/ FenceUnheard(o)
  \/ FenceUnknownLink(o)
  \/ FenceGeneration(o)
  \/ FenceInStore(o)
  \/ \E v \in Verdicts : Accept(o, v)

Next ==
  \/ \E s \in SourceIds, a \in Authorities, p \in Provenances, r \in BOOLEAN :
       ApplySource(s, a, p, r)
  \/ \E l \in LinkIds, g \in Generations : ApplyLink(l, g) \/ RejectLink(l, g)
  \/ \E o \in Observation : ApplyObservation(o)

Spec == Init /\ [][Next]_vars

-----------------------------------------------------------------------------
(***************************************************************************)
(* Properties.  A stream or a link that changed identity more often than   *)
(* its bounded list of retired identities can remember is out of scope of  *)
(* the guarantees; RemembersScopes and RemembersGenerations say when the   *)
(* list is still complete.                                                 *)
(***************************************************************************)
RemembersScopes(s) == scopeChanges[s] <= MaxRetiredScopes + 1
RemembersGenerations(l) == generationChanges[l] <= MaxRetiredGenerations

\* The retired list of a stream is within its bound and, until it first had to
\* forget a scope, holds one entry per scope change but the first.
ScopesRemembered ==
  \A s \in SourceIds :
    /\ Len(retiredScopes[s]) <= MaxRetiredScopes
    /\ curScope[s] = NoScope =>
         /\ scopeChanges[s] = 0 /\ retiredScopes[s] = <<>>
         /\ lastSeq[s] = NoSequence /\ acceptedRevs[s] = {}
    /\ curScope[s] # NoScope /\ RemembersScopes(s) =>
         Len(retiredScopes[s]) = scopeChanges[s] - 1

\* At-most-once ingest: every revision ever accepted from a source would be
\* refused if it were delivered again, because its scope is retired or the
\* stream is at or past it (the fences of EvidenceStore::accept).
AcceptedRevisionsFenced ==
  \A s \in SourceIds : RemembersScopes(s) =>
    \A r \in acceptedRevs[s] :
      \/ r[1] = curScope[s] /\ r[2] <= lastSeq[s]
      \/ r[1] # curScope[s] /\ r[1] \in Range(retiredScopes[s])

\* Two retained counter samples of one identity either have every revision
\* between them accepted, or are told apart by their gap epochs and the slot
\* is marked incomplete: a delta is never derived across a lost revision,
\* whatever other keys and fences the stream met in between.
DeltaNeverSpansLoss ==
  \A slot \in Slots, s \in SourceIds :
    LET samples == continuity[slot][s] IN
    (/\ Len(samples) = 2
     /\ SameIdentity(samples[1], samples[2])
     /\ RemembersScopes(s)) =>
      \/ /\ ~SequenceGap(samples[1], samples[2])
         /\ \A q \in samples[1].sequence..samples[2].sequence :
              <<samples[1].scope, q>> \in acceptedRevs[s]
      \/ SequenceGap(samples[1], samples[2]) /\ slot \in gapSlots

\* A topology generation that contributed retained evidence is the current
\* one or remembered as retired, so its replay is fenced (observe_generation).
GenerationsFenced ==
  \A slot \in Slots : RemembersGenerations(slot[1]) =>
    \A i \in DOMAIN history[slot] :
      LET g == history[slot][i].generation IN
      \/ g = currentGeneration[slot[1]]
      \/ g \in Range(retiredGenerations[slot[1]])

\* Evidence keeps the standing it was admitted under: the authority stored
\* with it is still the one its source is registered with, through every
\* re-registration and retirement (register_source).
StandingKept ==
  \A slot \in Slots : \A i \in DOMAIN history[slot] :
    LET e == history[slot][i] IN
    sources[e.source].registered /\ e.authority = sources[e.source].authority

\* Every submitted observation is accounted for exactly once, and the
\* runtime's, the store's and the links' counters agree.
Accounting ==
  /\ submitted = accepted + fenced
  /\ accepted = totalAccepted
  /\ fenced = totalFenced + ownFenced
  /\ SumFunction(linkAccepted) = accepted
  /\ SumFunction(linkFenced) <= fenced

\* No step revives old evidence: what becomes eligible in a slot was not
\* retained there before, as long as the retired lists are complete.
NoRevival ==
  [][\A slot \in Slots :
       \A e \in Eligible(slot)' :
         /\ RemembersScopes(e.source)'
         /\ RemembersGenerations(slot[1])'
         /\ e \in Range(history[slot])
         => e \in Eligible(slot)]_vars
=============================================================================
