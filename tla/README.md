# Link Observatory: TLA+ specifications and proofs

Link Observatory collects observations about network links from evidence
sources, decides which of them may be believed, and classifies links from what
is left. This directory holds TLA+ models of the parts where that decision, its
concurrency and its persistence can go wrong, the TLC runs that check them on
small instances, and TLAPS proofs of the central invariants for every value of
the constants. Source paths below are relative to the repository.

## 1. Inventory

| Component | State it keeps | Operations | Hard behaviour |
| --- | --- | --- | --- |
| Link registry (`src/store/link_registry.cpp`) | sources with authority and provenance; links, the current topology generation of each and a bounded list of retired ones | register/retire source, register link, ensure implicit link, observe generation | replays of old generations, re-registration, registries at their limit |
| Evidence store (`src/store/evidence_store.cpp`) | one revision stream per source (scope, last revision, bounded list of retired scopes, gap count); bounded evidence and counter continuity per slot | `accept`, `contenders`, `completeness`, `restore` | duplicated, late and lost revisions; refusals found after the stream moved; bounded memory of retired scopes |
| Counter tracker (`src/store/counter_tracker.cpp`) | the two newest samples of a counter | `observe_counter`, `derive_delta`, `derive_utilization` | wrap or reset, ranges and thresholds, two copies of one case analysis |
| Record application (`src/runtime/observatory.cpp`) | statistics, the last verdict per link | `apply_record_locked`, `apply_observation_locked`, `refresh_classification_locked` | effects on the registry before the store refuses, counters kept in three places |
| Submission and lifecycle (`src/runtime/observatory.cpp`) | `started_` | `start`, `stop`, `submit_batch`, `apply_batch` | batches split over threads, refusal halfway, stop at any moment |
| Worker pool and queues (`src/runtime/worker.cpp`, `src/ingest/queue.cpp`) | bounded queues, `running_`, completion latches | `push`, `pop`, `close`, `submit`, `start`, `stop`, `cancel` | condition variables, notification outside the lock, joins under the lifecycle lock |
| Snapshot files (`src/persist/snapshot.cpp`) | primary, backup and temporary file | `write_snapshot`, `read_snapshot`; `persist`, `reload` | crashes between file operations, failed renames, files that cannot be opened, damaged files |
| Snapshot contents (`collect_snapshot`, `restore_from`, `src/persist/codec.cpp`) | none of its own | encode, decode, restore | restore that fails halfway, two bounds on one collection, every encoding written twice |
| Transition log (`src/store/history.cpp`) | bounded events per link | `record`, flap counting | eviction, events lost at restart |
| Classifier, freshness, confidence (`src/classify`, `src/domain`) | none | `classify`, `derive_confidence` | precedence of rules, arithmetic at its limits |
| Transport (`src/transport`) | listener, connections and their read buffers, thread handles, stop flag | `listen`, `serve`, `request_stop`, handlers; client calls | stop against a blocking accept, frames in pieces, pipelined or bad, acknowledgement after application, threads joined before the last save |
| Record grammar (`src/ingest/record.cpp`, `src/ingest/codec.cpp`, `src/domain`) | none | `parse_record`, `format_record`, `parse_batch` | fields ignored by mistake, two spellings tables per enumeration, values at the end of their range |
| Command line, rendering, hashing, lock tracker | none, or diagnostics | parsing of arguments, printing | none that a state model reaches |

How they interact: transport handlers and commands build batches and call
`submit_batch`; declarations are applied by the caller, observations are routed
by source to a worker's queue; every application runs under the one state lock,
updates registry, store and transition log in a fixed order, and signals the
caller's completion after the lock is released. `stop` closes the queues, joins
the workers and persists; `start` reloads.

What makes the parts correct: a revision counts at most once; evidence of a
superseded scope or generation never becomes current again; a delta never spans
a lost revision and equals what was counted; counters in the registry, the store
and the runtime agree; an acknowledgement follows application; nobody waits for
ever; a reported save is never lost, can be restored, and says what was saved;
a reply answers its request; a line means what it says or is refused; what is
said of a link rests on current evidence of the leading authority and admits
disagreement and age.
`PROJECT.json` lists the hazards line by line with the properties that answer
them.

## 2. Modules

| Module | Models | Uses |
| --- | --- | --- |
| `CounterTracker` | counter continuity and `derive_delta`, as operators over samples, for any counter width | |
| `LinkRegistry` | sources, links, topology generations: state, guards and effects | |
| `EvidenceStore` | streams, slots, the ordered fences and effects of `accept`, eligibility in `contenders` | `LinkRegistry`, `CounterTracker` |
| `Ingest` | application of a record: composes registry and store as `apply_record_locked` does | `EvidenceStore` |
| `BoundedQueue` | the queues, one operator per critical section | |
| `BatchAck` | abstract: what `submit_batch` promises | |
| `Pipeline` | `submit_batch`, workers, `start`, `stop` over the queues | `BoundedQueue`, refines `BatchAck` |
| `Snapshot` | the three files, the writer step by step, crash, restart, damage | |
| `CounterFeed` | a device that counts, wraps and restarts, in front of the tracker | `CounterTracker` |
| `Classifier` | `classify` and what it calls, as operators over a view of one link's evidence: age and freshness, contenders, winner, conflict, derived rates and ratios, confidence, rules in precedence | `CounterTracker` |
| `Observatory` | one link over time: admission, classification after each admission, the bounded transition log, a reader at every instant | `Classifier` |
| `Restart` | lives of an observatory: ingest, save, restore by another process | extends `Ingest` |
| `Framing` | frames as chunks: encode, decode, what is refused and when | |
| `Transport` | the server's accept loop, connection threads and stop path, and its peers | `Framing`, refines `BatchAck` |
| `Enumerations` | the enumerations of records and snapshots, with the table that spells and the table that parses each | |
| `RecordGrammar` | a line as fields: parsing, validation and formatting of the three record kinds, batches | `Enumerations` |
| `SnapshotCodec` | the payload of a snapshot: what each `encode` writes and each `decode` reads, in order | |
| `RecordJourney` | a record from its text through a batch and a snapshot to the next process, with edits and alterations on the way | `RecordGrammar`, `SnapshotCodec` |
| `MCIngest`, `MCRestart`, `MCPipeline`, `MCTransport`, `MCSnapshot`, `MCObservatory`, `MCRecordJourney` | values of constants for TLC | |
| `IngestProofs`, `EvidenceProofs`, `RestartProofs` | theorems about `Ingest` and `Restart` | each extends the one before |
| `PipelineProofs`, `SnapshotProofs`, `CounterFeedProofs`, `TransportProofs`, `ObservatoryProofs` | theorems about the module of that name | |

State and steps. In `Ingest` one action is the application of one record, which
the state lock makes atomic; `apply_observation_locked` has one action per way
out, in the order of its early returns: `FenceUnheard` (source or family not
admitted), `FenceUnknownLink`, `FenceGeneration`, `FenceInStore`, `Accept`. The
refusals of `accept` are of two kinds. `RefuseUntouched` leaves the stream as it
was; `RefuseLate` (authority downgrade, store full) comes after the stream has
entered the observation's scope and counted its gap, and the model keeps that
effect. `RegisterLink` contains both calls of `observe_generation` the code
makes. In `Pipeline` a step is one critical section or one notification outside
a lock, so that a thread may be interrupted between enqueueing and notifying,
between the test of `running_` and the push, and between application and the
arrival at the countdown. In `Snapshot` a step is one file system call of a save,
or one start, and each call may fail: a file that cannot be opened is taken for an
absent one, by the reader and by the writer, and a read may break off. In `Observatory` a step is one observation applied, with the
classification and the log entries that follow under the same lock, or one second
of the clock; `Reported` is what `classify` answers at that instant. `Ingest` and
`Observatory` look at the same admission from two sides: the first has every
fence and leaves the verdict open, the second has the verdict and offers only
registered sources, new revisions and current or new scopes and generations (the
authority fence, which depends on evidence, is in both).

`Restart` adds to `Ingest` a save of everything `collect_snapshot` collects, at
any point, and the end of the process followed by a start that restores the last
save or, as when the primary is damaged, the one before it. `Restorable` gathers
what `load_once` and then the four restore operations ask, so that a start which
would fail halfway is a start that does not happen; `SavedIsRestorable` says it
never is that of the process that saved.

In `Transport` a step is one system call or one critical section of a thread: the
accept loop (`check`, `accept`, `reclaim`, `join`, `persist`, `returned`, `gone`
are its places), one handler per connection (`recv`, `decode`, a request, `await`,
`wake`, `reply`, `close`, `leave`), an owner thread that calls `request_stop`, and
the peers. `request_stop` is two steps, the flag and the connection that wakes
the loop. A receive brings any number of the chunks under way; a peer may go at
any moment; a send to a peer that has gone may succeed, fail or end the process,
because `send_all` passes no flag against SIGPIPE and nothing handles it
(`BrokenPipe`). The connection that wakes the loop may not be made, and the last
save may be written, fail or not be configured. The observatory behind the server is `BatchAck`, which `Pipeline` implements, and seen from the
far end of the wire the server implements `BatchAck` again, for pushes within the
bound on records: this is how the two models compose.

`RecordGrammar` gives each read of `FieldReader` a condition and a value, and a
record kind the conjunction of its reads in their order. `SnapshotCodec` writes
each `encode` and each `decode` as a layout, transcribed one by one and never
derived from each other; two interpreters, `Encode` and `Decode`, are
`ByteWriter` and `ByteReader`.

Abstractions. Identities, names and texts are opaque values. The content hash of
an observation is dropped, which makes `DuplicateObservation` and
`RevisionReplay` one refusal. Fences are counted in total, not per reason. In
`Ingest` the verdict of `classify` is an arbitrary value. In `Classifier` time is
in whole seconds, far from the ends of the range of instants, and a full scale is
a small number; the 64-bit limits on deltas and ratios are kept at a width of
`MachineBits`. Contenders are sets: every piece of evidence carries the number of
its acceptance, so the order of a slot's list, in which the code scans it, is the
order of these numbers. The log has the events of one link; the ring over all links, and
the events it drops, are left out. What validation says of a record is
an input (`Validity`). The latch of a batch is one flag: its waiter holds no lock
and its signal is never withdrawn. A snapshot file is the number of its save, or
corrupt. History variables are `acceptedRevs`, `order`, `handed`, `snapshot`,
`saved` (of `Restart` and `Transport`), `truth`, `past` (every event ever logged);
in `Snapshot` `reported`, `lineage` (the saves a save builds on), `knows`, `misread`
and `unseen`; in `Transport` the `known` of a request and `unwoken`; in
`RecordJourney` `written`.

In `Transport` the texts of replies and the statistics are left out, and with them
that the error report for a bad frame is sent while the lock of the statistics is
held (`server.cpp:322`). The relaxed atomics are single variables: the flag and
the counters are independent and each is read afresh at its test. A chunk is a
whole header or a whole payload.

In `RecordGrammar` a value is the sequence of its parts between slashes, numerals
are the canonical ones (the code also reads leading zeros), and lengths and
characters are abstracted to values the token rule refuses. In `SnapshotCodec`
every fixed-size integer is one word whatever its width, so that a reader out of
step reads on as it does in the code; the digest of the container is outside, and
an altered payload is one that another program wrote with a digest of its own.
`Restart` takes the policy to be the same in every process, the transition log to
be within its bound, and (`RestartAssumption`) the sanity bounds of the decoder to
be no tighter than the policy's, which holds of the defaults but is nowhere
checked: a policy of more than 1024 pieces of evidence per key would write
snapshots it cannot read.

Left out of modelled components: `retire_link` (no caller); `cancel`, `try_push`,
`try_pop`, `try_submit` and `discard_pending` (no caller that can find work:
`cancel` runs in destructors after `stop` and finds the pool stopped); a `stop`
of an observatory that is not started, which only persists again.

## 3. Runs

| Run | Question | Instance |
| --- | --- | --- |
| `RestartStreams` | is a revision accepted at most once, does a delta never span a loss, can what was saved be restored and do the totals agree, across restarts from the last or an older save | 1 source, 2 links against a limit of 1, 3 scopes of 3 revisions against a list of 1 retired scope, two counter keys, malformed records, 2 observations and 1 declaration per process, 2 saves, 1 restart |
| `IngestTopology` | do superseded generations and standings stay fenced, is every observation counted once in each of the three places | 2 sources of two authorities, 2 links against a limit of 1, 3 generations, an enabled and a disabled key, a counter that resets, 3 observations and 3 declarations |
| `PipelineOrder` | order and wakeups of a queue that fills up, through shutdown and a second start | 2 submitters of 2 batches of every shape, 1 worker, capacity 2, a restart |
| `PipelineLiveness` | does the protocol implement `BatchAck`, does stop persist what it took, is every submitter answered and does stop return | 2 awaiting submitters, 2 workers, capacity 1, batches that leave for the workers |
| `ObservatoryVerdicts` | does what is said of a link rest on current evidence of the leading authority, and are adverse readings, ratios, flaps and the last known state reported as measured and logged | evidence fresh for 1 s, the clock to 2 s, a log of 2 events, under either of two bounds: 2 observations by 3 sources (two primary, one secondary), on time or dated ahead, over 2 scopes, 2 generations and a lost revision (`ManySources`), or 4 observations of 6 metric keys by one source (`ManyMetrics`) |
| `Transport` | do pushes keep their promise across the wire, do replies match requests, is what was acknowledged saved, does serve return and is everybody answered | a client that pushes; a peer that does not wait and sends a query and half a frame, a bad payload, a ping, a shutdown, too many records or a frame only a server may send; 1 connection at a time, backlog 2, thread handles reclaimed at 2, accept failing once, a read buffer of 2 chunks |
| `RecordJourney` | is no field ignored, does a batch say what its text says, does a snapshot load as it was saved and nothing else | records of every kind and metric family with values at their limits, texts and batches of up to two records, two edits, a payload of one of everything with one word altered, cut or added |
| `SnapshotCrash` | is a reported save never lost, and is what a start could not read kept through the first save after it | 5 saves, 3 crashes, 3 failed calls, 1 damaged file |
| `CounterFeed` | are derived deltas what the device counted | 3-bit counter, 9 units counted, 3 revisions |

The bounds are the least at which each case occurs: a list of retired scopes
that overflows, a list of retired generations that is full, a queue on which a second producer must wait, a
counter that turns once and a half, a save that follows a crash in a save, a
transition log that drops the change it is asked about, a connection refused
because another is active, a read buffer that a second frame overflows. Where
a bounded list has overflowed the guarantees no longer hold, which is what the
premises `RemembersScopes` and `RemembersGenerations` say: the code keeps 32
entries, and a scope or generation evicted from the list is accepted as new.
`OnlyTopQuarterAmbiguous` likewise states exactly what the wrap threshold leaves
open: a device that restarts undeclared in the top quarter of its range.

Fairness. `Pipeline!FairSpec`: weak fairness of each submitter inside
`submit_batch`, of each worker and of a `stop` that was called. These are threads
the operating system runs when they can run; locks are held for one step only,
except the lifecycle lock, whose waiters are disabled while `stop` holds it.
Nobody is obliged to submit, to start or to stop, and spurious wakeups may happen
but are never relied on. `notify_one` may wake any waiter.

`Transport!Spec`: weak fairness of each connection's thread, of the accept loop,
of the second half of a `request_stop` that was begun, and of the arrival of a
reply that is on its way (or of the end of the connection). No peer is obliged to
connect, to send or to go. What the code does not see to stands as a premise in the
properties: `PeersHangUp`, that no peer keeps a connection for ever without
waiting for a reply (there is no idle timeout, `serve` joins every handler, and one
idle client keeps it from returning and the last save from being written), and in
`ServeReturns` that the connection that wakes the loop was made (`~unwoken`).
`FittingRequestsAnswered` adds that every reply fits a frame; without that
`EveryRequestAnswered` is violated, as `TransportOversized` shows.

Deadlock is checked in the pipeline runs and in `Transport`. The other models are
of passive parts that may simply receive no more input when a bound is reached.

Runs that are expected to find a violation show where the code departs from what
the repository says of it:

| Run | Shows |
| --- | --- |
| `ObservatoryRateConflict` | two primary sources whose utilizations differ are reported as corroborating each other: the pair compared is the winner with itself when the winner reported first |
| `ObservatoryQuality` | a quality of zero in one direction is overwritten by the other direction's, and the link is healthy |
| `TransportOversized` | a state report longer than a payload may be is dropped, and the `break` at `server.cpp:428` leaves the inner loop only: the connection stays open and the peer waits for ever, without the report of failure `docs/formats.md:241` promises when a bound is exceeded |

Seen while modelling and kept in the models, without a run of their own:

* An observation that the store refuses has already advanced the topology
  generation of its link (`observatory.cpp:365`; `docs/freshness.md:66` says a
  fenced observation never changes current evidence).
* A link registered again under another generation changes topology without a
  `GenerationChanged` transition, because `register_link` has consumed the change
  (`observatory.cpp:302`; the comment at `link_registry.cpp:69` says it is not a
  silent edit).
* Evidence that ages out between two reports of the same state makes the tracked
  text go to `none` and back, and both count as flaps (`observatory.cpp:483`;
  `docs/states.md:139`).
* A pool started again after `stop` finds its queues closed and refuses every
  batch (`worker.cpp:42`).
* With the primary gone and the backup damaged a process starts empty
  (`observatory.cpp:737`). A start under a smaller link limit finds an intact
  primary unusable and falls back to the older backup.
* The ratio of the last error key in order decides, not the largest
  (`classifier.cpp:577`).
* A push of more records than `max_records_per_batch` is acknowledged with
  `records=0 rejected=0`: nothing is applied and no error is reported, since the
  handler ignores the status of a batch that did not parse (`server.cpp:359`,
  `codec.cpp:36`; `docs/formats.md:234` says an acknowledgement is sent only after
  the records are applied, 242 that exceeding a bound is a reported failure). To
  `PushAcknowledged` such a push is no batch.
* One idle client keeps `serve` from returning, since handlers wait in `recv`
  without a deadline and are joined (`server.cpp:287`; `docs/locking-audit.md:240`
  says every wait ends because another thread makes progress or shutdown closes
  the resource). It is the premise `PeersHangUp`.
* The connection that wakes the accept loop is not made on a host that is not
  loopback, nor when the host does not resolve or the connection fails
  (`server.cpp:197-221`): `serve` then goes on until the next connection.
* A peer that goes before its reply is sent may end the process, by SIGPIPE
  (`socket.cpp:58`), and with it the last save.
* A start that cannot open the primary runs from the backup or empty, and its
  second save removes what it did not read (`snapshot.cpp:19`, `observatory.cpp:737`).
  A save that cannot open the primary takes it for absent and replaces it in place
  (`snapshot.cpp:162`; `docs/formats.md:161` says that never happens). `UnreadIsKept`
  says exactly how long an unread save is kept, and excludes the latter (`unseen`).
* Reclaiming thread handles joins threads that are still at work, and accepts
  nobody meanwhile (`server.cpp:276`).
* The fences the runtime counts itself are not in the snapshot, so after a restart
  the fences of the links may add up to more than `records_fenced`
  (`observatory.cpp:716`); `TotalsAgree` adds up only what the links accepted.
* A key `errors/unknown/crc` is accepted and formatted without its direction, in a
  form the parser refuses (`record.hpp:99` says `format_record` renders canonical
  text; `docs/formats.md:58`). `BatchSaysTheText` says so: the lines of such records,
  and of no others, are refused.
* A repeated continuity key in a payload is dropped by `emplace`; the premise
  `InOrder` of `DecodingIsExact` leaves it out.
* `NoRevival` is not claimed across a restart: one that falls back to an older save
  brings back the evidence of that save, as it should.

## 4. Proofs

Every theorem holds for all values of the constants that satisfy the `ASSUME`s of
the modules, which TLC evaluates in every run: any sets of sources, links, keys,
peers and workers (finite where something is counted), any capacities and limits.

`IngestProofs`:

* `TypeCorrect`: one lemma per effect (`AdvanceStreamType`, `RefuseType`, the
  admission of an observation, the observation of a generation) and one step per
  action.
* `AtMostOnce` and `RetiredScopesComplete` (`AcceptedRevisionsFenced`,
  `ScopesRemembered`). Neither is inductive alone. That an accepted revision stays
  fenced when its scope is retired needs that the list of retired scopes has not
  overflowed, and that follows from its length being the number of scope changes
  less one. `StreamInv` is their conjunction and is inductive together with
  `TypeOK`; the key lemma is that appending to a list that is not full keeps every
  earlier entry.
* `EveryObservationCounted` (`Accounting`). `StepCounts` says that a step counts
  one observation once in each place or none. The sums over the links are folds:
  `SubsetInduction`, an induction on subsets that names a set instead of a
  predicate and rests on the well-foundedness of strict inclusion, gives the
  existence and uniqueness of the fold's recursive function, and from it what one
  increment does to a sum.

`EvidenceProofs`, on top of these:

* `StandingIsKept`, and `GenerationsAreFenced` with the same strengthening for the
  list of retired generations as for scopes (`GenerationsRemembered`).
* `DeltasNeverSpanLoss`. The pair of samples says nothing of revisions that arrive
  later, so `SamplesAccounted` says of each single sample that while its scope is
  current and no gap was counted since, every revision from it to the stream's
  last was accepted. The second sample of a pair is, when it is taken, the stream's
  last.
* `NothingRevived`, the action property `NoRevival`: from the above, and that what
  is retained was accepted under a scope and a generation that are current or
  fenced now, and a fenced one does not become current.

`RestartProofs`: types, at-most-once, `DeltaNeverSpansLoss`, `GenerationsFenced`
and `TotalsAgree` through any number of saves and restarts, and
`SavesAreRestorable`. The invariants are said again of values (`Sound`), so that
they can be asked of the running process and of each snapshot on disk; what
`collect_snapshot` collects is sound, and what `restore_from` restores from a sound
snapshot is a sound process. `BoundInv` adds the limits that a restore checks,
among them that whoever has a stream or a sample is registered, which is why the
number of streams never exceeds the limit on sources.

`PipelineProofs`, with the inductive invariant `IInv`:

* `BatchesAppliedInOrder`: for each worker, what it applied, what it has in its
  hand and what is queued are in the order of the batches of each submitter
  (`OrderInv`), and a submitter does not hand a part over twice (`HandedOnce`).
* `PipelineImplementsBatchAck`, the refinement, step by step. It needs that the
  countdown of a batch is the number of its parts not yet arrived (`CountInv`), so
  that the signal comes after the last application.
* `StopPersistsAll`: a worker that is off left an empty queue that stays closed.
* `WakeupsAreNotLost`: `NoLostWakeup` counts, for each queue, notifications on their
  way and producers already awake against items and free places, which is where
  notification outside the lock could go wrong. It is inductive once `WaitInv` says
  that a producer that waits is inside that push and none waits at a closed queue.
* `PipelineTypes`.

`SnapshotProofs`: `SavedSnapshotSurvives`, `SavesDescend`, `UnreadStays` and
`FilesAtRest`, for any number of saves, crashes and failures, failed reads included.
`WholeFiles`, a part of `SnapshotInv`, says for each point of the writer which of the
three files is whole and how their save numbers are ordered: at every point the last
reported save, or a newer one, is where the reader finds it. `KnowsAll` says that a
process none of whose predecessors misread a file builds on every reported save.
`UnreadIsKept` is inductive with these and with `Lineage`: the save in progress
holds what its process knows, so a save that drops the last file with an unread one
in it is the second of a process that did not know it.

`CounterFeedProofs`: `DerivedDeltaIsExact`, `TrackersAgree`,
`OnlyHiddenRestartsInvent`, for every counter width. `FeedInv` relates the register
to the newest sample (where it should be, or one wrap on, or a full turn was
counted) and the two samples to each other. `TrackersAgree` compares two
transcriptions, `ContinuityOutcome` of `observe_counter` and `RawDelta` with
`SequenceGap` of `derive_delta`, which share only what the two functions share
(ranges, threshold and `same_identity`), branch by branch. The provers do not know
powers of two; `PowersOfTwo` states their recurrence up to the width of the machine
word.

`TransportProofs`, with the inductive invariant `TransportInv`: `RepliesAreInPlace`,
`QueriesReportAcked`, `AckedSurvives` and the refinement
`TransportImplementsBatchAck`. `Talk` says of each peer that read buffer and data
under way together are the chunks of exactly the requests not yet answered, that
the replies received and under way answer the others one by one, and what the
handler holds in between; `ThreadInv` that the accept loop keeps the handle of
every thread at work, so that the last save comes after all of them. In the
refinement a push within the bound is a batch of one part, submitted when it is
sent and answered when its reply is received; one beyond the bound is not a batch,
because the code acknowledges it unapplied. All five
theorems have the hypothesis `RepliesFit`, that no reply is longer than a payload
may be: one that is, `encode_frame` refuses, it is not sent, and a peer that does
not wait for replies no longer finds them in the places of its requests. Peers are
assumed to send nothing after half a frame, and to be different from the
connection that wakes the loop.

`ObservatoryProofs`, from the evidence to what is said of a link:

* `EvidenceInv` is inductive: evidence is well typed and kept in the order of its
  acceptance, within the bound, a gap was opened in the past, and the newest
  evidence a source has on a counter is its last sample (`SampleInv`). The last
  part is `RateIsOfTheWinner`; it is inductive only together with the order of the
  lists, because an eviction must take the oldest evidence and never the newest of
  a source that still has some.
* `PriorityOrder` and `MaximalExists`: `higher_priority` is a strict order, total on
  the evidence of different sources, and a strict order on a finite set leaves an
  undisplaced element. `EligibleIsCurrent` joins what the classifier calls eligible
  with `Current`, which is stated without it. From these `WinnerIsBest`, and with
  `LeadersConflict` (contradicting leaders make their key conflicting)
  `HealthIsWarranted` and `ContradictionIsReported`; `AdverseIsNotHidden` and
  `HighConfidenceIsEarned` go through the order of the rules.
* `OldEvidenceIsSilent`: no value without current evidence, so every rule before
  "stale" that claims something is closed.
* `LogTellsThePast`. `LogInv` says that the log is the end of `past`, all but the
  events dropped; `KnownInv` that the last classification in `past` is the verdict
  remembered, or there is neither. The two bounds on flaps are injections between
  sets of positions.
* `TimeOnlyAges`: the larger of two ages that do not fall does not fall.
* `ObservatoryTypes`, the type invariant.

Three hypotheses say where these hold, and the code does not guarantee them:

* `ContendersFit`: the scan of a slot, which stops at `max_contenders_per_key`
  sources, reaches all it holds. By default 8 sources are scanned of 16 pieces of
  evidence: with nine sources on one key a primary that reported first is not seen.
* `AllRanked`, for the two theorems about contradictions: no source is registered
  with authority `unknown`. Where only such sources report, `classify` compares
  nobody (`classifier.cpp:362`) and a link may be healthy on a contradicted "up".
* `RowsFit`: the log of a link is no longer than what one query of it returns; by
  default 256 events against 4096 rows.

The instances TLC checks satisfy all three.

`RetiredScopesComplete`, `FilesAtRest`, `SavesDescend`, `PipelineTypes`, `TransportInvariant` and
`ObservatoryTypes` are about parts of the inductive invariants that no run needs to
check.

Model-checked only:

* liveness and what uses `ENABLED`, which are out of the prover's reach;
* `RecordJourney`: `SnapshotCodec` interprets layouts with RECURSIVE operators,
  which the prover does not take;
* `ErroringIsMeasured`, which names the two readings a ratio was measured between.
  It is not true of every instance: with little room for evidence the first of the
  two may have been evicted while its sample is still in use, and a counter that
  changes its width has another difference. The run has neither case.

## 5. Plan

1. The transition ring over all links; registered links, bounds on contenders and
   evidence that bite, and the link-level freshness and completeness, in
   `Observatory`.
2. `ErroringIsMeasured` for every instance: it needs the readings behind the samples
   as a history variable, since the store keeps samples longer than evidence.

## 6. Not modelled

Rendering, hashing, the lock tracker and the command line: straight-line code for
which tests are the better tool. The lengths of texts and the width of integers in
encoded bytes, beyond what the abstractions above say. Power loss (the container
is flushed, not synchronised, before the rename) and two processes sharing a
snapshot path, which the code does not handle.
