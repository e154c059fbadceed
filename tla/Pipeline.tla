------------------------------ MODULE Pipeline ------------------------------
(***************************************************************************)
(* Batch submission through the worker pool: Observatory::submit_batch,    *)
(* start and stop (src/runtime/observatory.cpp) and WorkerPool             *)
(* (src/runtime/worker.cpp) over the bounded queues.                       *)
(*                                                                         *)
(* A batch is a set of parts: the observations of each route, and the      *)
(* records applied by the calling thread (declarations; with no worker     *)
(* pool, Workers = {}, every record).  Applying a part is one step under   *)
(* the state lock; what it does to the evidence is module Ingest.          *)
(*                                                                         *)
(* An awaiter that got a success waits for the completion latch, as the    *)
(* transport and the benchmark command do; the others, like                *)
(* submit_observation, return at once.  WorkerPool::cancel is reached from  *)
(* destructors only, after stop: it finds the pool not running and returns.*)
(***************************************************************************)
EXTENDS BoundedQueue

CONSTANTS
  Awaiters,        \* submitters that pass a completion and wait for it
  Shapes,          \* bound: the sets of parts a batch may have
  MaxBatches,      \* bound: batches each submitter submits
  MaxStarts        \* bound: calls of start that succeed

Inline == -1                                 \* the part applied by the caller
Parts == Workers \cup {Inline}
Batches == Producers \X (1..MaxBatches)
NoBatch == <<>>

ASSUME PipelineAssumption ==
  /\ Awaiters \subseteq Producers
  /\ Shapes \subseteq SUBSET Parts /\ MaxBatches \in Nat /\ MaxStarts \in Nat

VARIABLES
  pc,           \* where each submitter is in submit_batch and its wait
  count,        \* batches each submitter has begun; the last is current
  todo,         \* routed parts not yet submitted to the pool
  remaining,    \* the shared countdown of each batch
  signalled,    \* batches whose BatchCompletion is done
  workerPc,     \* where each worker thread is
  hand,         \* the batch a worker took from its queue
  life,         \* where start and stop are
  shut,         \* queues closed by the stop in progress
  starts,       \* successful starts
  parts, applied, answer,   \* history: the variables of BatchAck
  order,        \* history: batches each worker applied, in order
  handed,       \* history: the batches each queue accepted
  snapshot      \* history: what each batch had applied when stop persisted

clientVars == <<pc, count, todo>>
latchVars == <<remaining, signalled>>
workerVars == <<workerPc, hand, order>>
lifeVars == <<life, shut, starts, snapshot>>
historyVars == <<parts, applied, answer, handed>>
vars == <<queueVars, clientVars, latchVars, workerVars, lifeVars, historyVars>>

ClientPcs == {"idle", "check", "inline", "arrive", "submit", "push", "notify", "await"}
WorkerPcs == {"off", "pop", "notify", "apply", "arrive"}
Lives == {"down", "spawned", "up", "closing", "joining", "joined", "persisted"}

TypeOK ==
  /\ QueueTypeOK(Batches)
  /\ pc \in [Producers -> ClientPcs]
  /\ count \in [Producers -> 0..MaxBatches]
  /\ todo \in [Producers -> SUBSET Workers]
  /\ remaining \in [Batches -> 0..Cardinality(Parts)]
  /\ signalled \in SUBSET Batches
  /\ workerPc \in [Workers -> WorkerPcs]
  /\ hand \in [Workers -> Batches \cup {NoBatch}]
  /\ life \in Lives /\ shut \in SUBSET Workers /\ starts \in 0..MaxStarts
  /\ parts \in [Batches -> SUBSET Parts]
  /\ applied \in [Batches -> SUBSET Parts]
  /\ answer \in [Batches -> {"none", "pending", "acked", "refused"}]
  /\ order \in [Workers -> Seq(Batches)]
  /\ handed \in [Workers -> SUBSET Batches]
  /\ snapshot \in [Batches -> SUBSET Parts]

Init ==
  /\ QueueInit
  /\ pc = [c \in Producers |-> "idle"]
  /\ count = [c \in Producers |-> 0]
  /\ todo = [c \in Producers |-> {}]
  /\ remaining = [b \in Batches |-> 0]
  /\ signalled = {}
  /\ workerPc = [w \in Workers |-> "off"]
  /\ hand = [w \in Workers |-> NoBatch]
  /\ life = "down" /\ shut = {} /\ starts = 0
  /\ parts = [b \in Batches |-> {}]
  /\ applied = [b \in Batches |-> {}]
  /\ answer = [b \in Batches |-> "none"]
  /\ order = [w \in Workers |-> <<>>]
  /\ handed = [w \in Workers |-> {}]
  /\ snapshot = [b \in Batches |-> {}]

\* started_, WorkerPool::running_, and the lifecycle lock, which stop holds
\* until every worker has been joined.
Started == life \in {"up", "closing", "joining", "joined", "persisted"}
Running == life \in {"spawned", "up", "closing", "joining"}
LifecycleFree == life \notin {"closing", "joining"}

Current(c) == <<c, count[c]>>
Goto(c, where) == pc' = [pc EXCEPT ![c] = where]

\* The map of routed parts is walked in increasing route order.
Lowest(S) == CHOOSE w \in S : \A v \in S : w <= v
Route(c) == Lowest(todo[c])

-----------------------------------------------------------------------------
(***************************************************************************)
(* submit_batch.                                                           *)
(***************************************************************************)
Answer(b, what) == answer' = [answer EXCEPT ![b] = what]
\* Mutant: the last but one arrival completes.
Arrive_Early(b) ==
  /\ remaining' = [remaining EXCEPT ![b] = @ - 1]
  /\ signalled' = IF remaining[b] <= 2 THEN signalled \cup {b} ELSE signalled

\* One decrement of the countdown; the one that reaches zero completes.
Arrive(b) ==
  /\ remaining' = [remaining EXCEPT ![b] = @ - 1]
  /\ signalled' = IF remaining[b] = 1 THEN signalled \cup {b} ELSE signalled

Apply(b, p) == applied' = [applied EXCEPT ![b] = @ \cup {p}]

Call(c, P) ==
  /\ pc[c] = "idle" /\ count[c] < MaxBatches
  /\ count' = [count EXCEPT ![c] = @ + 1]
  /\ parts' = [parts EXCEPT ![<<c, count[c] + 1>>] = P]
  /\ Answer(<<c, count[c] + 1>>, "pending")
  /\ Goto(c, "check")
  /\ UNCHANGED <<queueVars, todo, latchVars, workerVars, lifeVars, applied, handed>>

Refused(c) ==
  /\ Answer(Current(c), "refused")
  /\ Goto(c, "idle")
  /\ todo' = [todo EXCEPT ![c] = {}]
  /\ UNCHANGED <<count, latchVars, workerVars, lifeVars, parts, applied, handed>>

CheckStarted(c) ==
  /\ pc[c] = "check"
  /\ ~Started
  /\ Refused(c)
  /\ UNCHANGED queueVars

Split(c) ==
  LET b == Current(c) IN
  /\ pc[c] = "check"
  /\ Started
  /\ todo' = [todo EXCEPT ![c] = parts[b] \ {Inline}]
  /\ remaining' = [remaining EXCEPT ![b] = Cardinality(parts[b])]
  /\ signalled' = IF parts[b] = {} THEN signalled \cup {b} ELSE signalled
  /\ Goto(c, CASE Inline \in parts[b] -> "inline"
               [] parts[b] = {}       -> "await"
               [] OTHER               -> "submit")
  /\ UNCHANGED <<queueVars, count, workerVars, lifeVars, historyVars>>

ApplyInline(c) ==
  /\ pc[c] = "inline"
  /\ Apply(Current(c), Inline)
  /\ Goto(c, "arrive")
  /\ UNCHANGED <<queueVars, count, todo, latchVars, workerVars, lifeVars, parts, answer, handed>>

ArriveInline(c) ==
  /\ pc[c] = "arrive"
  /\ Arrive(Current(c))
  /\ Goto(c, "submit")
  /\ UNCHANGED <<queueVars, count, todo, workerVars, lifeVars, historyVars>>

\* WorkerPool::submit looks at running_ under the lifecycle lock ...
SubmitNext(c) ==
  /\ pc[c] = "submit"
  /\ IF todo[c] = {} THEN Goto(c, "await")
     ELSE LifecycleFree /\ Running /\ Goto(c, "push")
  /\ UNCHANGED <<queueVars, count, todo, latchVars, workerVars, lifeVars, historyVars>>

SubmitNotRunning(c) ==
  /\ pc[c] = "submit" /\ todo[c] # {}
  /\ LifecycleFree /\ ~Running
  /\ Refused(c)
  /\ UNCHANGED queueVars

\* ... and pushes without it.
Awake(c) == pc[c] = "push" /\ c \notin waitingFull[Route(c)]

PushBlocks(c) ==
  /\ Awake(c)
  /\ WaitFull(c, Route(c))
  /\ UNCHANGED <<clientVars, latchVars, workerVars, lifeVars, historyVars>>

PushRefused(c) ==
  /\ Awake(c)
  /\ PushClosed(Route(c))
  /\ Refused(c)

Push(c) ==
  /\ Awake(c)
  /\ Enqueue(Route(c), Current(c))
  /\ Goto(c, "notify")
  /\ handed' = [handed EXCEPT ![Route(c)] = @ \cup {Current(c)}]
  /\ UNCHANGED <<count, todo, latchVars, workerVars, lifeVars, parts, applied, answer>>

PushNotify(c) ==
  /\ pc[c] = "notify"
  /\ NotifyEmpty(Route(c))
  /\ todo' = [todo EXCEPT ![c] = @ \ {Route(c)}]
  /\ Goto(c, "submit")
  /\ UNCHANGED <<count, latchVars, workerVars, lifeVars, historyVars>>

\* submit_batch has returned success: BatchCompletion::wait ends and the
\* submitter acknowledges, or it does not wait at all.
Acknowledge(c) ==
  /\ pc[c] = "await" /\ c \in Awaiters
  /\ Current(c) \in signalled
  /\ Answer(Current(c), "acked")
  /\ Goto(c, "idle")
  /\ UNCHANGED <<queueVars, count, todo, latchVars, workerVars, lifeVars,
                 parts, applied, handed>>

GoOn(c) ==
  /\ pc[c] = "await" /\ c \notin Awaiters
  /\ Goto(c, "idle")
  /\ UNCHANGED <<queueVars, count, todo, latchVars, workerVars, lifeVars, historyVars>>

ClientStep(c) ==
  \/ CheckStarted(c) \/ Split(c) \/ ApplyInline(c) \/ ArriveInline(c)
  \/ SubmitNext(c) \/ SubmitNotRunning(c)
  \/ PushBlocks(c) \/ PushRefused(c) \/ Push(c) \/ PushNotify(c)
  \/ Acknowledge(c) \/ GoOn(c)

-----------------------------------------------------------------------------
(***************************************************************************)
(* A worker thread: pop, apply under the state lock, then complete.        *)
(***************************************************************************)
WorkerGoto(w, where) == workerPc' = [workerPc EXCEPT ![w] = where]

Popping(w) == workerPc[w] = "pop" /\ w \notin waitingEmpty

PopBlocks(w) ==
  /\ Popping(w)
  /\ WaitEmpty(w)
  /\ UNCHANGED <<clientVars, latchVars, workerVars, lifeVars, historyVars>>
\* Mutant: the newest item is taken.
Pop_Newest(w) ==
  /\ Popping(w)
  /\ items[w] # <<>>
  /\ items' = [items EXCEPT ![w] = SubSeq(@, 1, Len(@) - 1)]
  /\ hand' = [hand EXCEPT ![w] = items[w][Len(items[w])]]
  /\ WorkerGoto(w, "notify")
  /\ UNCHANGED <<closed, waitingFull, waitingEmpty, clientVars, latchVars, order,
                 lifeVars, historyVars>>

Pop(w) ==
  /\ Popping(w)
  /\ Dequeue(w)
  /\ hand' = [hand EXCEPT ![w] = Head(items[w])]
  /\ WorkerGoto(w, "notify")
  /\ UNCHANGED <<clientVars, latchVars, order, lifeVars, historyVars>>

PopNotify(w) ==
  /\ workerPc[w] = "notify"
  /\ NotifyFull(w)
  /\ WorkerGoto(w, "apply")
  /\ UNCHANGED <<clientVars, latchVars, hand, order, lifeVars, historyVars>>

ApplyRouted(w) ==
  /\ workerPc[w] = "apply"
  /\ Apply(hand[w], w)
  /\ order' = [order EXCEPT ![w] = Append(@, hand[w])]
  /\ WorkerGoto(w, "arrive")
  /\ UNCHANGED <<queueVars, clientVars, latchVars, hand, lifeVars, parts, answer, handed>>

ArriveRouted(w) ==
  /\ workerPc[w] = "arrive"
  /\ Arrive(hand[w])
  /\ hand' = [hand EXCEPT ![w] = NoBatch]
  /\ WorkerGoto(w, "pop")
  /\ UNCHANGED <<queueVars, clientVars, order, lifeVars, historyVars>>

Exit(w) ==
  /\ Popping(w)
  /\ PopDrained(w)
  /\ WorkerGoto(w, "off")
  /\ UNCHANGED <<clientVars, latchVars, hand, order, lifeVars, historyVars>>

WorkerStep(w) ==
  \/ PopBlocks(w) \/ Pop(w) \/ PopNotify(w)
  \/ ApplyRouted(w) \/ ArriveRouted(w) \/ Exit(w)

-----------------------------------------------------------------------------
(***************************************************************************)
(* Observatory::start and stop.                                            *)
(***************************************************************************)
Start ==
  /\ life = "down" /\ starts < MaxStarts
  /\ life' = "spawned"
  /\ starts' = starts + 1
  /\ workerPc' = [w \in Workers |-> "pop"]
  /\ UNCHANGED <<queueVars, clientVars, latchVars, hand, order, shut,
                 snapshot, historyVars>>

MarkStarted ==
  /\ life = "spawned"
  /\ life' = "up"
  /\ UNCHANGED <<queueVars, clientVars, latchVars, workerVars, shut, starts,
                 snapshot, historyVars>>

Stop ==
  /\ life = "up"
  /\ life' = "closing"
  /\ shut' = {}
  /\ UNCHANGED <<queueVars, clientVars, latchVars, workerVars, starts, snapshot, historyVars>>

CloseNext ==
  /\ life = "closing"
  /\ IF shut = Workers
     THEN life' = "joining" /\ UNCHANGED <<queueVars, shut>>
     ELSE LET w == Lowest(Workers \ shut) IN
          Close(w) /\ shut' = shut \cup {w} /\ UNCHANGED life
  /\ UNCHANGED <<clientVars, latchVars, workerVars, starts, snapshot, historyVars>>
\* Mutant: stop does not wait for the workers.
Join_Detached ==
  /\ life = "joining"
  /\ life' = "joined"
  /\ UNCHANGED <<queueVars, clientVars, latchVars, workerVars, shut, starts,
                 snapshot, historyVars>>

Join ==
  /\ life = "joining"
  /\ \A w \in Workers : workerPc[w] = "off"
  /\ life' = "joined"
  /\ UNCHANGED <<queueVars, clientVars, latchVars, workerVars, shut, starts,
                 snapshot, historyVars>>

\* persist() takes the state lock once and writes what has been applied.
Persist ==
  /\ life = "joined"
  /\ life' = "persisted"
  /\ snapshot' = applied
  /\ UNCHANGED <<queueVars, clientVars, latchVars, workerVars, shut, starts,
                 historyVars>>

MarkStopped ==
  /\ life = "persisted"
  /\ life' = "down"
  /\ UNCHANGED <<queueVars, clientVars, latchVars, workerVars, shut, starts,
                 snapshot, historyVars>>

StopStep == CloseNext \/ Join \/ Persist \/ MarkStopped

\* Every submitter is done and nothing can be started again.
Finished ==
  /\ life = "down" /\ starts = MaxStarts
  /\ \A c \in Producers : pc[c] = "idle" /\ count[c] = MaxBatches
  /\ UNCHANGED vars

Wakeup ==
  /\ SpuriousWakeup
  /\ UNCHANGED <<clientVars, latchVars, workerVars, lifeVars, historyVars>>

Next ==
  \/ \E c \in Producers : ClientStep(c) \/ \E P \in Shapes : Call(c, P)
  \/ \E w \in Workers : WorkerStep(w)
  \/ Start \/ MarkStarted \/ Stop \/ StopStep
  \/ Wakeup
  \/ Finished

(***************************************************************************)
(* Threads that can run do run: a submitter inside submit_batch, a worker, *)
(* and a stop that was called.  Nothing obliges anyone to submit, to start *)
(* or to stop, and no progress comes from spurious wakeups.                *)
(***************************************************************************)
Fairness ==
  /\ \A c \in Producers : WF_vars(ClientStep(c))
  /\ \A w \in Workers : WF_vars(WorkerStep(w))
  /\ WF_vars(StopStep)

Spec == Init /\ [][Next]_vars
FairSpec == Spec /\ Fairness

-----------------------------------------------------------------------------
(***************************************************************************)
(* Properties.                                                             *)
(***************************************************************************)
\* submit_batch keeps its promise: each part applied at most once, an
\* acknowledgement only after all of them, exactly one answer (BatchAck).
Ack == INSTANCE BatchAck WITH
  Batches <- Batches, Parts <- Parts, parts <- parts, applied <- applied, answer <- answer
Acknowledged == Ack!Spec

\* A worker applies the batches of each submitter once each and in the order
\* they were submitted, across blocking, wakeups and shutdown.
AppliedInOrder ==
  \A w \in Workers : \A i, j \in DOMAIN order[w] :
    (i < j /\ order[w][i][1] = order[w][j][1]) => order[w][i][2] < order[w][j][2]

Notifying(w) == {c \in Producers : pc[c] = "notify" /\ Route(c) = w}
Pushing(w) == {c \in Producers : Awake(c) /\ Route(c) = w}

\* No wakeup is lost.  While a consumer waits, every item in its queue still
\* has its notification to come; while a producer waits, every free place is
\* owed to a notification to come or to a producer already awake.
NoLostWakeup ==
  \A w \in Workers :
    /\ w \in waitingEmpty => Len(items[w]) <= Cardinality(Notifying(w))
    /\ waitingFull[w] # {} =>
         Capacity - Len(items[w]) <=
           Cardinality(Pushing(w)) + (IF workerPc[w] = "notify" THEN 1 ELSE 0)

\* The snapshot written by stop() holds every part that a queue accepted: none
\* that submit_batch handed over is still on its way when stop() persists.
StopPersistsHandedOver ==
  life = "persisted" =>
    \A w \in Workers : \A b \in handed[w] : w \in snapshot[b]

\* Every submitter is answered, whatever blocks it and whenever stop comes.
EverySubmitAnswered ==
  \A c \in Producers : pc[c] # "idle" ~> pc[c] = "idle"

\* stop() returns: no join waits for a worker that waits for something else.
StopReturns == life = "closing" ~> life = "down"
=============================================================================
