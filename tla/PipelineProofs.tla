--------------------------- MODULE PipelineProofs ---------------------------
(***************************************************************************)
(* Proofs about Pipeline, for any number of submitters, workers, batches   *)
(* and starts and any queue capacity.                                      *)
(***************************************************************************)
EXTENDS Pipeline, FiniteSetTheorems, TLAPS

(***************************************************************************)
(* The inductive invariant.                                                *)
(***************************************************************************)
\* Where start and stop leave queues and workers: a worker that is off left a
\* drained queue that is closed for good, or never ran.
LifeInv ==
  /\ starts = 0 => life = "down" /\ \A c \in Producers : pc[c] \in {"idle", "check"}
  /\ life \in {"down", "joined", "persisted"} => \A w \in Workers : workerPc[w] = "off"
  /\ life = "closing" => \A w \in shut : closed[w]
  /\ life \in {"joining", "joined", "persisted"} => \A w \in Workers : closed[w]
  /\ \A w \in Workers :
       workerPc[w] = "off" => items[w] = <<>> /\ (closed[w] \/ starts = 0)

\* What a submitter inside submit_batch knows of its current batch.
ClientInvOf(c) ==
  /\ pc[c] # "idle" => count[c] >= 1 /\ answer[Current(c)] = "pending"
  /\ pc[c] \in {"push", "notify"} => todo[c] # {}
  /\ pc[c] \notin {"idle", "check"} => todo[c] \subseteq parts[Current(c)]
  /\ pc[c] = "check" => applied[Current(c)] = {}
  /\ pc[c] = "inline" => Inline \in parts[Current(c)] \ applied[Current(c)]
  /\ pc[c] = "arrive" => Inline \in parts[Current(c)] \cap applied[Current(c)]

ClientInv == \A c \in Producers : ClientInvOf(c)

\* Nothing is known of a batch that was not submitted yet.
FreshInv ==
  \A c \in Producers : \A k \in (count[c] + 1)..MaxBatches :
    /\ parts[<<c, k>>] = {} /\ applied[<<c, k>>] = {}
    /\ answer[<<c, k>>] = "none" /\ <<c, k>> \notin signalled
    /\ \A w \in Workers : <<c, k>> \notin handed[w]

\* A worker holds a batch that it has not applied yet.
Holding(w) == workerPc[w] \in {"notify", "apply"}

\* A part that a queue accepted is in the queue, in the worker's hand or
\* applied, and nothing else is.
HandedOver(w) ==
  /\ \A b \in handed[w] :
       /\ w \in parts[b]
       /\ \/ w \in applied[b]
          \/ Holding(w) /\ hand[w] = b
          \/ \E i \in DOMAIN items[w] : items[w][i] = b
  /\ \A i \in DOMAIN items[w] : items[w][i] \in handed[w]
  /\ \A i \in DOMAIN order[w] : order[w][i] \in handed[w] /\ w \in applied[order[w][i]]
  /\ workerPc[w] \in {"notify", "apply", "arrive"} => hand[w] \in handed[w]
  /\ workerPc[w] = "arrive" => w \in applied[hand[w]]
  /\ \A b \in Batches : w \in applied[b] => \E i \in DOMAIN order[w] : order[w][i] = b

\* A submitter does not hand a part of its batch to the same queue twice.
HandedOnce(c) ==
  \A w \in Workers : Current(c) \in handed[w] =>
    /\ pc[c] # "check"
    /\ w \notin todo[c] \/ (pc[c] = "notify" /\ Route(c) = w)

HandedInv ==
  /\ \A w \in Workers : HandedOver(w)
  /\ \A c \in Producers : HandedOnce(c)

\* a comes before b when they are batches of one submitter.
Before(a, b) == a[1] = b[1] => a[2] < b[2]

\* What a worker applied, holds and will pop is in submission order.
InOrder(w) ==
  /\ \A i, j \in DOMAIN order[w] : i < j => Before(order[w][i], order[w][j])
  /\ \A i, j \in DOMAIN items[w] : i < j => Before(items[w][i], items[w][j])
  /\ \A i \in DOMAIN order[w], j \in DOMAIN items[w] : Before(order[w][i], items[w][j])
  /\ Holding(w) =>
       /\ \A i \in DOMAIN order[w] : Before(order[w][i], hand[w])
       /\ \A i \in DOMAIN items[w] : Before(hand[w], items[w][i])

OrderInv == \A w \in Workers : InOrder(w)

\* The part was applied and its arrival at the countdown is still to come.
Arriving(b, p) ==
  \/ p = Inline /\ pc[b[1]] = "arrive" /\ b = Current(b[1])
  \/ p \in Workers /\ workerPc[p] = "arrive" /\ hand[p] = b

Outstanding(b) == {p \in parts[b] : p \notin applied[b] \/ Arriving(b, p)}

\* The countdown of a batch is set up.
Counting(b) ==
  \/ b = Current(b[1]) /\ pc[b[1]] \notin {"idle", "check"}
  \/ \E w \in Workers : b \in handed[w]

\* The countdown of a batch is the number of its outstanding parts, and the
\* completion is signalled, and acknowledged, only when there are none.
CountOf(b) ==
  /\ applied[b] \subseteq parts[b]
  /\ Counting(b) => remaining[b] = Cardinality(Outstanding(b))
  /\ b \in signalled => Outstanding(b) = {}
  /\ answer[b] = "acked" => b \in signalled

CountInv == \A b \in Batches : CountOf(b)

IInv == TypeOK /\ LifeInv /\ ClientInv /\ FreshInv /\ HandedInv /\ OrderInv /\ CountInv

\* A producer that waits for space is inside that push, and none waits at a
\* closed queue.
WaitOf(w) ==
  /\ \A c \in waitingFull[w] : pc[c] = "push" /\ Route(c) = w
  /\ closed[w] => waitingFull[w] = {}

WaitInv == \A w \in Workers : WaitOf(w)

\* NoLostWakeup at one queue.
WakeOf(w) ==
  /\ w \in waitingEmpty => Len(items[w]) <= Cardinality(Notifying(w))
  /\ waitingFull[w] # {} =>
       Capacity - Len(items[w]) <=
         Cardinality(Pushing(w)) + (IF workerPc[w] = "notify" THEN 1 ELSE 0)

(***************************************************************************)
(* Routes, batches and countdowns.                                         *)
(***************************************************************************)
\* A nonempty set of route numbers has a lowest one: where the walk over the
\* map of routed parts is.
LEMMA LowestIs ==
  ASSUME NEW S, S \subseteq Nat, S # {}
  PROVE  Lowest(S) \in S /\ \A v \in S : Lowest(S) <= v
<1> DEFINE R == {ss \in Nat \X Nat : ss[1] < ss[2]}
<1>1. IsWellFoundedOn(R, Nat)
  BY NatLessThanWellFounded DEF OpToRel
<1>2. \E x \in S : \A y \in S : ~(<<y, x>> \in R)
  <2> HIDE DEF R
  <2> QED
    BY <1>1, WFMin
<1>3. \E x \in S : \A y \in S : ~(y < x)
  BY <1>2
<1>4. \E x \in S : \A y \in S : x <= y
  BY <1>3
<1>5. QED
  BY <1>4 DEF Lowest

\* A submitter that pushes or notifies is at one of its routes.
LEMMA RouteType ==
  ASSUME TypeOK, ClientInv, NEW c \in Producers, pc[c] \in {"push", "notify"}
  PROVE  Route(c) \in todo[c] /\ Route(c) \in Workers
<1>1. todo[c] \subseteq Nat /\ todo[c] \subseteq Workers /\ todo[c] # {}
  BY QueueAssumption DEF TypeOK, ClientInv, ClientInvOf
<1>2. QED
  BY <1>1, LowestIs DEF Route

\* The current batch of a submitter inside submit_batch, and the next one.
LEMMA BatchType ==
  ASSUME TypeOK, NEW c \in Producers
  PROVE  /\ ClientInv /\ pc[c] # "idle" => Current(c) \in Batches
         /\ count[c] < MaxBatches => <<c, count[c] + 1>> \in Batches
         /\ \A b \in Batches : b[1] \in Producers /\ b[2] \in 1..MaxBatches
                               /\ b = <<b[1], b[2]>>
<1>1. count[c] \in 0..MaxBatches /\ MaxBatches \in Nat
  BY PipelineAssumption DEF TypeOK
<1>2. ClientInv /\ pc[c] # "idle" => Current(c) \in Batches
  BY <1>1 DEF ClientInv, ClientInvOf, Current, Batches
<1>3. QED
  BY <1>1, <1>2 DEF Batches

\* The batch in the hand of a worker.
LEMMA HandType ==
  ASSUME TypeOK, HandedInv, NEW w \in Workers, workerPc[w] \in {"notify", "apply", "arrive"}
  PROVE  hand[w] \in Batches /\ hand[w] \in handed[w] /\ w \in parts[hand[w]]
BY DEF TypeOK, HandedInv, HandedOver, HandedOnce

\* The parts of a batch are finitely many.
LEMMA OutstandingFinite ==
  ASSUME TypeOK, NEW b \in Batches
  PROVE  /\ IsFiniteSet(Outstanding(b)) /\ Outstanding(b) \subseteq parts[b]
         /\ IsFiniteSet(parts[b]) /\ Cardinality(parts[b]) \in 0..Cardinality(Parts)
         /\ Cardinality(Parts) \in Nat
<1>1. IsFiniteSet(Parts)
  BY QueueAssumption, FS_AddElement DEF Parts
<1>2. parts[b] \in SUBSET Parts /\ Outstanding(b) \in SUBSET parts[b]
  BY DEF TypeOK, Outstanding
<1>3. /\ IsFiniteSet(parts[b]) /\ Cardinality(parts[b]) <= Cardinality(Parts)
      /\ Cardinality(parts[b]) \in Nat /\ Cardinality(Parts) \in Nat
  BY <1>1, <1>2, FS_Subset, FS_CardinalityType
<1>4. IsFiniteSet(Outstanding(b))
  BY <1>2, <1>3, FS_Subset
<1>5. QED
  BY <1>2, <1>3, <1>4

\* The countdown of a batch with an outstanding part is not used up, and the
\* last outstanding part is the one that finds it at one.
LEMMA Countdown ==
  ASSUME TypeOK, CountInv, NEW b \in Batches, Counting(b), NEW p \in Outstanding(b)
  PROVE  /\ remaining[b] \in 1..Cardinality(Parts)
         /\ Cardinality(Outstanding(b) \ {p}) = remaining[b] - 1
         /\ remaining[b] = 1 <=> Outstanding(b) \ {p} = {}
<1>1. /\ IsFiniteSet(Outstanding(b) \ {p})
      /\ Cardinality(Outstanding(b) \ {p}) = Cardinality(Outstanding(b)) - 1
  BY OutstandingFinite, FS_RemoveElement
<1>2. Cardinality(Outstanding(b) \ {p}) \in Nat
  BY <1>1, FS_CardinalityType
<1>3. Cardinality(Outstanding(b) \ {p}) = 0 <=> Outstanding(b) \ {p} = {}
  BY <1>1, FS_EmptySet
<1>4. remaining[b] = Cardinality(Outstanding(b))
  BY DEF CountInv, CountOf
<1>5. remaining[b] \in 0..Cardinality(Parts) /\ Cardinality(Parts) \in Nat
  BY OutstandingFinite DEF TypeOK
<1>6. QED
  BY <1>1, <1>2, <1>3, <1>4, <1>5

\* Whoever arrives at a countdown is one of the parts it still counts.
LEMMA ArriverCounted ==
  ASSUME IInv
  PROVE  /\ \A c \in Producers : pc[c] = "arrive" =>
              Counting(Current(c)) /\ Inline \in Outstanding(Current(c))
         /\ \A w \in Workers : workerPc[w] = "arrive" =>
              Counting(hand[w]) /\ w \in Outstanding(hand[w])
<1>1. ASSUME NEW c \in Producers, pc[c] = "arrive"
      PROVE  Counting(Current(c)) /\ Inline \in Outstanding(Current(c))
  <2>1. Current(c)[1] = c /\ Inline \in parts[Current(c)]
    BY <1>1 DEF Current, IInv, ClientInv, ClientInvOf
  <2>2. QED
    BY <1>1, <2>1 DEF Counting, Outstanding, Arriving
<1>2. ASSUME NEW w \in Workers, workerPc[w] = "arrive"
      PROVE  Counting(hand[w]) /\ w \in Outstanding(hand[w])
  BY <1>2, HandType DEF IInv, Counting, Outstanding, Arriving
<1>3. QED
  BY <1>1, <1>2

(***************************************************************************)
(* Type correctness.  That the countdown stays a count needs CountInv.     *)
(***************************************************************************)
\* An arrival keeps the types of the countdown and of the completions.
LEMMA ArriveType ==
  ASSUME IInv, NEW b \in Batches, NEW p, Counting(b), p \in Outstanding(b), Arrive(b)
  PROVE  /\ remaining' \in [Batches -> 0..Cardinality(Parts)]
         /\ signalled' \in SUBSET Batches
<1>1. remaining[b] \in 1..Cardinality(Parts) /\ Cardinality(Parts) \in Nat
  BY Countdown, OutstandingFinite DEF IInv
<1>2. remaining[b] - 1 \in 0..Cardinality(Parts)
  BY <1>1
<1>3. QED
  BY <1>2 DEF Arrive, IInv, TypeOK

\* The steps of submitters keep the types.
LEMMA ClientType ==
  ASSUME IInv, NEW c \in Producers,
         ClientStep(c) \/ \E P \in Shapes : Call(c, P)
  PROVE  TypeOK'
<1> DEFINE b == Current(c)
<1> USE DEF queueVars, clientVars, latchVars, workerVars, lifeVars, historyVars
<1>1. TypeOK /\ ClientInv /\ QueueTypeOK(Batches)
  BY DEF IInv, TypeOK
<1>2. CASE \E P \in Shapes : Call(c, P)
  <2> PICK P \in Shapes : Call(c, P)
    BY <1>2
  <2>1. <<c, count[c] + 1>> \in Batches /\ P \in SUBSET Parts
        /\ count[c] + 1 \in 0..MaxBatches
    BY <1>1, BatchType, PipelineAssumption DEF Call, TypeOK
  <2>2. QED
    BY <1>1, <2>1 DEF Call, Answer, Goto, TypeOK, QueueTypeOK, ClientPcs
<1>3. CASE pc[c] # "idle" /\ UNCHANGED queueVars /\ Refused(c)
  BY <1>1, <1>3, BatchType DEF Refused, Answer, Goto, TypeOK, QueueTypeOK, ClientPcs
<1>4. CASE CheckStarted(c) \/ SubmitNotRunning(c) \/ PushRefused(c)
  BY <1>3, <1>4 DEF CheckStarted, SubmitNotRunning, PushRefused, PushClosed, Awake
<1>5. CASE Split(c)
  <2>1. b \in Batches /\ parts[b] \ {Inline} \in SUBSET Workers
    BY <1>1, <1>5, BatchType DEF Split, TypeOK, Parts
  <2>2. Cardinality(parts[b]) \in 0..Cardinality(Parts)
    BY <1>1, <2>1, OutstandingFinite
  <2>3. pc' \in [Producers -> ClientPcs]
    BY <1>1, <1>5 DEF Split, Goto, TypeOK, ClientPcs
  <2>4. remaining' \in [Batches -> 0..Cardinality(Parts)]
    BY <1>1, <1>5, <2>1, <2>2 DEF Split, TypeOK
  <2>5. todo' \in [Producers -> SUBSET Workers] /\ signalled' \in SUBSET Batches
    BY <1>1, <1>5, <2>1 DEF Split, TypeOK
  <2>6. QED
    BY <1>1, <1>5, <2>3, <2>4, <2>5 DEF Split, TypeOK, QueueTypeOK
<1>6. CASE ApplyInline(c)
  <2>1. b \in Batches /\ Inline \in Parts
    BY <1>1, <1>6, BatchType DEF ApplyInline, Parts
  <2>2. QED
    BY <1>1, <1>6, <2>1 DEF ApplyInline, Apply, Goto, TypeOK, QueueTypeOK, ClientPcs
<1>7. CASE ArriveInline(c)
  <2>1. b \in Batches /\ Counting(b) /\ Inline \in Outstanding(b) /\ Arrive(b)
    BY <1>1, <1>7, BatchType, ArriverCounted DEF ArriveInline
  <2>2. remaining' \in [Batches -> 0..Cardinality(Parts)] /\ signalled' \in SUBSET Batches
    BY <2>1, ArriveType
  <2>3. QED
    BY <1>1, <1>7, <2>2 DEF ArriveInline, Goto, TypeOK, QueueTypeOK, ClientPcs
<1>8. CASE SubmitNext(c) \/ GoOn(c)
  BY <1>1, <1>8 DEF SubmitNext, GoOn, Goto, TypeOK, QueueTypeOK, ClientPcs
<1>9. CASE PushBlocks(c)
  <2>1. Route(c) \in Workers
    BY <1>1, <1>9, RouteType DEF PushBlocks, Awake
  <2>2. QED
    BY <1>1, <1>9, <2>1 DEF PushBlocks, WaitFull, TypeOK, QueueTypeOK
<1>10. CASE Push(c)
  <2>1. Route(c) \in Workers /\ b \in Batches
    BY <1>1, <1>10, RouteType, BatchType DEF Push, Awake
  <2>2. Append(items[Route(c)], b) \in Seq(Batches)
    BY <1>1, <2>1 DEF QueueTypeOK
  <2>3. QED
    BY <1>1, <1>10, <2>1, <2>2 DEF Push, Enqueue, Goto, TypeOK, QueueTypeOK, ClientPcs
<1>11. CASE PushNotify(c)
  BY <1>1, <1>11 DEF PushNotify, NotifyEmpty, Goto, TypeOK, QueueTypeOK, ClientPcs
<1>12. CASE Acknowledge(c)
  <2>1. b \in Batches
    BY <1>1, <1>12, BatchType DEF Acknowledge
  <2>2. QED
    BY <1>1, <1>12, <2>1 DEF Acknowledge, Answer, Goto, TypeOK, QueueTypeOK, ClientPcs
<1>13. QED
  BY <1>2, <1>4, <1>5, <1>6, <1>7, <1>8, <1>9, <1>10, <1>11, <1>12 DEF ClientStep

\* The steps of workers keep the types.
LEMMA WorkerType ==
  ASSUME IInv, NEW w \in Workers, WorkerStep(w)
  PROVE  TypeOK'
<1> USE DEF queueVars, clientVars, latchVars, workerVars, lifeVars, historyVars
<1>1. TypeOK /\ HandedInv /\ QueueTypeOK(Batches)
  BY DEF IInv, TypeOK
<1>2. CASE PopBlocks(w)
  BY <1>1, <1>2 DEF PopBlocks, WaitEmpty, TypeOK, QueueTypeOK
<1>3. CASE Pop(w)
  <2>1. Head(items[w]) \in Batches /\ Tail(items[w]) \in Seq(Batches)
    BY <1>1, <1>3 DEF Pop, Dequeue, QueueTypeOK
  <2>2. QED
    BY <1>1, <1>3, <2>1 DEF Pop, Dequeue, WorkerGoto, TypeOK, QueueTypeOK, WorkerPcs
<1>4. CASE PopNotify(w)
  <2>1. waitingFull' \in [Workers -> SUBSET Producers]
    BY <1>1, <1>4 DEF PopNotify, NotifyFull, QueueTypeOK
  <2>2. workerPc' \in [Workers -> WorkerPcs]
    BY <1>1, <1>4 DEF PopNotify, WorkerGoto, TypeOK, WorkerPcs
  <2>3. QED
    BY <1>1, <1>4, <2>1, <2>2 DEF PopNotify, NotifyFull, TypeOK, QueueTypeOK
<1>5. CASE ApplyRouted(w)
  <2>1. hand[w] \in Batches /\ w \in Parts
    BY <1>1, <1>5, HandType DEF ApplyRouted, Parts
  <2>2. Append(order[w], hand[w]) \in Seq(Batches)
    BY <1>1, <2>1 DEF TypeOK
  <2>3. QED
    BY <1>1, <1>5, <2>1, <2>2
    DEF ApplyRouted, Apply, WorkerGoto, TypeOK, QueueTypeOK, WorkerPcs
<1>6. CASE ArriveRouted(w)
  <2>1. hand[w] \in Batches /\ Counting(hand[w]) /\ w \in Outstanding(hand[w])
        /\ Arrive(hand[w])
    BY <1>1, <1>6, HandType, ArriverCounted DEF ArriveRouted
  <2>2. remaining' \in [Batches -> 0..Cardinality(Parts)] /\ signalled' \in SUBSET Batches
    BY <2>1, ArriveType
  <2>3. QED
    BY <1>1, <1>6, <2>2 DEF ArriveRouted, WorkerGoto, TypeOK, QueueTypeOK, WorkerPcs
<1>7. CASE Exit(w)
  BY <1>1, <1>7 DEF Exit, PopDrained, WorkerGoto, TypeOK, QueueTypeOK, WorkerPcs
<1>8. QED
  BY <1>2, <1>3, <1>4, <1>5, <1>6, <1>7 DEF WorkerStep

\* start, stop and wakeups.
LifeStep == Start \/ MarkStarted \/ Stop \/ StopStep

\* They keep the types.
LEMMA LifeType ==
  ASSUME IInv, LifeStep \/ Wakeup \/ UNCHANGED vars
  PROVE  TypeOK'
<1> USE DEF queueVars, clientVars, latchVars, workerVars, lifeVars, historyVars
<1>1. TypeOK /\ QueueTypeOK(Batches) /\ MaxStarts \in Nat
  BY PipelineAssumption DEF IInv, TypeOK
<1>2. CASE Start
  BY <1>1, <1>2 DEF Start, TypeOK, QueueTypeOK, WorkerPcs, Lives
<1>3. CASE MarkStarted \/ Stop \/ Join \/ MarkStopped \/ Persist
  BY <1>1, <1>3 DEF MarkStarted, Stop, Join, MarkStopped, Persist, TypeOK, QueueTypeOK, Lives
<1>4. CASE CloseNext
  <2>1. CASE shut = Workers
    BY <1>1, <1>4, <2>1 DEF CloseNext, TypeOK, QueueTypeOK, Lives
  <2>2. CASE shut # Workers
    <3> DEFINE w == Lowest(Workers \ shut)
    <3>1. w \in Workers
      <4>1. Workers \ shut \subseteq Nat /\ Workers \ shut # {}
        BY <1>1, <2>2, QueueAssumption DEF TypeOK
      <4>2. QED
        BY <4>1, LowestIs
    <3>2. Close(w) /\ shut' = shut \cup {w} /\ UNCHANGED life
      BY <1>4, <2>2 DEF CloseNext
    <3> HIDE DEF w
    <3>3. QED
      BY <1>1, <1>4, <3>1, <3>2 DEF CloseNext, Close, TypeOK, QueueTypeOK
  <2>3. QED
    BY <2>1, <2>2
<1>5. CASE Wakeup
  <2>1. /\ waitingFull' \in [Workers -> SUBSET Producers]
        /\ waitingEmpty' \in SUBSET Workers
    BY <1>1, <1>5 DEF Wakeup, SpuriousWakeup, QueueTypeOK
  <2>2. QED
    BY <1>1, <1>5, <2>1 DEF Wakeup, SpuriousWakeup, TypeOK, QueueTypeOK
<1>6. CASE UNCHANGED vars
  BY <1>1, <1>6 DEF vars, TypeOK, QueueTypeOK
<1>7. QED
  BY <1>2, <1>3, <1>4, <1>5, <1>6 DEF LifeStep, StopStep

(***************************************************************************)
(* Lifecycle.                                                              *)
(***************************************************************************)
\* Submitters push only to a pool that was started and a queue that is open.
LEMMA ClientLife ==
  ASSUME IInv, NEW c \in Producers, ClientStep(c) \/ \E P \in Shapes : Call(c, P)
  PROVE  LifeInv'
<1> USE DEF queueVars, clientVars, latchVars, workerVars, lifeVars, historyVars
<1>1. TypeOK /\ LifeInv /\ ClientInv
  BY DEF IInv
<1>2. UNCHANGED <<closed, workerPc, life, shut, starts>>
  BY DEF ClientStep, Call, CheckStarted, SubmitNotRunning, PushRefused, Refused, Split,
     ApplyInline, ArriveInline, SubmitNext, PushBlocks, WaitFull, PushClosed, Push,
     Enqueue, PushNotify, NotifyEmpty, Acknowledge, GoOn
<1>3. starts = 0 => \A x \in Producers : pc'[x] \in {"idle", "check"}
  <2> SUFFICES ASSUME starts = 0 PROVE \A x \in Producers : pc'[x] \in {"idle", "check"}
    OBVIOUS
  <2>1. life = "down" /\ pc[c] \in {"idle", "check"} /\ ~Started
    BY <1>1 DEF LifeInv, Started
  <2>2. (\E P \in Shapes : Call(c, P)) \/ CheckStarted(c)
    BY <2>1 DEF ClientStep, SubmitNotRunning, PushRefused, Split, ApplyInline,
       ArriveInline, SubmitNext, PushBlocks, Push, PushNotify, Acknowledge, GoOn, Awake
  <2>3. pc' = [pc EXCEPT ![c] = "check"] \/ pc' = [pc EXCEPT ![c] = "idle"]
    BY <2>2 DEF Call, CheckStarted, Refused, Goto
  <2>4. QED
    BY <1>1, <2>3 DEF LifeInv, TypeOK
<1>4. ASSUME NEW w \in Workers, workerPc[w] = "off" PROVE items'[w] = <<>>
  <2>1. items[w] = <<>> /\ (closed[w] \/ starts = 0)
    BY <1>1, <1>4 DEF LifeInv
  <2>2. CASE Push(c)
    <3>1. pc[c] = "push" /\ ~closed[Route(c)] /\ starts # 0
      BY <1>1, <2>2 DEF Push, Awake, Enqueue, LifeInv
    <3>2. Route(c) # w /\ Route(c) \in Workers
      BY <1>1, <2>1, <3>1, RouteType
    <3>3. QED
      BY <1>1, <2>1, <2>2, <3>2 DEF Push, Enqueue, TypeOK, QueueTypeOK
  <2>3. CASE ~Push(c)
    BY <2>1, <2>3 DEF ClientStep, Call, CheckStarted, SubmitNotRunning, PushRefused, Refused,
       Split, ApplyInline, ArriveInline, SubmitNext, PushBlocks, WaitFull, PushClosed,
       PushNotify, NotifyEmpty, Acknowledge, GoOn
  <2>4. QED
    BY <2>2, <2>3
<1>5. QED
  BY <1>1, <1>2, <1>3, <1>4 DEF LifeInv

\* A worker leaves a drained and closed queue.
LEMMA WorkerLife ==
  ASSUME IInv, NEW w \in Workers, WorkerStep(w)
  PROVE  LifeInv'
<1> USE DEF queueVars, clientVars, latchVars, workerVars, lifeVars, historyVars
<1>1. TypeOK /\ LifeInv
  BY DEF IInv
<1>2. UNCHANGED <<pc, closed, life, shut, starts>> /\ workerPc[w] # "off"
  BY DEF WorkerStep, PopBlocks, WaitEmpty, Pop, Dequeue, PopNotify, NotifyFull,
     ApplyRouted, ArriveRouted, Exit, PopDrained, Popping
<1>3. /\ \A x \in Workers \ {w} : items'[x] = items[x] /\ workerPc'[x] = workerPc[x]
      /\ workerPc'[w] = "off" => items'[w] = <<>> /\ closed[w]
  <2>1. CASE PopBlocks(w)
    BY <1>2, <2>1 DEF PopBlocks, WaitEmpty
  <2>2. CASE Exit(w)
    BY <1>1, <2>2 DEF Exit, PopDrained, WorkerGoto, TypeOK
  <2>3. CASE Pop(w)
    BY <1>1, <2>3 DEF Pop, Dequeue, WorkerGoto, TypeOK, QueueTypeOK
  <2>4. CASE PopNotify(w) \/ ApplyRouted(w) \/ ArriveRouted(w)
    BY <1>1, <2>4 DEF PopNotify, NotifyFull, ApplyRouted, ArriveRouted, WorkerGoto, TypeOK
  <2>5. QED
    BY <2>1, <2>2, <2>3, <2>4 DEF WorkerStep
<1>4. life \notin {"down", "joined", "persisted"}
  BY <1>1, <1>2 DEF LifeInv
<1>5. QED
  BY <1>1, <1>2, <1>3, <1>4 DEF LifeInv

\* stop closes every queue before it joins, and joins before it persists.
LEMMA LifeLife ==
  ASSUME IInv, LifeStep \/ Wakeup \/ UNCHANGED vars
  PROVE  LifeInv'
<1> USE DEF queueVars, clientVars, latchVars, workerVars, lifeVars, historyVars
<1>1. TypeOK /\ LifeInv /\ QueueTypeOK(Batches)
  BY DEF IInv, TypeOK
<1>2. CASE Start
  BY <1>1, <1>2 DEF Start, LifeInv, TypeOK
<1>3. CASE MarkStarted \/ Stop
  BY <1>1, <1>3 DEF MarkStarted, Stop, LifeInv
<1>4. CASE Join \/ MarkStopped \/ Persist
  BY <1>1, <1>4 DEF Join, MarkStopped, Persist, LifeInv
<1>5. CASE CloseNext
  <2>1. CASE shut = Workers
    BY <1>1, <1>5, <2>1 DEF CloseNext, LifeInv
  <2>2. CASE shut # Workers
    <3>1. PICK w : Close(w) /\ shut' = shut \cup {w} /\ UNCHANGED life
      BY <1>5, <2>2 DEF CloseNext
    <3>2. /\ life = "closing" /\ UNCHANGED <<pc, workerPc, items, starts, life>>
          /\ \A x \in Workers : closed[x] => closed'[x]
      BY <1>1, <1>5, <3>1 DEF CloseNext, Close, QueueTypeOK
    <3>3. \A x \in shut' : closed'[x]
      <4>1. shut \cup {w} \subseteq Workers
        BY <3>1, LifeType, <1>5 DEF LifeStep, StopStep, TypeOK
      <4>2. QED
        BY <1>1, <3>1, <3>2, <4>1 DEF Close, QueueTypeOK, LifeInv
    <3>4. QED
      BY <1>1, <3>2, <3>3 DEF LifeInv
  <2>3. QED
    BY <2>1, <2>2
<1>6. CASE Wakeup
  BY <1>1, <1>6 DEF Wakeup, SpuriousWakeup, LifeInv
<1>7. CASE UNCHANGED vars
  BY <1>1, <1>7 DEF vars, LifeInv
<1>8. QED
  BY <1>2, <1>3, <1>4, <1>5, <1>6, <1>7 DEF LifeStep, StopStep

(***************************************************************************)
(* Submitters and their batches.                                           *)
(***************************************************************************)
\* A step of a submitter is about itself and one batch of its own.
LEMMA ClientLocal ==
  ASSUME IInv, NEW c \in Producers, ClientStep(c) \/ \E P \in Shapes : Call(c, P)
  PROVE  /\ \A x \in Producers \ {c} :
              pc'[x] = pc[x] /\ count'[x] = count[x] /\ todo'[x] = todo[x]
         /\ \A b \in Batches : b[1] # c =>
              parts'[b] = parts[b] /\ applied'[b] = applied[b] /\ answer'[b] = answer[b]
<1> USE DEF queueVars, clientVars, latchVars, workerVars, lifeVars, historyVars
<1>1. TypeOK /\ ClientInv /\ Current(c)[1] = c
  BY DEF IInv, Current
<1>2. CASE \E P \in Shapes : Call(c, P)
  BY <1>1, <1>2, BatchType DEF Call, Answer, Goto, TypeOK
<1>3. CASE CheckStarted(c) \/ SubmitNotRunning(c) \/ PushRefused(c)
  BY <1>1, <1>3 DEF CheckStarted, SubmitNotRunning, PushRefused, Refused, Answer, Goto, TypeOK
<1>4. CASE Split(c) \/ SubmitNext(c) \/ PushNotify(c) \/ GoOn(c)
  BY <1>1, <1>4 DEF Split, SubmitNext, PushNotify, GoOn, Goto, TypeOK
<1>5. CASE ApplyInline(c) \/ ArriveInline(c)
  BY <1>1, <1>5 DEF ApplyInline, ArriveInline, Apply, Goto, TypeOK
<1>6. CASE PushBlocks(c) \/ Push(c) \/ Acknowledge(c)
  BY <1>1, <1>6 DEF PushBlocks, Push, Acknowledge, Answer, Goto, TypeOK
<1>7. QED
  BY <1>2, <1>3, <1>4, <1>5, <1>6 DEF ClientStep

\* A submitter keeps track of its own batch.
LEMMA ClientOwn ==
  ASSUME IInv, NEW c \in Producers, ClientStep(c) \/ \E P \in Shapes : Call(c, P)
  PROVE  ClientInvOf(c)'
<1> DEFINE b == Current(c)
<1> USE DEF queueVars, clientVars, latchVars, workerVars, lifeVars, historyVars
<1>1. TypeOK /\ ClientInvOf(c) /\ FreshInv /\ ClientInv
  BY DEF IInv, ClientInv, ClientInvOf
<1>2. CASE \E P \in Shapes : Call(c, P)
  <2> PICK P \in Shapes : Call(c, P)
    BY <1>2
  <2> DEFINE n == <<c, count[c] + 1>>
  <2>1. n \in Batches /\ count[c] + 1 \in (count[c] + 1)..MaxBatches /\ count[c] \in Nat
    BY <1>1, BatchType, PipelineAssumption DEF Call, TypeOK
  <2>2. /\ pc'[c] = "check" /\ count'[c] = count[c] + 1 /\ answer'[n] = "pending"
        /\ applied'[n] = applied[n]
    BY <1>1, <2>1 DEF Call, Answer, Goto, TypeOK
  <2>3. applied[n] = {}
    BY <1>1, <2>1 DEF FreshInv
  <2>4. QED
    BY <2>1, <2>2, <2>3 DEF ClientInvOf, Current
<1>3. CASE CheckStarted(c) \/ SubmitNotRunning(c) \/ PushRefused(c) \/ Acknowledge(c) \/ GoOn(c)
  <2>1. pc'[c] = "idle"
    BY <1>1, <1>3 DEF CheckStarted, SubmitNotRunning, PushRefused, Refused, Acknowledge,
       GoOn, Goto, TypeOK
  <2>2. QED
    BY <2>1 DEF ClientInvOf
<1>4. CASE pc[c] # "idle" /\ ClientStep(c) /\ ~(CheckStarted(c) \/ SubmitNotRunning(c)
              \/ PushRefused(c) \/ Acknowledge(c) \/ GoOn(c))
  <2>1. b \in Batches /\ count' = count /\ Current(c)' = b /\ answer' = answer
        /\ parts' = parts /\ count[c] >= 1 /\ answer[b] = "pending"
    BY <1>1, <1>4, BatchType DEF ClientInvOf, ClientStep, Split, ApplyInline, ArriveInline,
       SubmitNext, PushBlocks, Push, PushNotify, Current
  <2>2. CASE Split(c)
    <3>1. /\ todo'[c] = parts[b] \ {Inline} /\ applied' = applied /\ pc[c] = "check"
          /\ pc'[c] = CASE Inline \in parts[b] -> "inline"
                        [] parts[b] = {}       -> "await"
                        [] OTHER               -> "submit"
      BY <1>1, <2>2 DEF Split, Goto, TypeOK
    <3>2. applied[b] = {} /\ pc'[c] \in {"inline", "await", "submit"}
          /\ (pc'[c] = "inline" => Inline \in parts[b])
      BY <1>1, <3>1 DEF ClientInvOf
    <3>3. QED
      BY <2>1, <3>1, <3>2 DEF ClientInvOf
  <2>3. CASE ApplyInline(c)
    <3>1. pc[c] = "inline" /\ pc'[c] = "arrive" /\ todo' = todo
          /\ applied'[b] = applied[b] \cup {Inline}
      BY <1>1, <2>1, <2>3 DEF ApplyInline, Apply, Goto, TypeOK
    <3>2. QED
      BY <1>1, <2>1, <3>1 DEF ClientInvOf
  <2>4. CASE ArriveInline(c) \/ Push(c)
    <3>1. pc[c] \in {"arrive", "push"} /\ todo' = todo
          /\ (pc'[c] = "submit" \/ (pc'[c] = "notify" /\ pc[c] = "push"))
      BY <1>1, <2>4 DEF ArriveInline, Push, Awake, Goto, TypeOK
    <3>2. QED
      BY <1>1, <2>1, <3>1 DEF ClientInvOf
  <2>5. CASE SubmitNext(c)
    <3>1. pc[c] = "submit" /\ todo' = todo
          /\ (pc'[c] = "await" \/ (pc'[c] = "push" /\ todo[c] # {}))
      BY <1>1, <2>5 DEF SubmitNext, Goto, TypeOK
    <3>2. QED
      BY <1>1, <2>1, <3>1 DEF ClientInvOf
  <2>6. CASE PushBlocks(c)
    BY <1>1, <2>1, <2>6 DEF PushBlocks, ClientInvOf
  <2>7. CASE PushNotify(c)
    <3>1. pc[c] = "notify" /\ pc'[c] = "submit" /\ todo'[c] \subseteq todo[c]
      BY <1>1, <2>7 DEF PushNotify, Goto, TypeOK
    <3>2. QED
      BY <1>1, <2>1, <3>1 DEF ClientInvOf
  <2>8. QED
    BY <1>4, <2>2, <2>3, <2>4, <2>5, <2>6, <2>7 DEF ClientStep
<1>5. ClientStep(c) => pc[c] # "idle"
  BY DEF ClientStep, CheckStarted, SubmitNotRunning, PushRefused, Split, ApplyInline,
     ArriveInline, SubmitNext, PushBlocks, Push, PushNotify, Acknowledge, GoOn, Awake
<1>6. QED
  BY <1>2, <1>3, <1>4, <1>5

\* Every submitter keeps track of its batch, whoever moves.
LEMMA ClientInvStep ==
  ASSUME IInv, [Next]_vars
  PROVE  ClientInv'
<1> USE DEF queueVars, clientVars, latchVars, workerVars, lifeVars, historyVars
<1>1. TypeOK /\ ClientInv /\ HandedInv
  BY DEF IInv
<1>2. ASSUME NEW c \in Producers, ClientStep(c) \/ \E P \in Shapes : Call(c, P)
      PROVE  ClientInv'
  <2>1. ASSUME NEW x \in Producers \ {c} PROVE ClientInvOf(x)'
    <3>1. /\ pc'[x] = pc[x] /\ count'[x] = count[x] /\ todo'[x] = todo[x]
          /\ Current(x)' = Current(x) /\ Current(x)[1] = x
      BY <1>2, ClientLocal DEF Current
    <3>2. pc[x] # "idle" => Current(x) \in Batches
      BY <1>1, BatchType
    <3>3. pc[x] # "idle" =>
            /\ parts'[Current(x)] = parts[Current(x)]
            /\ applied'[Current(x)] = applied[Current(x)]
            /\ answer'[Current(x)] = answer[Current(x)]
      BY <1>2, <3>1, <3>2, ClientLocal
    <3>4. ClientInvOf(x)
      BY <1>1 DEF ClientInv, ClientInvOf
    <3>5. CASE pc[x] = "idle"
      BY <3>1, <3>5 DEF ClientInvOf
    <3>6. CASE pc[x] # "idle"
      BY <3>1, <3>3, <3>4, <3>6 DEF ClientInvOf
    <3>7. QED
      BY <3>5, <3>6
  <2>2. ClientInvOf(c)'
    BY <1>2, ClientOwn
  <2>3. QED
    BY <2>1, <2>2 DEF ClientInv, ClientInvOf
<1>3. ASSUME NEW w \in Workers, WorkerStep(w)
      PROVE  ClientInv'
  <2>1. UNCHANGED <<pc, count, todo, parts, answer>>
    BY <1>3 DEF WorkerStep, PopBlocks, Pop, PopNotify, ApplyRouted, ArriveRouted, Exit
  <2>2. CASE ApplyRouted(w)
    <3>1. hand[w] \in Batches /\ hand[w] \in handed[w]
      BY <1>1, <2>2, HandType DEF ApplyRouted
    <3>2. applied' = [applied EXCEPT ![hand[w]] = @ \cup {w}]
      BY <2>2 DEF ApplyRouted, Apply
    <3>3. w # Inline
      BY QueueAssumption DEF Inline
    <3>4. ASSUME NEW x \in Producers, pc[x] # "idle"
          PROVE  /\ Current(x) \in Batches
                 /\ pc[x] = "check" => applied'[Current(x)] = applied[Current(x)]
                 /\ Inline \in applied'[Current(x)] <=> Inline \in applied[Current(x)]
      <4>1. Current(x) \in Batches
        BY <1>1, <3>4, BatchType
      <4>2. pc[x] = "check" => Current(x) # hand[w]
        BY <1>1, <3>1 DEF HandedInv, HandedOver, HandedOnce
      <4>3. QED
        BY <1>1, <3>1, <3>2, <3>3, <4>1, <4>2 DEF TypeOK
    <3>5. ASSUME NEW x \in Producers PROVE ClientInvOf(x)'
      <4>1. Current(x)' = Current(x)
        BY <2>1 DEF Current
      <4>2. ClientInvOf(x)
        BY <1>1 DEF ClientInv, ClientInvOf
      <4>3. QED
        BY <2>1, <3>4, <4>1, <4>2 DEF ClientInvOf
    <3>6. QED
      BY <3>5 DEF ClientInv, ClientInvOf
  <2>3. CASE ~ApplyRouted(w)
    <3>1. applied' = applied
      BY <1>3, <2>3 DEF WorkerStep, PopBlocks, Pop, PopNotify, ArriveRouted, Exit
    <3>2. QED
      BY <1>1, <2>1, <3>1 DEF ClientInv, ClientInvOf, Current
  <2>4. QED
    BY <2>2, <2>3
<1>4. CASE LifeStep \/ Wakeup \/ UNCHANGED vars
  <2>1. UNCHANGED <<pc, count, todo, parts, answer, applied>>
    BY <1>4 DEF LifeStep, StopStep, Start, MarkStarted, Stop, CloseNext, Join, Persist,
       MarkStopped, Wakeup, vars
  <2>2. QED
    BY <1>1, <2>1 DEF ClientInv, ClientInvOf, Current
<1>5. QED
  BY <1>2, <1>3, <1>4 DEF Next, LifeStep, Finished

\* ... the batch that is its current one afterwards.
LEMMA ClientBatch ==
  ASSUME IInv, NEW c \in Producers, ClientStep(c) \/ \E P \in Shapes : Call(c, P)
  PROVE  /\ count'[c] \in {count[c], count[c] + 1}
         /\ \A b \in Batches : b # <<c, count'[c]>> =>
              /\ parts'[b] = parts[b] /\ applied'[b] = applied[b] /\ answer'[b] = answer[b]
              /\ remaining'[b] = remaining[b] /\ (b \in signalled' <=> b \in signalled)
              /\ \A w \in Workers : b \in handed'[w] <=> b \in handed[w]
<1> USE DEF queueVars, clientVars, latchVars, workerVars, lifeVars, historyVars
<1>1. TypeOK /\ ClientInv
  BY DEF IInv
<1>2. CASE \E P \in Shapes : Call(c, P)
  BY <1>1, <1>2 DEF Call, Answer, TypeOK
<1>3. CASE ClientStep(c)
  <2>1. count' = count
    BY <1>3 DEF ClientStep, CheckStarted, SubmitNotRunning, PushRefused, Refused, Split,
       ApplyInline, ArriveInline, SubmitNext, PushBlocks, Push, PushNotify, Acknowledge, GoOn
  <2>2. CASE CheckStarted(c) \/ SubmitNotRunning(c) \/ PushRefused(c) \/ Acknowledge(c)
    BY <1>1, <2>1, <2>2 DEF CheckStarted, SubmitNotRunning, PushRefused, Refused,
       Acknowledge, Answer, Current, TypeOK
  <2>3. CASE Split(c) \/ ArriveInline(c)
    BY <1>1, <2>1, <2>3 DEF Split, ArriveInline, Arrive, Current, TypeOK
  <2>4. CASE ApplyInline(c)
    BY <1>1, <2>1, <2>4 DEF ApplyInline, Apply, Current, TypeOK
  <2>5. CASE Push(c)
    BY <1>1, <2>1, <2>5 DEF Push, Current, TypeOK
  <2>6. CASE SubmitNext(c) \/ PushBlocks(c) \/ PushNotify(c) \/ GoOn(c)
    BY <2>1, <2>6 DEF SubmitNext, PushBlocks, PushNotify, GoOn
  <2>7. QED
    BY <1>3, <2>2, <2>3, <2>4, <2>5, <2>6 DEF ClientStep
<1>4. QED
  BY <1>2, <1>3

\* Nothing happens to a batch before it is submitted.
LEMMA FreshStep ==
  ASSUME IInv, [Next]_vars
  PROVE  FreshInv'
<1> USE DEF queueVars, clientVars, latchVars, workerVars, lifeVars, historyVars
<1>1. TypeOK /\ FreshInv /\ HandedInv
  BY DEF IInv
<1>2. ASSUME NEW x \in Producers, count[x] \in 0..MaxBatches,
             NEW k \in (count[x] + 1)..MaxBatches
      PROVE  <<x, k>> \in Batches
  BY <1>2, PipelineAssumption DEF Batches
<1>3. ASSUME NEW c \in Producers, ClientStep(c) \/ \E P \in Shapes : Call(c, P)
      PROVE  FreshInv'
  <2> SUFFICES ASSUME NEW x \in Producers, NEW k \in (count'[x] + 1)..MaxBatches
               PROVE  /\ parts'[<<x, k>>] = {} /\ applied'[<<x, k>>] = {}
                      /\ answer'[<<x, k>>] = "none" /\ <<x, k>> \notin signalled'
                      /\ \A w \in Workers : <<x, k>> \notin handed'[w]
    BY DEF FreshInv
  <2>1. count[x] \in 0..MaxBatches /\ MaxBatches \in Nat /\ count'[x] \in {count[x], count[x] + 1}
    BY <1>1, <1>3, ClientLocal, ClientBatch, PipelineAssumption DEF TypeOK
  <2>2. k \in (count[x] + 1)..MaxBatches /\ k # count'[x]
    BY <2>1
  <2>3. <<x, k>> # <<c, count'[c]>>
    BY <2>2
  <2>4. QED
    BY <1>1, <1>2, <1>3, <2>1, <2>2, <2>3, ClientBatch DEF FreshInv
<1>4. ASSUME NEW w \in Workers, WorkerStep(w)
      PROVE  FreshInv'
  <2>1. UNCHANGED <<count, parts, answer, handed>>
    BY <1>4 DEF WorkerStep, PopBlocks, Pop, PopNotify, ApplyRouted, ArriveRouted, Exit
  <2>2. \A b \in Batches : b \notin handed[w] =>
          applied'[b] = applied[b] /\ (b \in signalled' <=> b \in signalled)
    <3>1. CASE ApplyRouted(w)
      BY <1>1, <3>1, HandType DEF ApplyRouted, Apply, TypeOK
    <3>2. CASE ArriveRouted(w)
      BY <1>1, <3>2, HandType DEF ArriveRouted, Arrive, TypeOK
    <3>3. CASE PopBlocks(w) \/ Pop(w) \/ PopNotify(w) \/ Exit(w)
      BY <3>3 DEF PopBlocks, Pop, PopNotify, Exit
    <3>4. QED
      BY <1>4, <3>1, <3>2, <3>3 DEF WorkerStep
  <2>3. \A x \in Producers : \A k \in (count[x] + 1)..MaxBatches : <<x, k>> \in Batches
    BY <1>1, <1>2 DEF TypeOK
  <2>4. QED
    BY <1>1, <2>1, <2>2, <2>3 DEF FreshInv
<1>5. CASE LifeStep \/ Wakeup \/ UNCHANGED vars
  <2>1. UNCHANGED <<count, parts, answer, applied, signalled, handed>>
    BY <1>5 DEF LifeStep, StopStep, Start, MarkStarted, Stop, CloseNext, Join, Persist,
       MarkStopped, Wakeup, vars
  <2>2. QED
    BY <1>1, <2>1 DEF FreshInv
<1>6. QED
  BY <1>3, <1>4, <1>5 DEF Next, LifeStep, Finished

(***************************************************************************)
(* What was handed over to the queues.                                     *)
(***************************************************************************)
\* A step that leaves a worker, its queue and its parts of the batches alone.
LEMMA HandedOverFrame ==
  ASSUME TypeOK, NEW w \in Workers, HandedOver(w),
         items'[w] = items[w], hand'[w] = hand[w], order'[w] = order[w],
         handed'[w] = handed[w],
         workerPc'[w] = workerPc[w] \/ {workerPc[w], workerPc'[w]} \subseteq {"pop", "off"}
           \/ {workerPc[w], workerPc'[w]} \subseteq {"notify", "apply"},
         \A b \in handed[w] : w \in parts'[b],
         \A b \in Batches : w \in applied'[b] <=> w \in applied[b]
  PROVE  HandedOver(w)'
<1>1. handed[w] \subseteq Batches /\ workerPc[w] \in WorkerPcs
  BY DEF TypeOK
<1>2. Holding(w)' <=> Holding(w)
  BY DEF Holding
<1>3. workerPc'[w] \in {"notify", "apply", "arrive"} <=> workerPc[w] \in {"notify", "apply", "arrive"}
  OBVIOUS
<1>4. workerPc'[w] = "arrive" <=> workerPc[w] = "arrive"
  OBVIOUS
<1>5. \A b \in handed[w] : w \in applied'[b] <=> w \in applied[b]
  BY <1>1
<1>6. QED
  BY <1>2, <1>3, <1>4, <1>5 DEF HandedOver

\* What submitters do with the queues.
LEMMA HandedClient ==
  ASSUME IInv, NEW c \in Producers, ClientStep(c) \/ \E P \in Shapes : Call(c, P)
  PROVE  HandedInv'
<1> USE DEF queueVars, clientVars, latchVars, workerVars, lifeVars, historyVars
<1>1. /\ TypeOK /\ ClientInv /\ FreshInv /\ HandedInv /\ QueueTypeOK(Batches)
      /\ count[c] \in 0..MaxBatches /\ MaxBatches \in Nat
      /\ \A w \in Workers : handed[w] \subseteq Batches
  BY PipelineAssumption DEF IInv, TypeOK
<1>2. UNCHANGED <<workerPc, hand, order>>
  BY DEF ClientStep, CheckStarted, SubmitNotRunning, PushRefused, Refused, Split, Call,
     ApplyInline, ArriveInline, SubmitNext, PushBlocks, Push, PushNotify, Acknowledge, GoOn
<1>3. ASSUME NEW w \in Workers
      PROVE  /\ \A b \in handed[w] : w \in parts'[b]
             /\ \A b \in Batches : w \in applied'[b] <=> w \in applied[b]
  <2>1. CASE \E P \in Shapes : Call(c, P)
    <3>1. count'[c] = count[c] + 1 /\ applied' = applied /\ count[c] < MaxBatches
      BY <1>1, <2>1 DEF Call, TypeOK
    <3>2. <<c, count[c] + 1>> \notin handed[w]
      BY <1>1, <3>1 DEF FreshInv
    <3>3. QED
      BY <1>1, <3>1, <3>2, ClientBatch DEF HandedInv, HandedOver
  <2>2. CASE ApplyInline(c)
    BY <1>1, <2>2, QueueAssumption DEF ApplyInline, Apply, TypeOK, HandedInv, HandedOver, Inline
  <2>3. CASE ClientStep(c) /\ ~ApplyInline(c)
    <3>1. UNCHANGED <<parts, applied>>
      BY <2>3 DEF ClientStep, CheckStarted, SubmitNotRunning, PushRefused, Refused, Split,
         ArriveInline, SubmitNext, PushBlocks, Push, PushNotify, Acknowledge, GoOn
    <3>2. QED
      BY <1>1, <3>1 DEF HandedInv, HandedOver
  <2>4. QED
    BY <2>1, <2>2, <2>3
<1>4. CASE Push(c)
  <2> DEFINE r == Route(c)
             b == Current(c)
  <2>1. /\ r \in todo[c] /\ r \in Workers /\ b \in Batches /\ r \in parts[b]
        /\ pc[c] = "push" /\ pc'[c] = "notify" /\ UNCHANGED <<count, todo, parts, applied>>
    BY <1>1, <1>4, RouteType, BatchType DEF Push, Awake, Goto, TypeOK, ClientInv, ClientInvOf
  <2>2. /\ \A w \in Workers \ {r} : handed'[w] = handed[w] /\ items'[w] = items[w]
        /\ handed'[r] = handed[r] \cup {b} /\ items'[r] = Append(items[r], b)
    BY <1>1, <1>4, <2>1 DEF Push, Enqueue, TypeOK, QueueTypeOK
  <2>3. ASSUME NEW w \in Workers PROVE HandedOver(w)'
    <3>1. HandedOver(w)
      BY <1>1 DEF HandedInv
    <3>2. CASE w # r
      BY <1>1, <1>2, <1>3, <2>2, <3>1, <3>2, HandedOverFrame
    <3>3. CASE w = r
      <4>1. /\ items[r] \in Seq(Batches) /\ Len(items'[r]) = Len(items[r]) + 1
            /\ items'[r][Len(items[r]) + 1] = b
            /\ \A i \in 1..Len(items[r]) : items'[r][i] = items[r][i]
            /\ DOMAIN items'[r] = 1..(Len(items[r]) + 1) /\ DOMAIN items[r] = 1..Len(items[r])
            /\ Len(items[r]) \in Nat
        BY <1>1, <2>1, <2>2 DEF QueueTypeOK
      <4>2. \E i \in DOMAIN items'[r] : items'[r][i] = b
        BY <4>1
      <4>3. \A i \in DOMAIN items'[r] : items'[r][i] \in handed'[r]
        BY <2>2, <3>1, <3>3, <4>1 DEF HandedOver
      <4>4. \A x \in handed[r] : (\E i \in DOMAIN items[r] : items[r][i] = x) =>
                                   \E i \in DOMAIN items'[r] : items'[r][i] = x
        BY <4>1
      <4>5. \A x \in handed'[w] :
              /\ w \in parts'[x]
              /\ \/ w \in applied'[x]
                 \/ Holding(w)' /\ hand'[w] = x
                 \/ \E i \in DOMAIN items'[w] : items'[w][i] = x
        BY <1>2, <2>1, <2>2, <3>1, <3>3, <4>2, <4>4 DEF HandedOver, Holding
      <4>6. \A i \in DOMAIN items'[w] : items'[w][i] \in handed'[w]
        BY <3>3, <4>3
      <4>7. handed[w] \subseteq handed'[w]
        BY <2>2, <3>3
      <4>8. QED
        BY <1>2, <2>1, <3>1, <4>5, <4>6, <4>7 DEF HandedOver
    <3>4. QED
      BY <3>2, <3>3
  <2>4. ASSUME NEW x \in Producers PROVE HandedOnce(x)'
    <3>1. HandedOnce(x) /\ Current(x)' = Current(x) /\ Current(x)[1] = x /\ Route(x)' = Route(x)
      BY <1>1, <2>1 DEF HandedInv, Current, Route
    <3>2. CASE x # c
      <4>1. pc'[x] = pc[x] /\ Current(x) # b
        BY <3>1, <3>2, ClientLocal DEF Current
      <4>2. QED
        BY <2>1, <2>2, <3>1, <4>1 DEF HandedOnce
    <3>3. CASE x = c
      BY <2>1, <2>2, <3>1, <3>3 DEF HandedOnce
    <3>4. QED
      BY <3>2, <3>3
  <2>5. QED
    BY <2>3, <2>4 DEF HandedInv
<1>5. CASE ~Push(c)
  <2>1. UNCHANGED <<items, handed>>
    BY <1>5 DEF ClientStep, CheckStarted, SubmitNotRunning, PushRefused, PushClosed, Refused,
       Split, Call, ApplyInline, ArriveInline, SubmitNext, PushBlocks, WaitFull, PushNotify,
       NotifyEmpty, Acknowledge, GoOn
  <2>2. ASSUME NEW w \in Workers PROVE HandedOver(w)'
    BY <1>1, <1>2, <1>3, <2>1, HandedOverFrame DEF HandedInv
  <2>3. ASSUME NEW x \in Producers PROVE HandedOnce(x)'
    <3>1. HandedOnce(x)
      BY <1>1 DEF HandedInv
    <3>2. CASE x # c
      BY <2>1, <3>1, <3>2, ClientLocal DEF HandedOnce, Current, Route
    <3>3. CASE x = c /\ \E P \in Shapes : Call(c, P)
      <4>1. Current(c)' = <<c, count[c] + 1>> /\ count[c] < MaxBatches
        BY <1>1, <3>3 DEF Call, Current, TypeOK
      <4>2. \A w \in Workers : Current(c)' \notin handed[w]
        BY <1>1, <4>1 DEF FreshInv
      <4>3. QED
        BY <2>1, <3>3, <4>2 DEF HandedOnce
    <3>4. CASE x = c /\ ClientStep(c)
      <4>1. Current(c)' = Current(c)
        BY <1>5, <3>4 DEF Current, ClientStep, CheckStarted, SubmitNotRunning, PushRefused,
           Refused, Split, ApplyInline, ArriveInline, SubmitNext, PushBlocks, PushNotify,
           Acknowledge, GoOn
      <4>2. CASE Split(c)
        BY <2>1, <3>1, <3>4, <4>1, <4>2 DEF HandedOnce, Split
      <4>3. CASE CheckStarted(c) \/ SubmitNotRunning(c) \/ PushRefused(c)
        <5>1. todo'[c] = {} /\ pc'[c] = "idle"
          BY <1>1, <4>3 DEF CheckStarted, SubmitNotRunning, PushRefused, Refused, Goto, TypeOK
        <5>2. QED
          BY <3>4, <5>1 DEF HandedOnce
      <4>4. CASE PushNotify(c)
        <5>1. todo'[c] = todo[c] \ {Route(c)} /\ pc'[c] = "submit"
          BY <1>1, <4>4 DEF PushNotify, Goto, TypeOK
        <5>2. QED
          BY <2>1, <3>1, <3>4, <4>1, <5>1 DEF HandedOnce
      <4>5. CASE ApplyInline(c) \/ ArriveInline(c) \/ SubmitNext(c) \/ Acknowledge(c) \/ GoOn(c)
        <5>1. pc[c] # "notify" /\ todo' = todo /\ pc'[c] # "check"
          BY <1>1, <4>5 DEF ApplyInline, ArriveInline, SubmitNext, Acknowledge, GoOn, Goto, TypeOK
        <5>2. QED
          BY <2>1, <3>1, <3>4, <4>1, <5>1 DEF HandedOnce
      <4>6. CASE PushBlocks(c)
        BY <2>1, <3>1, <3>4, <4>1, <4>6 DEF PushBlocks, HandedOnce, Route
      <4>7. QED
        BY <1>5, <3>4, <4>2, <4>3, <4>4, <4>5, <4>6 DEF ClientStep
    <3>5. QED
      BY <3>2, <3>3, <3>4
  <2>4. QED
    BY <2>2, <2>3 DEF HandedInv
<1>6. QED
  BY <1>4, <1>5

\* A step of a worker is about its own queue, and about no submitter.
LEMMA WorkerLocal ==
  ASSUME TypeOK, HandedInv, NEW w \in Workers, WorkerStep(w)
  PROVE  /\ UNCHANGED <<pc, count, todo, parts, answer, handed, closed, life, shut, starts, snapshot>>
         /\ \A x \in Workers \ {w} :
              /\ items'[x] = items[x] /\ hand'[x] = hand[x] /\ order'[x] = order[x]
              /\ workerPc'[x] = workerPc[x]
              /\ \A b \in Batches : x \in applied'[b] <=> x \in applied[b]
<1> USE DEF queueVars, clientVars, latchVars, workerVars, lifeVars, historyVars
<1>1. CASE PopBlocks(w)
  BY <1>1 DEF PopBlocks, WaitEmpty
<1>2. CASE Pop(w)
  BY <1>2 DEF Pop, Dequeue, WorkerGoto, TypeOK, QueueTypeOK
<1>3. CASE PopNotify(w)
  BY <1>3 DEF PopNotify, NotifyFull, WorkerGoto, TypeOK
<1>4. CASE ApplyRouted(w)
  BY <1>4, HandType DEF ApplyRouted, Apply, WorkerGoto, TypeOK
<1>5. CASE ArriveRouted(w)
  BY <1>5 DEF ArriveRouted, WorkerGoto, TypeOK
<1>6. CASE Exit(w)
  BY <1>6 DEF Exit, PopDrained, WorkerGoto, TypeOK
<1>7. QED
  BY <1>1, <1>2, <1>3, <1>4, <1>5, <1>6 DEF WorkerStep

\* A batch that is popped stays accounted for until it is applied.
LEMMA HandedWorker ==
  ASSUME IInv, NEW w \in Workers, WorkerStep(w)
  PROVE  HandedInv'
<1> USE DEF queueVars, clientVars, latchVars, workerVars, lifeVars, historyVars
<1>1. /\ TypeOK /\ HandedInv /\ QueueTypeOK(Batches) /\ HandedOver(w)
      /\ \A x \in Workers : handed[x] \subseteq Batches
  BY DEF IInv, TypeOK, HandedInv
<1>2. ASSUME NEW x \in Producers PROVE HandedOnce(x)'
  BY <1>1, WorkerLocal DEF HandedInv, HandedOnce, Current, Route
<1>3. ASSUME NEW x \in Workers \ {w} PROVE HandedOver(x)'
  <2>1. \A b \in handed[x] : x \in parts'[b]
    BY <1>1, WorkerLocal DEF HandedInv, HandedOver
  <2>2. QED
    BY <1>1, <2>1, WorkerLocal, HandedOverFrame DEF HandedInv
<1>4. HandedOver(w)'
  <2>1. UNCHANGED <<parts, handed>>
    BY <1>1, WorkerLocal
  <2>2. CASE PopBlocks(w) \/ PopNotify(w) \/ Exit(w)
    <3>1. /\ UNCHANGED <<items, hand, order, applied>>
          /\ workerPc'[w] = workerPc[w] \/ {workerPc[w], workerPc'[w]} \subseteq {"pop", "off"}
               \/ {workerPc[w], workerPc'[w]} \subseteq {"notify", "apply"}
      BY <1>1, <2>2 DEF PopBlocks, PopNotify, Exit, WaitEmpty, NotifyFull, PopDrained, Popping,
         WorkerGoto, TypeOK
    <3>2. \A b \in handed[w] : w \in parts'[b]
      BY <1>1, <2>1 DEF HandedOver
    <3>3. QED
      BY <1>1, <2>1, <3>1, <3>2, HandedOverFrame
  <2>3. CASE Pop(w)
    <3>1. /\ items[w] \in Seq(Batches) /\ items[w] # <<>> /\ items'[w] = Tail(items[w])
          /\ hand'[w] = Head(items[w]) /\ workerPc'[w] = "notify" /\ workerPc[w] = "pop"
          /\ UNCHANGED <<applied, order>>
      BY <1>1, <2>3 DEF Pop, Popping, Dequeue, WorkerGoto, TypeOK, QueueTypeOK
    <3>2. /\ Len(items[w]) \in Nat \ {0} /\ DOMAIN items[w] = 1..Len(items[w])
          /\ DOMAIN items'[w] = 1..(Len(items[w]) - 1) /\ hand'[w] = items[w][1]
          /\ \A i \in 1..(Len(items[w]) - 1) : items'[w][i] = items[w][i + 1]
      BY <3>1
    <3>3. \A i \in DOMAIN items[w] : hand'[w] = items[w][i] \/
            \E j \in DOMAIN items'[w] : items'[w][j] = items[w][i]
      <4>1. SUFFICES ASSUME NEW i \in DOMAIN items[w], i # 1
                     PROVE  \E j \in DOMAIN items'[w] : items'[w][j] = items[w][i]
        BY <3>2
      <4>2. i - 1 \in DOMAIN items'[w] /\ items'[w][i - 1] = items[w][i]
        BY <3>2, <4>1
      <4>3. QED
        BY <4>2
    <3>4. \A i \in DOMAIN items'[w] : items'[w][i] \in handed[w]
      BY <1>1, <3>2 DEF HandedOver
    <3>5. hand'[w] \in handed[w]
      BY <1>1, <3>2 DEF HandedOver
    <3>6. \A b \in handed[w] :
            \/ w \in applied[b] \/ hand'[w] = b
            \/ \E i \in DOMAIN items'[w] : items'[w][i] = b
      <4>1. ~Holding(w)
        BY <3>1 DEF Holding
      <4>2. QED
        BY <1>1, <3>3, <4>1 DEF HandedOver
    <3>7. QED
      BY <1>1, <2>1, <3>1, <3>4, <3>5, <3>6 DEF HandedOver, Holding
  <2>4. CASE ApplyRouted(w)
    <3> DEFINE n == Len(order[w]) + 1
    <3>1. hand[w] \in Batches /\ hand[w] \in handed[w] /\ workerPc[w] = "apply"
      BY <1>1, <2>4, HandType DEF ApplyRouted
    <3>2. /\ order[w] \in Seq(Batches) /\ order'[w] = Append(order[w], hand[w])
          /\ workerPc'[w] = "arrive" /\ UNCHANGED <<items, hand>>
          /\ applied'[hand[w]] = applied[hand[w]] \cup {w}
          /\ \A b \in Batches \ {hand[w]} : applied'[b] = applied[b]
      BY <1>1, <2>4, <3>1 DEF ApplyRouted, Apply, WorkerGoto, TypeOK
    <3>3. /\ DOMAIN order[w] = 1..Len(order[w]) /\ DOMAIN order'[w] = 1..n
          /\ Len(order[w]) \in Nat /\ order'[w][n] = hand[w]
          /\ \A i \in 1..Len(order[w]) : order'[w][i] = order[w][i]
      BY <3>2
    <3>4. \A b \in handed[w] : \/ w \in applied'[b]
                               \/ \E i \in DOMAIN items'[w] : items'[w][i] = b
      BY <1>1, <3>2 DEF HandedOver
    <3>5. \A i \in DOMAIN order'[w] : order'[w][i] \in handed[w] /\ w \in applied'[order'[w][i]]
      <4>1. \A i \in 1..Len(order[w]) : order[w][i] \in handed[w] /\ w \in applied[order[w][i]]
        BY <1>1, <3>3 DEF HandedOver
      <4>2. \A i \in 1..Len(order[w]) : w \in applied'[order[w][i]]
        BY <1>1, <3>2, <4>1
      <4>3. \A i \in 1..n : i = n \/ i \in 1..Len(order[w])
        BY <3>3
      <4>4. hand[w] \in handed[w] /\ w \in applied'[hand[w]] /\ order'[w][n] = hand[w]
        BY <3>1, <3>2, <3>3
      <4>5. \A i \in 1..Len(order[w]) : order'[w][i] \in handed[w] /\ w \in applied'[order'[w][i]]
        BY <3>3, <4>1, <4>2
      <4>6. QED
        BY <3>3, <4>3, <4>4, <4>5
    <3>6. \A b \in Batches : w \in applied'[b] => \E i \in DOMAIN order'[w] : order'[w][i] = b
      <4>1. n \in DOMAIN order'[w] /\ order'[w][n] = hand[w]
        BY <3>3
      <4>2. \A b \in Batches : w \in applied[b] => \E i \in 1..Len(order[w]) : order[w][i] = b
        BY <1>1, <3>3 DEF HandedOver
      <4>3. \A b \in Batches : w \in applied[b] => \E i \in DOMAIN order'[w] : order'[w][i] = b
        BY <3>3, <4>2
      <4>4. QED
        BY <3>2, <4>1, <4>3
    <3>7. QED
      BY <1>1, <2>1, <3>1, <3>2, <3>4, <3>5, <3>6 DEF HandedOver, Holding
  <2>5. CASE ArriveRouted(w)
    <3>1. /\ workerPc[w] = "arrive" /\ workerPc'[w] = "pop" /\ UNCHANGED <<items, order, applied>>
      BY <1>1, <2>5 DEF ArriveRouted, WorkerGoto, TypeOK
    <3>2. QED
      BY <1>1, <2>1, <3>1 DEF HandedOver, Holding
  <2>6. QED
    BY <2>2, <2>3, <2>4, <2>5 DEF WorkerStep
<1>5. QED
  BY <1>2, <1>3, <1>4 DEF HandedInv

\* No part is lost or doubled between submit_batch and the worker.
LEMMA HandedStep ==
  ASSUME IInv, [Next]_vars
  PROVE  HandedInv'
<1> USE DEF queueVars, clientVars, latchVars, workerVars, lifeVars, historyVars
<1>1. CASE LifeStep \/ Wakeup \/ UNCHANGED vars
  <2>1. /\ UNCHANGED <<pc, count, todo, parts, applied, items, hand, order, handed>>
        /\ UNCHANGED workerPc \/ Start
    BY <1>1 DEF LifeStep, StopStep, Start, MarkStarted, Stop, CloseNext, Close, Join, Persist,
       MarkStopped, Wakeup, SpuriousWakeup, vars
  <2>2. Start => \A w \in Workers : workerPc[w] = "off" /\ workerPc'[w] = "pop"
    BY DEF Start, IInv, LifeInv
  <2>3. \A w \in Workers : \A b \in handed[w] : w \in parts'[b]
    BY <2>1 DEF IInv, HandedInv, HandedOver
  <2>4. ASSUME NEW w \in Workers PROVE HandedOver(w)'
    <3>1. TypeOK /\ HandedOver(w)
      BY DEF IInv, HandedInv
    <3>2. QED
      BY <2>1, <2>2, <2>3, <3>1, HandedOverFrame
  <2>5. \A x \in Producers : HandedOnce(x)'
    BY <2>1 DEF IInv, HandedInv, HandedOnce, Current, Route
  <2>6. QED
    BY <2>4, <2>5 DEF HandedInv
<1>2. QED
  BY <1>1, HandedClient, HandedWorker DEF Next, LifeStep, Finished

(***************************************************************************)
(* The order of application.                                               *)
(***************************************************************************)
\* A part about to be pushed is not in the queue's past, and follows every part
\* of its submitter that is.
LEMMA PushIsNext ==
  ASSUME IInv, NEW c \in Producers, pc[c] = "push", NEW w, w = Route(c)
  PROVE  Current(c) \notin handed[w] /\ \A b \in handed[w] : Before(b, Current(c))
<1>1. TypeOK /\ ClientInv /\ FreshInv /\ HandedInv /\ w \in Workers /\ w \in todo[c]
  BY RouteType DEF IInv
<1>2. Current(c) \notin handed[w]
  BY <1>1 DEF HandedInv, HandedOnce
<1>3. ASSUME NEW b \in handed[w], b[1] = c PROVE b[2] < count[c]
  <2>1. b \in Batches /\ b[2] \in 1..MaxBatches /\ b = <<c, b[2]>>
    BY <1>1, <1>3, BatchType DEF TypeOK
  <2>2. b[2] # count[c]
    BY <1>2, <1>3, <2>1 DEF Current
  <2>3. b[2] \notin (count[c] + 1)..MaxBatches
    BY <1>1, <1>3, <2>1 DEF FreshInv
  <2>4. QED
    BY <1>1, <2>1, <2>2, <2>3, PipelineAssumption DEF TypeOK
<1>4. QED
  BY <1>2, <1>3 DEF Before, Current

\* Pushes, pops and applications keep each worker's batches in order.
LEMMA OrderStep ==
  ASSUME IInv, [Next]_vars
  PROVE  OrderInv'
<1> USE DEF queueVars, clientVars, latchVars, workerVars, lifeVars, historyVars
<1>1. /\ TypeOK /\ OrderInv /\ HandedInv /\ QueueTypeOK(Batches)
      /\ \A w \in Workers : InOrder(w) /\ HandedOver(w)
  BY DEF IInv, TypeOK, HandedInv, OrderInv
<1>2. ASSUME NEW w \in Workers, items'[w] = items[w], order'[w] = order[w], hand'[w] = hand[w],
             Holding(w)' => Holding(w)
      PROVE  InOrder(w)'
  BY <1>1, <1>2 DEF InOrder
<1>3. ASSUME NEW c \in Producers, Push(c)
      PROVE  OrderInv'
  <2> SUFFICES ASSUME NEW w \in Workers PROVE InOrder(w)'
    BY DEF OrderInv
  <2>1. UNCHANGED <<workerPc, order, hand>> /\ pc[c] = "push" /\ (Holding(w)' <=> Holding(w))
    BY <1>3 DEF Push, Awake, Holding
  <2>2. CASE w # Route(c)
    <3>1. items'[w] = items[w]
      BY <1>1, <1>3, <2>2 DEF Push, Enqueue, QueueTypeOK
    <3>2. QED
      BY <1>2, <2>1, <3>1
  <2>3. CASE w = Route(c)
    <3> DEFINE b == Current(c)
               n == Len(items[w]) + 1
    <3>1. b \in Batches /\ \A x \in handed[w] : Before(x, b)
      BY <1>1, <2>1, <2>3, PushIsNext, BatchType DEF IInv
    <3>2. items[w] \in Seq(Batches) /\ items'[w] = Append(items[w], b)
      BY <1>1, <1>3, <2>3 DEF Push, Enqueue, QueueTypeOK
    <3>3. /\ DOMAIN items[w] = 1..Len(items[w]) /\ DOMAIN items'[w] = 1..n
          /\ Len(items[w]) \in Nat /\ items'[w][n] = b
          /\ \A i \in 1..Len(items[w]) : items'[w][i] = items[w][i]
      BY <3>1, <3>2
    <3>4. /\ \A i \in 1..Len(items[w]) : Before(items[w][i], b)
          /\ \A i \in DOMAIN order[w] : Before(order[w][i], b)
          /\ Holding(w) => Before(hand[w], b)
      BY <1>1, <3>1, <3>3 DEF HandedOver, Holding
    <3>5. \A i \in 1..n : i = n \/ i \in 1..Len(items[w])
      BY <3>3
    <3>6. \A i, j \in DOMAIN items'[w] : i < j => Before(items'[w][i], items'[w][j])
      <4>1. SUFFICES ASSUME NEW i \in 1..n, NEW j \in 1..n, i < j
                     PROVE  Before(items'[w][i], items'[w][j])
        BY <3>3
      <4>2. i \in 1..Len(items[w]) /\ items'[w][i] = items[w][i]
        BY <3>3, <4>1
      <4>3. CASE j = n
        BY <3>3, <3>4, <4>2, <4>3
      <4>4. CASE j \in 1..Len(items[w])
        <5>1. Before(items[w][i], items[w][j]) /\ items'[w][j] = items[w][j]
          BY <1>1, <3>3, <4>1, <4>2, <4>4 DEF InOrder
        <5>2. QED
          BY <4>2, <5>1
      <4>5. QED
        BY <3>5, <4>3, <4>4
    <3>7. \A i \in DOMAIN order[w], j \in DOMAIN items'[w] : Before(order[w][i], items'[w][j])
      <4>1. \A i \in DOMAIN order[w], j \in 1..Len(items[w]) : Before(order[w][i], items[w][j])
        BY <1>1, <3>3 DEF InOrder
      <4>2. QED
        BY <3>3, <3>4, <3>5, <4>1
    <3>8. Holding(w) => \A i \in DOMAIN items'[w] : Before(hand[w], items'[w][i])
      <4>1. Holding(w) => \A i \in 1..Len(items[w]) : Before(hand[w], items[w][i])
        BY <1>1, <3>3 DEF InOrder
      <4>2. QED
        BY <3>3, <3>4, <3>5, <4>1
    <3>9. QED
      BY <1>1, <2>1, <3>6, <3>7, <3>8 DEF InOrder
  <2>4. QED
    BY <2>2, <2>3
<1>4. ASSUME NEW c \in Producers, ClientStep(c) \/ \E P \in Shapes : Call(c, P), ~Push(c)
      PROVE  OrderInv'
  <2>1. UNCHANGED <<workerPc, order, hand, items>>
    BY <1>4 DEF ClientStep, CheckStarted, SubmitNotRunning, PushRefused, PushClosed, Refused,
       Split, Call, ApplyInline, ArriveInline, SubmitNext, PushBlocks, WaitFull, PushNotify,
       NotifyEmpty, Acknowledge, GoOn
  <2>2. QED
    BY <1>2, <2>1 DEF OrderInv, Holding
<1>5. ASSUME NEW w \in Workers, WorkerStep(w)
      PROVE  OrderInv'
  <2>1. ASSUME NEW x \in Workers \ {w} PROVE InOrder(x)'
    BY <1>1, <1>2, <1>5, WorkerLocal DEF Holding
  <2>2. InOrder(w)'
    <3>1. CASE PopBlocks(w) \/ PopNotify(w) \/ Exit(w)
      <4>1. UNCHANGED <<items, hand, order>> /\ (Holding(w)' => Holding(w))
        BY <1>1, <3>1 DEF PopBlocks, PopNotify, Exit, WaitEmpty, NotifyFull, PopDrained, Popping,
           WorkerGoto, Holding, TypeOK
      <4>2. QED
        BY <1>2, <4>1
    <3>2. CASE ArriveRouted(w)
      <4>1. UNCHANGED <<items, order>> /\ ~Holding(w)'
        BY <1>1, <3>2 DEF ArriveRouted, WorkerGoto, Holding, TypeOK
      <4>2. QED
        BY <1>1, <4>1 DEF InOrder
    <3>3. CASE Pop(w)
      <4>1. /\ items[w] \in Seq(Batches) /\ items[w] # <<>> /\ items'[w] = Tail(items[w])
            /\ hand'[w] = Head(items[w]) /\ UNCHANGED order
        BY <1>1, <3>3 DEF Pop, Dequeue, TypeOK, QueueTypeOK
      <4>2. /\ Len(items[w]) \in Nat \ {0} /\ DOMAIN items[w] = 1..Len(items[w])
            /\ DOMAIN items'[w] = 1..(Len(items[w]) - 1) /\ hand'[w] = items[w][1]
            /\ \A i \in 1..(Len(items[w]) - 1) : items'[w][i] = items[w][i + 1]
        BY <4>1
      <4>3. \A i \in DOMAIN items'[w] : /\ 1 \in DOMAIN items[w] /\ i + 1 \in DOMAIN items[w]
                                        /\ 1 < i + 1 /\ items'[w][i] = items[w][i + 1]
        BY <4>2
      <4>4. \A i, j \in DOMAIN items'[w] : i < j => i + 1 < j + 1
        BY <4>2
      <4>5. \A i, j \in DOMAIN items'[w] : i < j => Before(items'[w][i], items'[w][j])
        BY <1>1, <4>3, <4>4 DEF InOrder
      <4>6. \A i \in DOMAIN order[w], j \in DOMAIN items'[w] : Before(order[w][i], items'[w][j])
        BY <1>1, <4>3 DEF InOrder
      <4>7. \A i \in DOMAIN order[w] : Before(order[w][i], hand'[w])
        BY <1>1, <4>2 DEF InOrder
      <4>8. \A i \in DOMAIN items'[w] : Before(hand'[w], items'[w][i])
        BY <1>1, <4>2, <4>3 DEF InOrder
      <4>9. QED
        BY <1>1, <4>1, <4>5, <4>6, <4>7, <4>8 DEF InOrder
    <3>4. CASE ApplyRouted(w)
      <4> DEFINE n == Len(order[w]) + 1
      <4>1. hand[w] \in Batches /\ Holding(w)
        BY <1>1, <3>4, HandType DEF ApplyRouted, Holding
      <4>2. /\ order[w] \in Seq(Batches) /\ order'[w] = Append(order[w], hand[w])
            /\ UNCHANGED <<items, hand>> /\ ~Holding(w)'
        BY <1>1, <3>4 DEF ApplyRouted, WorkerGoto, TypeOK, Holding
      <4>3. /\ DOMAIN order[w] = 1..Len(order[w]) /\ DOMAIN order'[w] = 1..n
            /\ Len(order[w]) \in Nat /\ order'[w][n] = hand[w]
            /\ \A i \in 1..Len(order[w]) : order'[w][i] = order[w][i]
        BY <4>1, <4>2
      <4>4. \A i \in 1..n : i = n \/ i \in 1..Len(order[w])
        BY <4>3
      <4>5. \A i, j \in DOMAIN order'[w] : i < j => Before(order'[w][i], order'[w][j])
        <5>1. SUFFICES ASSUME NEW i \in 1..n, NEW j \in 1..n, i < j
                       PROVE  Before(order'[w][i], order'[w][j])
          BY <4>3
        <5>2. i \in 1..Len(order[w]) /\ order'[w][i] = order[w][i]
          BY <4>3, <5>1
        <5>3. CASE j = n
          BY <1>1, <4>1, <4>3, <5>2, <5>3 DEF InOrder
        <5>4. CASE j \in 1..Len(order[w])
          <6>1. Before(order[w][i], order[w][j]) /\ order'[w][j] = order[w][j]
            BY <1>1, <4>3, <5>1, <5>2, <5>4 DEF InOrder
          <6>2. QED
            BY <5>2, <6>1
        <5>5. QED
          BY <4>4, <5>3, <5>4
      <4>6. \A i \in DOMAIN order'[w], j \in DOMAIN items[w] : Before(order'[w][i], items[w][j])
        <5>1. /\ \A i \in 1..Len(order[w]), j \in DOMAIN items[w] : Before(order[w][i], items[w][j])
              /\ \A j \in DOMAIN items[w] : Before(hand[w], items[w][j])
          BY <1>1, <4>1, <4>3 DEF InOrder
        <5>2. QED
          BY <4>3, <4>4, <5>1
      <4>7. QED
        BY <1>1, <4>2, <4>5, <4>6 DEF InOrder
    <3>5. QED
      BY <1>5, <3>1, <3>2, <3>3, <3>4 DEF WorkerStep
  <2>3. QED
    BY <2>1, <2>2 DEF OrderInv
<1>6. CASE LifeStep \/ Wakeup \/ UNCHANGED vars
  <2>1. UNCHANGED <<items, hand, order>> /\ (UNCHANGED workerPc \/ Start)
    BY <1>6 DEF LifeStep, StopStep, Start, MarkStarted, Stop, CloseNext, Close, Join, Persist,
       MarkStopped, Wakeup, SpuriousWakeup, vars
  <2>2. Start => \A w \in Workers : ~Holding(w)'
    BY DEF Start, Holding
  <2>3. \A w \in Workers : Holding(w)' => Holding(w)
    BY <2>1, <2>2 DEF Holding
  <2>4. QED
    BY <1>2, <2>1, <2>3 DEF OrderInv
<1>7. QED
  BY <1>3, <1>4, <1>5, <1>6 DEF Next, LifeStep, Finished, ClientStep

(***************************************************************************)
(* The shared countdown.                                                   *)
(***************************************************************************)
\* A step that leaves the outstanding parts of a batch as they were.
LEMMA CountFrame ==
  ASSUME NEW b \in Batches, CountOf(b), parts'[b] = parts[b], applied'[b] \subseteq parts[b],
         remaining'[b] = remaining[b], b \in signalled' <=> b \in signalled,
         answer'[b] = "acked" => answer[b] = "acked" \/ b \in signalled,
         Outstanding(b)' = Outstanding(b), Counting(b)' => Counting(b)
  PROVE  CountOf(b)'
BY DEF CountOf

\* What is outstanding depends on the parts applied and on who is arriving.
LEMMA OutstandingFrame ==
  ASSUME NEW b \in Batches, parts'[b] = parts[b],
         \A p \in parts[b] : (p \notin applied'[b] \/ Arriving(b, p)') <=>
                             (p \notin applied[b] \/ Arriving(b, p))
  PROVE  Outstanding(b)' = Outstanding(b)
BY DEF Outstanding

\* The arrival of an outstanding part.
LEMMA CountArrive ==
  ASSUME IInv, NEW b \in Batches, NEW p, Counting(b), p \in Outstanding(b), Arrive(b),
         UNCHANGED <<parts, applied, answer>>, Outstanding(b)' = Outstanding(b) \ {p}
  PROVE  CountOf(b)'
<1>1. /\ remaining[b] \in 1..Cardinality(Parts)
      /\ Cardinality(Outstanding(b) \ {p}) = remaining[b] - 1
      /\ remaining[b] = 1 <=> Outstanding(b) \ {p} = {}
  BY Countdown DEF IInv
<1>2. CountOf(b)
  BY DEF IInv, CountInv
<1>3. remaining'[b] = remaining[b] - 1
  BY DEF Arrive, IInv, TypeOK
<1>4. remaining'[b] = Cardinality(Outstanding(b)')
  BY <1>1, <1>3
<1>5. b \notin signalled
  BY <1>2 DEF CountOf
<1>6. b \in signalled' => Outstanding(b)' = {}
  BY <1>1, <1>5 DEF Arrive
<1>7. QED
  BY <1>2, <1>4, <1>5, <1>6 DEF CountOf

\* The countdowns while submitters move.
LEMMA CountClient ==
  ASSUME IInv, NEW c \in Producers, ClientStep(c) \/ \E P \in Shapes : Call(c, P)
  PROVE  CountInv'
<1> USE DEF queueVars, clientVars, latchVars, workerVars, lifeVars, historyVars
<1>1. /\ TypeOK /\ ClientInv /\ FreshInv /\ CountInv /\ ClientInvOf(c)
      /\ count[c] \in 0..MaxBatches /\ MaxBatches \in Nat
  BY PipelineAssumption DEF IInv, TypeOK, ClientInv
<1>2. UNCHANGED <<workerPc, hand>>
  BY DEF ClientStep, CheckStarted, SubmitNotRunning, PushRefused, Refused, Split, Call,
     ApplyInline, ArriveInline, SubmitNext, PushBlocks, Push, PushNotify, Acknowledge, GoOn
<1>3. ASSUME NEW b \in Batches, b # <<c, count'[c]>>
      PROVE  CountOf(b)'
  <2>1. CountOf(b) /\ b[1] \in Producers /\ b = <<b[1], b[2]>>
    BY <1>1, BatchType DEF CountInv
  <2>2. b[1] # c =>
          pc'[b[1]] = pc[b[1]] /\ count'[b[1]] = count[b[1]] /\ Current(b[1])' = Current(b[1])
    BY <2>1, ClientLocal DEF Current
  <2>3. b[1] = c => b # Current(c)'
    BY <1>3 DEF Current
  <2>4. b[1] = c => b # Current(c) \/ pc[c] = "idle"
    <3>1. CASE ClientStep(c)
      <4>1. count' = count
        BY <3>1 DEF ClientStep, CheckStarted, SubmitNotRunning, PushRefused, Refused, Split,
           ApplyInline, ArriveInline, SubmitNext, PushBlocks, Push, PushNotify, Acknowledge, GoOn
      <4>2. QED
        BY <1>3, <4>1 DEF Current
    <3>2. CASE \E P \in Shapes : Call(c, P)
      BY <3>2 DEF Call
    <3>3. QED
      BY <3>1, <3>2
  <2>5. \A p : Arriving(b, p)' <=> Arriving(b, p)
    BY <1>2, <2>2, <2>3, <2>4 DEF Arriving
  <2>6. Counting(b)' => Counting(b)
    BY <1>3, <2>2, <2>3, ClientBatch DEF Counting
  <2>7. Outstanding(b)' = Outstanding(b)
    BY <1>3, <2>5, ClientBatch, OutstandingFrame
  <2>8. QED
    BY <1>3, <2>1, <2>6, <2>7, ClientBatch, CountFrame DEF CountOf
<1>4. ASSUME NEW b \in Batches, b = <<c, count'[c]>>
      PROVE  CountOf(b)'
  <2>1. CASE \E P \in Shapes : Call(c, P)
    <3>1. /\ count'[c] = count[c] + 1 /\ count[c] < MaxBatches /\ pc'[c] = "check"
          /\ UNCHANGED <<applied, signalled, handed>> /\ answer'[b] = "pending"
      BY <1>1, <1>4, <2>1 DEF Call, Goto, Answer, TypeOK
    <3>2. applied[b] = {} /\ b \notin signalled /\ \A w \in Workers : b \notin handed[w]
      BY <1>1, <1>4, <3>1 DEF FreshInv
    <3>3. ~Counting(b)'
      BY <1>4, <3>1, <3>2 DEF Counting
    <3>4. QED
      BY <3>1, <3>2, <3>3 DEF CountOf
  <2>2. CASE ClientStep(c)
    <3>1. count' = count /\ b = Current(c) /\ Current(c)' = b /\ b[1] = c /\ CountOf(b)
          /\ parts' = parts /\ Current(c) = b
      BY <1>1, <1>4, <2>2 DEF ClientStep, CheckStarted, SubmitNotRunning, PushRefused, Refused,
         Split, ApplyInline, ArriveInline, SubmitNext, PushBlocks, Push, PushNotify, Acknowledge,
         GoOn, Current, CountInv
    <3>2. \A p : p # Inline => (Arriving(b, p)' <=> Arriving(b, p))
      BY <1>2 DEF Arriving
    <3>3. /\ Arriving(b, Inline) <=> pc[c] = "arrive"
          /\ Arriving(b, Inline)' <=> pc'[c] = "arrive"
      BY <3>1, QueueAssumption DEF Arriving, Inline
    <3>4. CASE Split(c)
      <4>1. /\ applied[b] = {} /\ pc[c] = "check" /\ UNCHANGED <<applied, answer>>
            /\ remaining'[b] = Cardinality(parts[b])
            /\ signalled' = IF parts[b] = {} THEN signalled \cup {b} ELSE signalled
        BY <1>1, <3>1, <3>4 DEF Split, TypeOK, ClientInvOf
      <4>2. Outstanding(b) = parts[b] /\ Outstanding(b)' = parts[b]
        BY <3>1, <4>1 DEF Outstanding
      <4>3. QED
        BY <3>1, <4>1, <4>2 DEF CountOf
    <3>5. CASE ApplyInline(c)
      <4>1. /\ pc[c] = "inline" /\ pc'[c] = "arrive" /\ UNCHANGED <<answer, remaining, signalled>>
            /\ applied'[b] = applied[b] \cup {Inline} /\ Inline \in parts[b] \ applied[b]
        BY <1>1, <3>1, <3>5 DEF ApplyInline, Apply, Goto, TypeOK, ClientInvOf
      <4>2. Outstanding(b)' = Outstanding(b)
        BY <3>1, <3>2, <3>3, <4>1, OutstandingFrame
      <4>3. Counting(b)
        BY <3>1, <4>1 DEF Counting
      <4>4. QED
        BY <3>1, <4>1, <4>2, <4>3, CountFrame DEF CountOf
    <3>6. CASE ArriveInline(c)
      <4>1. /\ pc[c] = "arrive" /\ pc'[c] = "submit" /\ UNCHANGED <<answer, applied>>
            /\ Arrive(b) /\ Inline \in parts[b] \cap applied[b]
        BY <1>1, <3>1, <3>6 DEF ArriveInline, Goto, TypeOK, ClientInvOf
      <4>2. Outstanding(b)' = Outstanding(b) \ {Inline}
        BY <3>1, <3>2, <3>3, <4>1 DEF Outstanding
      <4>3. Counting(b) /\ Inline \in Outstanding(b)
        BY <3>1, <4>1, ArriverCounted
      <4>4. QED
        BY <3>1, <4>1, <4>2, <4>3, CountArrive
    <3>7. CASE CheckStarted(c) \/ SubmitNotRunning(c) \/ PushRefused(c) \/ Acknowledge(c) \/ GoOn(c)
      <4>1. /\ pc[c] # "arrive" /\ pc'[c] = "idle" /\ UNCHANGED <<applied, remaining, signalled, handed>>
            /\ answer'[b] = "acked" => answer[b] = "acked" \/ b \in signalled
        BY <1>1, <3>1, <3>7 DEF CheckStarted, SubmitNotRunning, PushRefused, Refused, Acknowledge,
           GoOn, Awake, Answer, Goto, TypeOK
      <4>2. Outstanding(b)' = Outstanding(b)
        BY <3>1, <3>2, <3>3, <4>1, OutstandingFrame
      <4>3. Counting(b)' => Counting(b)
        BY <3>1, <4>1 DEF Counting
      <4>4. QED
        BY <3>1, <4>1, <4>2, <4>3, CountFrame DEF CountOf
    <3>8. CASE SubmitNext(c) \/ PushBlocks(c) \/ Push(c) \/ PushNotify(c)
      <4>1. /\ pc[c] \in {"submit", "push", "notify"} /\ pc'[c] # "arrive"
            /\ UNCHANGED <<applied, remaining, signalled, answer>>
        BY <1>1, <3>1, <3>8 DEF SubmitNext, PushBlocks, Push, PushNotify, Awake, Goto, TypeOK
      <4>2. Outstanding(b)' = Outstanding(b)
        BY <3>1, <3>2, <3>3, <4>1, OutstandingFrame
      <4>3. Counting(b)
        BY <3>1, <4>1 DEF Counting
      <4>4. QED
        BY <3>1, <4>1, <4>2, <4>3, CountFrame DEF CountOf
    <3>9. QED
      BY <2>2, <3>4, <3>5, <3>6, <3>7, <3>8 DEF ClientStep
  <2>3. QED
    BY <2>1, <2>2
<1>5. QED
  BY <1>3, <1>4 DEF CountInv

\* A worker has not applied the batch it is about to apply.
LEMMA NotAppliedYet ==
  ASSUME IInv, NEW w \in Workers, workerPc[w] = "apply"
  PROVE  w \notin applied[hand[w]]
<1>1. TypeOK /\ HandedInv /\ HandedOver(w) /\ InOrder(w) /\ Holding(w)
  BY DEF IInv, HandedInv, OrderInv, Holding
<1>2. hand[w] \in Batches
  BY <1>1, HandType
<1>3. hand[w][2] \in 1..MaxBatches
  BY <1>1, <1>2 DEF Batches
<1>4. ~Before(hand[w], hand[w])
  BY <1>3, PipelineAssumption DEF Before
<1>5. \A i \in DOMAIN order[w] : order[w][i] # hand[w]
  BY <1>1, <1>4 DEF InOrder
<1>6. QED
  BY <1>1, <1>2, <1>5 DEF HandedOver

\* The countdowns while workers apply and arrive.
LEMMA CountWorker ==
  ASSUME IInv, NEW w \in Workers, WorkerStep(w)
  PROVE  CountInv'
<1> USE DEF queueVars, clientVars, latchVars, workerVars, lifeVars, historyVars
<1>1. /\ TypeOK /\ HandedInv /\ CountInv /\ w # Inline
      /\ \A x \in Workers : x # Inline
  BY QueueAssumption DEF IInv, Inline
<1>2. /\ UNCHANGED <<pc, count, parts, answer, handed>>
      /\ \A x \in Workers \ {w} : workerPc'[x] = workerPc[x] /\ hand'[x] = hand[x]
  BY <1>1, WorkerLocal
<1> SUFFICES ASSUME NEW b \in Batches PROVE CountOf(b)'
  BY DEF CountInv
<1>3. CountOf(b) /\ (Counting(b)' <=> Counting(b))
  BY <1>1, <1>2 DEF CountInv, Counting, Current
<1>4. \A p : p # w => (Arriving(b, p)' <=> Arriving(b, p))
  BY <1>2 DEF Arriving, Current
<1>5. /\ Arriving(b, w) <=> workerPc[w] = "arrive" /\ hand[w] = b
      /\ Arriving(b, w)' <=> workerPc'[w] = "arrive" /\ hand'[w] = b
  BY <1>1 DEF Arriving
<1>6. CASE PopBlocks(w) \/ Pop(w) \/ PopNotify(w) \/ Exit(w)
  <2>1. workerPc[w] # "arrive" /\ workerPc'[w] # "arrive" /\ UNCHANGED <<applied, remaining, signalled>>
    BY <1>1, <1>6 DEF PopBlocks, Pop, PopNotify, Exit, Popping, WorkerGoto, TypeOK
  <2>2. Outstanding(b)' = Outstanding(b)
    BY <1>2, <1>4, <1>5, <2>1, OutstandingFrame
  <2>3. QED
    BY <1>2, <1>3, <2>1, <2>2, CountFrame DEF CountOf
<1>7. CASE ApplyRouted(w)
  <2>1. /\ hand[w] \in Batches /\ w \in parts[hand[w]] \ applied[hand[w]]
        /\ workerPc[w] = "apply" /\ workerPc'[w] = "arrive"
        /\ UNCHANGED <<remaining, signalled, hand>>
        /\ applied' = [applied EXCEPT ![hand[w]] = @ \cup {w}]
    BY <1>1, <1>7, HandType, NotAppliedYet DEF ApplyRouted, Apply, WorkerGoto, TypeOK
  <2>2. applied'[b] = IF b = hand[w] THEN applied[b] \cup {w} ELSE applied[b]
    BY <1>1, <2>1 DEF TypeOK
  <2>3. Outstanding(b)' = Outstanding(b)
    BY <1>2, <1>4, <1>5, <2>1, <2>2, OutstandingFrame
  <2>4. applied'[b] \subseteq parts[b]
    BY <1>3, <2>1, <2>2 DEF CountOf
  <2>5. QED
    BY <1>2, <1>3, <2>1, <2>3, <2>4, CountFrame
<1>8. CASE ArriveRouted(w)
  <2>1. /\ hand[w] \in Batches /\ workerPc[w] = "arrive" /\ workerPc'[w] = "pop"
        /\ Counting(hand[w]) /\ w \in Outstanding(hand[w]) /\ w \in applied[hand[w]]
        /\ Arrive(hand[w]) /\ applied' = applied
    BY <1>1, <1>8, HandType, ArriverCounted
    DEF ArriveRouted, WorkerGoto, TypeOK, HandedInv, HandedOver
  <2>2. CASE b = hand[w]
    <3>1. Outstanding(b)' = Outstanding(b) \ {w}
      BY <1>2, <1>4, <1>5, <2>1, <2>2 DEF Outstanding
    <3>2. Counting(b) /\ w \in Outstanding(b) /\ Arrive(b)
      BY <2>1, <2>2
    <3>3. QED
      BY <1>2, <2>1, <3>1, <3>2, CountArrive
  <2>3. CASE b # hand[w]
    <3>1. Outstanding(b)' = Outstanding(b)
      BY <1>2, <1>4, <1>5, <2>1, <2>3, OutstandingFrame
    <3>2. remaining'[b] = remaining[b] /\ (b \in signalled' <=> b \in signalled)
      BY <1>1, <2>1, <2>3 DEF Arrive, TypeOK
    <3>3. QED
      BY <1>2, <1>3, <2>1, <3>1, <3>2, CountFrame DEF CountOf
  <2>4. QED
    BY <2>2, <2>3
<1>9. QED
  BY <1>6, <1>7, <1>8 DEF WorkerStep

\* The countdown of every batch stays exact.
LEMMA CountStep ==
  ASSUME IInv, [Next]_vars
  PROVE  CountInv'
<1> USE DEF queueVars, clientVars, latchVars, workerVars, lifeVars, historyVars
<1>1. CASE LifeStep \/ Wakeup \/ UNCHANGED vars
  <2>1. /\ UNCHANGED <<pc, count, parts, applied, answer, hand, handed, remaining, signalled>>
        /\ UNCHANGED workerPc \/ Start
    BY <1>1 DEF LifeStep, StopStep, Start, MarkStarted, Stop, CloseNext, Join, Persist,
       MarkStopped, Wakeup, vars
  <2>2. Start => \A w \in Workers : workerPc[w] = "off" /\ workerPc'[w] = "pop"
    BY DEF Start, IInv, LifeInv
  <2>3. \A w \in Workers : workerPc'[w] = "arrive" <=> workerPc[w] = "arrive"
    BY <2>1, <2>2
  <2>4. ASSUME NEW b \in Batches PROVE CountOf(b)'
    <3>1. CountOf(b) /\ (Counting(b)' <=> Counting(b))
      BY <2>1 DEF IInv, CountInv, Counting, Current
    <3>2. \A p : Arriving(b, p)' <=> Arriving(b, p)
      BY <2>1, <2>3 DEF Arriving, Current
    <3>3. Outstanding(b)' = Outstanding(b)
      BY <2>1, <3>2, OutstandingFrame
    <3>4. QED
      BY <2>1, <3>1, <3>3, CountFrame DEF CountOf
  <2>5. QED
    BY <2>4 DEF CountInv
<1>2. QED
  BY <1>1, CountClient, CountWorker DEF Next, LifeStep, Finished

(***************************************************************************)
(* The invariant and what follows from it.                                 *)
(***************************************************************************)
\* The system starts with no batch, empty open queues and no worker.
LEMMA InitInv ==
  ASSUME Init
  PROVE  IInv
<1>1. TypeOK
  <2>1. 0 \in 0..Cardinality(Parts) /\ 0 \in 0..MaxBatches /\ 0 \in 0..MaxStarts
    <3>1. IsFiniteSet(Parts)
      BY QueueAssumption, FS_AddElement DEF Parts
    <3>2. Cardinality(Parts) \in Nat
      BY <3>1, FS_CardinalityType
    <3>3. QED
      BY <3>2, PipelineAssumption
  <2>2. QueueTypeOK(Batches)
    BY DEF Init, QueueInit, QueueTypeOK
  <2>3. QED
    BY <2>1, <2>2 DEF Init, TypeOK, ClientPcs, WorkerPcs, Lives
<1>2. LifeInv
  BY DEF Init, QueueInit, LifeInv
<1>3. ClientInv
  BY DEF Init, ClientInv, ClientInvOf
<1>4. FreshInv
  <2> SUFFICES ASSUME NEW c \in Producers, NEW k \in (count[c] + 1)..MaxBatches
               PROVE  <<c, k>> \in Batches
    BY DEF Init, FreshInv
  <2>1. QED
    BY PipelineAssumption DEF Init, Batches
<1>5. HandedInv
  BY DEF Init, QueueInit, HandedInv, HandedOver, HandedOnce
<1>6. OrderInv
  BY DEF Init, QueueInit, OrderInv, InOrder, Holding
<1>7. CountInv
  <2> SUFFICES ASSUME NEW b \in Batches PROVE CountOf(b)
    BY DEF CountInv
  <2>1. Outstanding(b) = {} /\ pc[b[1]] = "idle"
    BY <1>1, BatchType DEF Init, Outstanding, Batches
  <2>2. QED
    BY <2>1 DEF Init, CountOf, Counting
<1>8. QED
  BY <1>1, <1>2, <1>3, <1>4, <1>5, <1>6, <1>7 DEF IInv

\* Every reachable state satisfies the inductive invariant.
LEMMA PipelineInvariant == Spec => []IInv
<1>1. IInv /\ [Next]_vars => IInv'
  <2> SUFFICES ASSUME IInv, [Next]_vars PROVE IInv'
    OBVIOUS
  <2>1. TypeOK'
    BY ClientType, WorkerType, LifeType DEF Next, LifeStep, Finished
  <2>2. LifeInv'
    BY ClientLife, WorkerLife, LifeLife DEF Next, LifeStep, Finished
  <2>3. QED
    BY <2>1, <2>2, ClientInvStep, FreshStep, HandedStep, OrderStep, CountStep DEF IInv
<1>2. QED
  BY <1>1, InitInv, PTL DEF Spec

\* Types, for any number of threads: the shared countdown in particular never
\* goes below zero, because each decrement is that of a part it still counts.
THEOREM PipelineTypes == Spec => []TypeOK
<1>1. IInv => TypeOK
  BY DEF IInv
<1>2. QED
  BY <1>1, PipelineInvariant, PTL

\* A worker applies the batches of each submitter once each and in the order in
\* which submit_batch was called, whatever blocked, woke up or was shut down.
THEOREM BatchesAppliedInOrder == Spec => []AppliedInOrder
<1>1. IInv => AppliedInOrder
  BY DEF IInv, OrderInv, InOrder, Before, AppliedInOrder
<1>2. QED
  BY <1>1, PipelineInvariant, PTL

\* When stop() persists, every worker has left its loop through a closed and
\* drained queue, so the snapshot holds each part that a queue ever accepted.
THEOREM StopPersistsAll == Spec => []StopPersistsHandedOver
<1> DEFINE Inv == StopPersistsHandedOver
<1>1. Init => Inv
  BY DEF Init, StopPersistsHandedOver
<1>2. ASSUME IInv, Inv, [Next]_vars PROVE Inv'
  <2> USE DEF queueVars, clientVars, latchVars, workerVars, lifeVars, historyVars
  <2>1. CASE Persist
    <3>1. \A w \in Workers : workerPc[w] = "off" /\ items[w] = <<>> /\ ~Holding(w)
      BY <1>2, <2>1 DEF Persist, IInv, LifeInv, Holding
    <3>2. \A w \in Workers : \A b \in handed[w] : w \in applied[b]
      BY <1>2, <3>1 DEF IInv, HandedInv, HandedOver
    <3>3. QED
      BY <2>1, <3>2 DEF Persist, StopPersistsHandedOver
  <2>2. CASE ~Persist /\ life' = "persisted"
    <3>1. life = "persisted" /\ snapshot' = snapshot
      <4>1. CASE LifeStep \/ Wakeup \/ UNCHANGED vars
        BY <2>2, <4>1 DEF LifeStep, StopStep, Start, MarkStarted, Stop, CloseNext, Join,
           MarkStopped, Wakeup, vars
      <4>2. ASSUME NEW c \in Producers, ClientStep(c) \/ \E P \in Shapes : Call(c, P)
            PROVE  UNCHANGED <<life, snapshot>>
        BY <4>2 DEF ClientStep, CheckStarted, SubmitNotRunning, PushRefused, Refused, Split, Call,
           ApplyInline, ArriveInline, SubmitNext, PushBlocks, Push, PushNotify, Acknowledge, GoOn
      <4>3. ASSUME NEW w \in Workers, WorkerStep(w)
            PROVE  UNCHANGED <<life, snapshot>>
        BY <1>2, <4>3, WorkerLocal DEF IInv
      <4>4. QED
        BY <1>2, <2>2, <4>1, <4>2, <4>3 DEF Next, LifeStep, Finished
    <3>2. handed' = handed
      <4>1. CASE LifeStep \/ Wakeup \/ UNCHANGED vars
        BY <4>1 DEF LifeStep, StopStep, Start, MarkStarted, Stop, CloseNext, Join, Persist,
           MarkStopped, Wakeup, vars
      <4>2. ASSUME NEW c \in Producers, ClientStep(c) \/ \E P \in Shapes : Call(c, P)
            PROVE  handed' = handed
        <5>1. ~Push(c)
          <6>1. SUFFICES ASSUME Push(c) PROVE FALSE
            OBVIOUS
          <6>2. Route(c) \in Workers /\ ~closed[Route(c)]
            BY <1>2, <6>1, RouteType DEF Push, Awake, Enqueue, IInv
          <6>3. QED
            BY <1>2, <3>1, <6>2 DEF IInv, LifeInv
        <5>2. QED
          BY <4>2, <5>1 DEF ClientStep, CheckStarted, SubmitNotRunning, PushRefused, Refused, Split,
             Call, ApplyInline, ArriveInline, SubmitNext, PushBlocks, PushNotify, Acknowledge, GoOn
      <4>3. ASSUME NEW w \in Workers, WorkerStep(w)
            PROVE  handed' = handed
        BY <1>2, <4>3, WorkerLocal DEF IInv
      <4>4. QED
        BY <1>2, <4>1, <4>2, <4>3 DEF Next, LifeStep, Finished
    <3>3. QED
      BY <1>2, <3>1, <3>2 DEF StopPersistsHandedOver
  <2>3. CASE life' # "persisted"
    BY <2>3 DEF StopPersistsHandedOver
  <2>4. QED
    BY <2>1, <2>2, <2>3
<1>3. QED
  BY <1>1, <1>2, PipelineInvariant, PTL DEF Spec

(***************************************************************************)
(* The refinement of BatchAck.                                             *)
(***************************************************************************)
\* Every step of the pipeline is a step of BatchAck, or invisible there.  The
\* countdown makes the acknowledgement come after every part, and nothing be
\* applied after it.
LEMMA AckStep ==
  ASSUME IInv, [Next]_vars
  PROVE  Ack!Next \/ UNCHANGED <<parts, applied, answer>>
<1> USE DEF queueVars, clientVars, latchVars, workerVars, lifeVars, historyVars
<1>1. /\ TypeOK /\ ClientInv /\ FreshInv /\ HandedInv /\ CountInv
      /\ \A b \in Batches : CountOf(b)
  BY DEF IInv, CountInv
<1>2. ASSUME NEW b \in Batches, NEW p \in parts[b], p \notin applied[b]
      PROVE  answer[b] # "acked" /\ p \in Parts
  BY <1>1, <1>2 DEF CountOf, Outstanding, TypeOK
<1>3. ASSUME NEW c \in Producers, NEW P \in Shapes, Call(c, P)
      PROVE  Ack!Next
  <2> DEFINE n == <<c, count[c] + 1>>
  <2>1. n \in Batches /\ count[c] + 1 \in (count[c] + 1)..MaxBatches /\ P \in SUBSET Parts
    BY <1>1, <1>3, BatchType, PipelineAssumption DEF Call, TypeOK
  <2>2. answer[n] = "none"
    BY <1>1, <2>1 DEF FreshInv
  <2>3. Ack!SubmitBatch(n, P)
    BY <1>3, <2>2 DEF Call, Answer, Ack!SubmitBatch
  <2>4. QED
    BY <2>1, <2>3 DEF Ack!Next
<1>4. ASSUME NEW c \in Producers, ClientStep(c)
      PROVE  Ack!Next \/ UNCHANGED <<parts, applied, answer>>
  <2> DEFINE b == Current(c)
  <2>1. pc[c] # "idle" /\ b \in Batches /\ answer[b] = "pending"
    <3>1. pc[c] # "idle"
      BY <1>4 DEF ClientStep, CheckStarted, SubmitNotRunning, PushRefused, Split, ApplyInline,
         ArriveInline, SubmitNext, PushBlocks, Push, PushNotify, Acknowledge, GoOn, Awake
    <3>2. QED
      BY <1>1, <3>1, BatchType DEF ClientInv, ClientInvOf
  <2>2. CASE CheckStarted(c) \/ SubmitNotRunning(c) \/ PushRefused(c)
    <3>1. Ack!Refuse(b)
      BY <2>1, <2>2 DEF CheckStarted, SubmitNotRunning, PushRefused, Refused, Answer, Ack!Refuse
    <3>2. QED
      BY <2>1, <3>1 DEF Ack!Next
  <2>3. CASE ApplyInline(c)
    <3>1. Inline \in parts[b] \ applied[b]
      BY <1>1, <2>3 DEF ApplyInline, ClientInv, ClientInvOf
    <3>2. Ack!ApplyPart(b, Inline) /\ Inline \in Parts
      BY <1>2, <2>1, <2>3, <3>1 DEF ApplyInline, Apply, Ack!ApplyPart
    <3>3. QED
      BY <2>1, <3>2 DEF Ack!Next
  <2>4. CASE Acknowledge(c)
    <3>1. Outstanding(b) = {} /\ applied[b] \subseteq parts[b]
      BY <1>1, <2>1, <2>4 DEF Acknowledge, CountOf
    <3>2. applied[b] = parts[b]
      BY <3>1 DEF Outstanding
    <3>3. Ack!Acknowledge(b)
      BY <2>1, <2>4, <3>2 DEF Acknowledge, Answer, Ack!Acknowledge
    <3>4. QED
      BY <2>1, <3>3 DEF Ack!Next
  <2>5. CASE Split(c) \/ ArriveInline(c) \/ SubmitNext(c) \/ PushBlocks(c) \/ Push(c)
             \/ PushNotify(c) \/ GoOn(c)
    BY <2>5 DEF Split, ArriveInline, SubmitNext, PushBlocks, Push, PushNotify, GoOn
  <2>6. QED
    BY <1>4, <2>2, <2>3, <2>4, <2>5 DEF ClientStep
<1>5. ASSUME NEW w \in Workers, WorkerStep(w)
      PROVE  Ack!Next \/ UNCHANGED <<parts, applied, answer>>
  <2>1. CASE ApplyRouted(w)
    <3>1. hand[w] \in Batches /\ w \in parts[hand[w]] \ applied[hand[w]]
      BY <1>1, <2>1, HandType, NotAppliedYet DEF ApplyRouted
    <3>2. Ack!ApplyPart(hand[w], w) /\ w \in Parts
      BY <1>2, <2>1, <3>1 DEF ApplyRouted, Apply, Ack!ApplyPart
    <3>3. QED
      BY <3>1, <3>2 DEF Ack!Next
  <2>2. CASE ~ApplyRouted(w)
    BY <1>5, <2>2 DEF WorkerStep, PopBlocks, Pop, PopNotify, ArriveRouted, Exit
  <2>3. QED
    BY <2>1, <2>2
<1>6. CASE LifeStep \/ Wakeup \/ UNCHANGED vars
  BY <1>6 DEF LifeStep, StopStep, Start, MarkStarted, Stop, CloseNext, Join, Persist, MarkStopped,
     Wakeup, vars
<1>7. QED
  BY <1>3, <1>4, <1>5, <1>6 DEF Next, LifeStep, Finished

\* submit_batch with its queues, workers, countdown and shutdown implements
\* BatchAck: each part is applied at most once, a submitter is answered once,
\* and acknowledged only after the last part of its batch was applied.
THEOREM PipelineImplementsBatchAck == Spec => Acknowledged
<1>1. Init => Ack!Init
  BY DEF Init, Ack!Init
<1>2. IInv /\ [Next]_vars => [Ack!Next]_(Ack!ackVars)
  BY AckStep DEF Ack!ackVars
<1>3. QED
  BY <1>1, <1>2, PipelineInvariant, PTL DEF Spec, Acknowledged, Ack!Spec

(***************************************************************************)
(* Waiting and waking.                                                     *)
(***************************************************************************)
\* A submitter that waits for space takes no step.
LEMMA WaitersStay ==
  ASSUME IInv, WaitInv, NEW c \in Producers, ClientStep(c) \/ \E P \in Shapes : Call(c, P)
  PROVE  \A w \in Workers : c \notin waitingFull[w]
<1>1. SUFFICES ASSUME NEW w \in Workers, c \in waitingFull[w] PROVE FALSE
  OBVIOUS
<1>2. pc[c] = "push" /\ Route(c) = w
  BY <1>1 DEF WaitInv, WaitOf
<1>3. ~Awake(c)
  BY <1>1, <1>2 DEF Awake
<1>4. QED
  BY <1>2, <1>3 DEF ClientStep, CheckStarted, SubmitNotRunning, PushRefused, Split, Call, ApplyInline,
     ArriveInline, SubmitNext, PushBlocks, Push, PushNotify, Acknowledge, GoOn

\* Who waits where stays true.
LEMMA WaitStep ==
  ASSUME IInv, WaitInv, [Next]_vars
  PROVE  WaitInv'
<1> USE DEF queueVars, clientVars, latchVars, workerVars, lifeVars, historyVars
<1> SUFFICES ASSUME NEW w \in Workers PROVE WaitOf(w)'
  BY DEF WaitInv
<1>1. /\ TypeOK /\ ClientInv /\ WaitOf(w) /\ QueueTypeOK(Batches)
      /\ waitingFull[w] \subseteq Producers
  BY DEF IInv, WaitInv, TypeOK, QueueTypeOK
<1>2. ASSUME NEW c \in Producers, ClientStep(c) \/ \E P \in Shapes : Call(c, P)
      PROVE  WaitOf(w)'
  <2>1. \A x \in waitingFull[w] : pc'[x] = "push" /\ Route(x)' = w
    <3>1. SUFFICES ASSUME NEW x \in waitingFull[w] PROVE pc'[x] = "push" /\ Route(x)' = w
      OBVIOUS
    <3>2. x \in Producers \ {c}
      BY <1>1, <1>2, WaitersStay
    <3>3. pc'[x] = pc[x] /\ todo'[x] = todo[x]
      BY <1>2, <3>2, ClientLocal
    <3>4. QED
      BY <1>1, <3>3 DEF WaitOf, Route
  <2>2. CASE PushBlocks(c)
    <3>1. pc' = pc /\ todo' = todo /\ closed' = closed /\ pc[c] = "push" /\ Route(c)' = Route(c)
      BY <2>2 DEF PushBlocks, WaitFull, Awake, Route
    <3>2. waitingFull'[w] = waitingFull[w] \/
            (w = Route(c) /\ ~closed[w] /\ waitingFull'[w] = waitingFull[w] \cup {c})
      BY <1>1, <2>2 DEF PushBlocks, WaitFull, PushWaits, QueueTypeOK
    <3>3. QED
      BY <1>1, <2>1, <3>1, <3>2 DEF WaitOf
  <2>3. CASE ~PushBlocks(c)
    <3>1. UNCHANGED <<closed, waitingFull>>
      BY <1>2, <2>3 DEF ClientStep, CheckStarted, SubmitNotRunning, PushRefused, PushClosed, Refused,
         Split, Call, ApplyInline, ArriveInline, SubmitNext, Push, Enqueue, PushNotify, NotifyEmpty,
         Acknowledge, GoOn
    <3>2. QED
      BY <1>1, <2>1, <3>1 DEF WaitOf
  <2>4. QED
    BY <2>2, <2>3
<1>3. ASSUME UNCHANGED <<pc, todo, closed>>, waitingFull'[w] \subseteq waitingFull[w]
      PROVE  WaitOf(w)'
  BY <1>1, <1>3 DEF WaitOf, Route
<1>4. ASSUME NEW v \in Workers, WorkerStep(v)
      PROVE  WaitOf(w)'
  <2>1. CASE PopNotify(v)
    <3>1. waitingFull'[w] \subseteq waitingFull[w]
      BY <1>1, <2>1 DEF PopNotify, NotifyFull, QueueTypeOK
    <3>2. QED
      BY <1>3, <2>1, <3>1 DEF PopNotify, NotifyFull
  <2>2. CASE ~PopNotify(v)
    BY <1>3, <1>4, <2>2 DEF WorkerStep, PopBlocks, WaitEmpty, Pop, Dequeue, ApplyRouted,
       ArriveRouted, Exit, PopDrained
  <2>3. QED
    BY <2>1, <2>2
<1>5. CASE Wakeup
  <2>1. waitingFull'[w] \subseteq waitingFull[w]
    BY <1>1, <1>5 DEF Wakeup, SpuriousWakeup, QueueTypeOK
  <2>2. QED
    BY <1>3, <1>5, <2>1 DEF Wakeup, SpuriousWakeup
<1>6. CASE CloseNext /\ shut # Workers
  <2>1. PICK v : Close(v) /\ UNCHANGED <<pc, todo>>
    BY <1>6 DEF CloseNext
  <2>2. CASE v = w
    BY <1>1, <2>1, <2>2 DEF Close, QueueTypeOK, WaitOf
  <2>3. CASE v # w
    BY <1>1, <2>1, <2>3 DEF Close, QueueTypeOK, WaitOf, Route
  <2>4. QED
    BY <2>2, <2>3
<1>7. CASE (LifeStep /\ ~(CloseNext /\ shut # Workers)) \/ UNCHANGED vars
  <2>1. UNCHANGED <<pc, todo, closed, waitingFull>>
    BY <1>7 DEF LifeStep, StopStep, Start, MarkStarted, Stop, CloseNext, Join, Persist, MarkStopped,
       vars
  <2>2. QED
    BY <1>3, <2>1
<1>8. QED
  BY <1>2, <1>4, <1>5, <1>6, <1>7 DEF Next, LifeStep, Finished

\* Who notifies and who pushes at a queue, before and after a step.
LEMMA NotifyingIs ==
  ASSUME NEW w \in Workers, NEW x
  PROVE  /\ x \in Notifying(w) <=> x \in Producers /\ pc[x] = "notify" /\ Route(x) = w
         /\ x \in Notifying(w)' <=> x \in Producers /\ pc'[x] = "notify" /\ Route(x)' = w
         /\ x \in Pushing(w) <=> x \in Producers /\ pc[x] = "push" /\ Route(x) = w
                                 /\ x \notin waitingFull[w]
         /\ x \in Pushing(w)' <=> x \in Producers /\ pc'[x] = "push" /\ Route(x)' = w
                                  /\ x \notin waitingFull'[w]
BY DEF Notifying, Pushing, Awake

\* They are finitely many.
LEMMA WakersFinite ==
  ASSUME NEW w
  PROVE  /\ IsFiniteSet(Notifying(w)) /\ Cardinality(Notifying(w)) \in Nat
         /\ IsFiniteSet(Notifying(w)') /\ Cardinality(Notifying(w)') \in Nat
         /\ IsFiniteSet(Pushing(w)) /\ Cardinality(Pushing(w)) \in Nat
         /\ IsFiniteSet(Pushing(w)') /\ Cardinality(Pushing(w)') \in Nat
<1>1. /\ Notifying(w) \subseteq Producers /\ Notifying(w)' \subseteq Producers
      /\ Pushing(w) \subseteq Producers /\ Pushing(w)' \subseteq Producers
  BY DEF Notifying, Pushing
<1>2. QED
  BY <1>1, QueueAssumption, FS_Subset, FS_CardinalityType

\* A step that takes no wakeup away from those who wait at a queue.
LEMMA WakeFrame ==
  ASSUME NEW w \in Workers, WakeOf(w), TypeOK, items'[w] = items[w],
         w \in waitingEmpty' => w \in waitingEmpty /\ Notifying(w) \subseteq Notifying(w)',
         waitingFull'[w] # {} => waitingFull[w] # {} /\ Pushing(w) \subseteq Pushing(w)',
         workerPc[w] = "notify" => workerPc'[w] = "notify"
  PROVE  WakeOf(w)'
<1>1. Len(items[w]) \in Nat /\ Capacity \in Nat
  BY QueueAssumption DEF TypeOK, QueueTypeOK
<1>2. /\ w \in waitingEmpty' => Cardinality(Notifying(w)) <= Cardinality(Notifying(w)')
      /\ waitingFull'[w] # {} => Cardinality(Pushing(w)) <= Cardinality(Pushing(w)')
  BY WakersFinite, FS_Subset
<1>3. w \in waitingEmpty' => Len(items'[w]) <= Cardinality(Notifying(w)')
  BY <1>1, <1>2, WakersFinite DEF WakeOf
<1>4. waitingFull'[w] # {} =>
        Capacity - Len(items'[w]) <=
          Cardinality(Pushing(w)') + (IF workerPc'[w] = "notify" THEN 1 ELSE 0)
  BY <1>1, <1>2, WakersFinite DEF WakeOf
<1>5. QED
  BY <1>3, <1>4 DEF WakeOf

\* Submitters: who pushes takes a free place and owes a notification.
LEMMA WakeClient ==
  ASSUME IInv, WaitInv, NEW c \in Producers, ClientStep(c) \/ \E P \in Shapes : Call(c, P),
         NEW w \in Workers, WakeOf(w)
  PROVE  WakeOf(w)'
<1> USE DEF queueVars, clientVars, latchVars, workerVars, lifeVars, historyVars
<1>1. /\ TypeOK /\ ClientInv /\ WaitOf(w) /\ QueueTypeOK(Batches) /\ Len(items[w]) \in Nat
      /\ Capacity \in Nat \ {0}
  <2>1. TypeOK /\ ClientInv /\ WaitOf(w) /\ QueueTypeOK(Batches)
    BY DEF IInv, WaitInv, TypeOK
  <2>2. items[w] \in Seq(Batches)
    BY <2>1 DEF QueueTypeOK
  <2>3. QED
    BY <2>1, <2>2, QueueAssumption
<1>2. workerPc' = workerPc
  BY DEF ClientStep, CheckStarted, SubmitNotRunning, PushRefused, Refused, Split, Call,
     ApplyInline, ArriveInline, SubmitNext, PushBlocks, Push, PushNotify, Acknowledge, GoOn
<1>3. \A x \in Producers \ {c} : pc'[x] = pc[x] /\ Route(x)' = Route(x)
  BY ClientLocal DEF Route
<1>4. CASE PushBlocks(c)
  <2>1. /\ UNCHANGED <<pc, todo, items, waitingEmpty>>
        /\ waitingFull' = [waitingFull EXCEPT ![Route(c)] = @ \cup {c}]
    BY <1>4 DEF PushBlocks, WaitFull
  <2>2. \A x : Route(x)' = Route(x)
    BY <2>1 DEF Route
  <2>3. Notifying(w)' = Notifying(w)
    BY <2>1, <2>2 DEF Notifying
  <2>4. CASE w = Route(c)
    <3>1. Len(items'[w]) >= Capacity
      BY <1>4, <2>1, <2>4 DEF PushBlocks, WaitFull, PushWaits
    <3>2. Capacity - Len(items'[w]) <=
            Cardinality(Pushing(w)') + (IF workerPc'[w] = "notify" THEN 1 ELSE 0)
      BY <1>1, <2>1, <3>1, WakersFinite
    <3>3. QED
      BY <2>1, <2>3, <3>2 DEF WakeOf
  <2>5. CASE w # Route(c)
    <3>1. waitingFull'[w] = waitingFull[w]
      BY <1>1, <2>1, <2>5 DEF QueueTypeOK
    <3>2. Pushing(w) \subseteq Pushing(w)'
      BY <2>1, <2>2, <3>1, NotifyingIs
    <3>3. QED
      BY <1>1, <1>2, <2>1, <2>3, <3>1, <3>2, WakeFrame
  <2>6. QED
    BY <2>4, <2>5
<1>5. CASE Push(c)
  <2>1. /\ UNCHANGED <<todo, waitingEmpty, waitingFull>> /\ pc[c] = "push" /\ pc'[c] = "notify"
        /\ items' = [items EXCEPT ![Route(c)] = Append(@, Current(c))]
        /\ c \notin waitingFull[Route(c)] /\ Current(c) \in Batches
    BY <1>1, <1>5, BatchType DEF Push, Awake, Enqueue, Goto, TypeOK
  <2>2. \A x : Route(x)' = Route(x)
    BY <2>1 DEF Route
  <2>3. CASE w = Route(c)
    <3>1. Notifying(w)' = Notifying(w) \cup {c} /\ c \notin Notifying(w)
      BY <1>3, <2>1, <2>2, <2>3, NotifyingIs
    <3>2. Pushing(w)' = Pushing(w) \ {c} /\ c \in Pushing(w)
      BY <1>3, <2>1, <2>2, <2>3, NotifyingIs
    <3>3. Cardinality(Notifying(w)') = Cardinality(Notifying(w)) + 1
      BY <3>1, WakersFinite, FS_AddElement
    <3>4. Cardinality(Pushing(w)') = Cardinality(Pushing(w)) - 1
      BY <3>2, WakersFinite, FS_RemoveElement
    <3>5. items[w] \in Seq(Batches) /\ items'[w] = Append(items[w], Current(c))
      BY <1>1, <2>1, <2>3 DEF QueueTypeOK
    <3>6. Len(items'[w]) = Len(items[w]) + 1
      BY <2>1, <3>5
    <3>7. w \in waitingEmpty' => Len(items'[w]) <= Cardinality(Notifying(w)')
      BY <1>1, <2>1, <3>3, <3>6, WakersFinite DEF WakeOf
    <3>8. waitingFull'[w] # {} =>
            Capacity - Len(items'[w]) <=
              Cardinality(Pushing(w)') + (IF workerPc'[w] = "notify" THEN 1 ELSE 0)
      BY <1>1, <1>2, <2>1, <3>4, <3>6, WakersFinite DEF WakeOf
    <3>9. QED
      BY <3>7, <3>8 DEF WakeOf
  <2>4. CASE w # Route(c)
    <3>1. items'[w] = items[w]
      BY <1>1, <2>1, <2>4 DEF QueueTypeOK
    <3>2. Notifying(w) \subseteq Notifying(w)' /\ Pushing(w) \subseteq Pushing(w)'
      BY <1>3, <2>1, <2>2, <2>4, NotifyingIs
    <3>3. QED
      BY <1>1, <1>2, <2>1, <3>1, <3>2, WakeFrame
  <2>5. QED
    BY <2>3, <2>4
<1>6. CASE PushNotify(c)
  <2>1. /\ UNCHANGED <<items, waitingFull>> /\ pc[c] = "notify"
        /\ waitingEmpty' = waitingEmpty \ {Route(c)}
    BY <1>6 DEF PushNotify, NotifyEmpty
  <2>2. Pushing(w) \subseteq Pushing(w)'
    BY <1>3, <2>1, NotifyingIs
  <2>3. w # Route(c) => Notifying(w) \subseteq Notifying(w)'
    BY <1>3, <2>1, NotifyingIs
  <2>4. QED
    BY <1>1, <1>2, <2>1, <2>2, <2>3, WakeFrame
<1>7. CASE PushRefused(c)
  <2>1. UNCHANGED <<items, waitingFull, waitingEmpty>> /\ pc[c] = "push" /\ closed[Route(c)]
    BY <1>7 DEF PushRefused, PushClosed, Awake
  <2>2. Notifying(w) \subseteq Notifying(w)'
    BY <1>3, <2>1, NotifyingIs
  <2>3. waitingFull[w] # {} => Pushing(w) \subseteq Pushing(w)'
    <3>1. waitingFull[w] # {} => w # Route(c)
      BY <1>1, <2>1 DEF WaitOf
    <3>2. QED
      BY <1>3, <2>1, <3>1, NotifyingIs
  <2>4. QED
    BY <1>1, <1>2, <2>1, <2>2, <2>3, WakeFrame
<1>8. CASE ~(PushBlocks(c) \/ Push(c) \/ PushNotify(c) \/ PushRefused(c))
  <2>1. UNCHANGED <<items, waitingFull, waitingEmpty>> /\ pc[c] \notin {"push", "notify"}
    BY <1>8 DEF ClientStep, CheckStarted, SubmitNotRunning, Refused, Split, Call, ApplyInline,
       ArriveInline, SubmitNext, Acknowledge, GoOn
  <2>2. Notifying(w) \subseteq Notifying(w)' /\ Pushing(w) \subseteq Pushing(w)'
    BY <1>3, <2>1, NotifyingIs
  <2>3. QED
    BY <1>1, <1>2, <2>1, <2>2, WakeFrame
<1>9. QED
  BY <1>4, <1>5, <1>6, <1>7, <1>8

\* A producer that stops waiting joins those who are about to push.
LEMMA WokenPushes ==
  ASSUME TypeOK, NEW w \in Workers, WaitOf(w), UNCHANGED <<pc, todo>>, NEW p \in waitingFull[w],
         waitingFull'[w] = waitingFull[w] \ {p}
  PROVE  /\ Pushing(w)' = Pushing(w) \cup {p}
         /\ Cardinality(Pushing(w)') = Cardinality(Pushing(w)) + 1
<1>1. /\ \A x : Route(x)' = Route(x) /\ pc'[x] = pc[x]
      /\ p \in Producers /\ pc[p] = "push" /\ Route(p) = w
  BY DEF Route, WaitOf, TypeOK, QueueTypeOK
<1>2. Pushing(w)' = Pushing(w) \cup {p} /\ p \notin Pushing(w)
  BY <1>1, NotifyingIs
<1>3. QED
  BY <1>2, WakersFinite, FS_AddElement

\* Workers: who pops owes a notification, which wakes a waiting producer.
LEMMA WakeWorker ==
  ASSUME IInv, WaitInv, NEW v \in Workers, WorkerStep(v), NEW w \in Workers, WakeOf(w)
  PROVE  WakeOf(w)'
<1> USE DEF queueVars, clientVars, latchVars, workerVars, lifeVars, historyVars
<1>1. /\ TypeOK /\ HandedInv /\ WaitOf(w) /\ QueueTypeOK(Batches) /\ Len(items[w]) \in Nat
      /\ Capacity \in Nat \ {0}
  <2>1. TypeOK /\ HandedInv /\ WaitOf(w) /\ QueueTypeOK(Batches)
    BY DEF IInv, WaitInv, TypeOK
  <2>2. items[w] \in Seq(Batches)
    BY <2>1 DEF QueueTypeOK
  <2>3. QED
    BY <2>1, <2>2, QueueAssumption
<1>2. UNCHANGED <<pc, todo>> /\ \A x : Route(x)' = Route(x)
  BY <1>1, WorkerLocal DEF Route
<1>3. Notifying(w)' = Notifying(w)
  BY <1>2 DEF Notifying
<1>4. waitingFull'[w] = waitingFull[w] => Pushing(w)' = Pushing(w)
  BY <1>2, NotifyingIs
<1>5. CASE v # w
  <2>1. items'[w] = items[w] /\ workerPc'[w] = workerPc[w]
    BY <1>1, <1>5, WorkerLocal
  <2>2. waitingFull'[w] = waitingFull[w] /\ (w \in waitingEmpty' => w \in waitingEmpty)
    <3>1. CASE PopNotify(v)
      BY <1>1, <1>5, <3>1 DEF PopNotify, NotifyFull, QueueTypeOK
    <3>2. CASE ~PopNotify(v)
      BY <1>5, <3>2 DEF WorkerStep, PopBlocks, WaitEmpty, Pop, Dequeue, ApplyRouted, ArriveRouted,
         Exit, PopDrained
    <3>3. QED
      BY <3>1, <3>2
  <2>3. QED
    BY <1>1, <1>3, <1>4, <2>1, <2>2, WakeFrame
<1>6. CASE v = w
  <2>1. CASE PopBlocks(w)
    <3>1. UNCHANGED <<items, waitingFull, workerPc>> /\ items[w] = <<>>
      BY <2>1 DEF PopBlocks, WaitEmpty, PopWaits
    <3>2. Len(items'[w]) = 0
      BY <3>1
    <3>3. Len(items'[w]) <= Cardinality(Notifying(w)')
      BY <3>2, WakersFinite
    <3>4. QED
      BY <1>4, <3>1, <3>3 DEF WakeOf
  <2>2. CASE Pop(w)
    <3>1. /\ items[w] \in Seq(Batches) /\ items[w] # <<>> /\ items'[w] = Tail(items[w])
          /\ workerPc[w] = "pop" /\ workerPc'[w] = "notify" /\ w \notin waitingEmpty
          /\ UNCHANGED <<waitingFull, waitingEmpty>>
      BY <1>1, <2>2 DEF Pop, Popping, Dequeue, WorkerGoto, TypeOK, QueueTypeOK
    <3>2. Len(items'[w]) = Len(items[w]) - 1
      BY <3>1
    <3>3. waitingFull'[w] # {} => Capacity - Len(items'[w]) <= Cardinality(Pushing(w)') + 1
      BY <1>1, <1>4, <3>1, <3>2, WakersFinite DEF WakeOf
    <3>4. QED
      BY <3>1, <3>3 DEF WakeOf
  <2>3. CASE PopNotify(w)
    <3>1. /\ UNCHANGED <<items, waitingEmpty>> /\ workerPc[w] = "notify" /\ workerPc'[w] = "apply"
      BY <1>1, <2>3 DEF PopNotify, NotifyFull, WorkerGoto, TypeOK
    <3>2. CASE waitingFull[w] = {}
      <4>1. waitingFull'[w] = {}
        BY <2>3, <3>2 DEF PopNotify, NotifyFull
      <4>2. QED
        BY <1>3, <3>1, <4>1 DEF WakeOf
    <3>3. CASE waitingFull[w] # {}
      <4>1. PICK p \in waitingFull[w] : waitingFull'[w] = waitingFull[w] \ {p}
        BY <1>1, <2>3, <3>3 DEF PopNotify, NotifyFull, QueueTypeOK
      <4>2. Cardinality(Pushing(w)') = Cardinality(Pushing(w)) + 1
        BY <1>1, <1>2, <4>1, WokenPushes
      <4>3. Capacity - Len(items'[w]) <= Cardinality(Pushing(w)')
        BY <1>1, <3>1, <3>3, <4>2, WakersFinite DEF WakeOf
      <4>4. QED
        BY <1>1, <1>3, <3>1, <4>3, WakersFinite DEF WakeOf
    <3>4. QED
      BY <3>2, <3>3
  <2>4. CASE ApplyRouted(w) \/ ArriveRouted(w) \/ Exit(w)
    <3>1. UNCHANGED <<items, waitingFull, waitingEmpty>> /\ workerPc[w] # "notify"
      BY <2>4 DEF ApplyRouted, ArriveRouted, Exit, PopDrained, Popping
    <3>2. QED
      BY <1>1, <1>3, <1>4, <3>1, WakeFrame
  <2>5. QED
    BY <1>6, <2>1, <2>2, <2>3, <2>4 DEF WorkerStep
<1>7. QED
  BY <1>5, <1>6

\* No notification is missed: whoever waits at a queue that has something for it
\* is owed a notification by a thread that has not sent it yet, or another
\* producer is awake to take the place; close wakes all the others.
THEOREM WakeupsAreNotLost == Spec => []NoLostWakeup
<1> USE DEF queueVars, clientVars, latchVars, workerVars, lifeVars, historyVars
<1>1. NoLostWakeup <=> \A w \in Workers : WakeOf(w)
  BY DEF NoLostWakeup, WakeOf
<1>2. Init => WaitInv /\ \A w \in Workers : WakeOf(w)
  BY DEF Init, QueueInit, WaitInv, WaitOf, WakeOf
<1>3. ASSUME IInv, WaitInv, \A w \in Workers : WakeOf(w), [Next]_vars
      PROVE  \A w \in Workers : WakeOf(w)'
  <2> SUFFICES ASSUME NEW w \in Workers PROVE WakeOf(w)'
    OBVIOUS
  <2>1. TypeOK /\ WakeOf(w) /\ WaitOf(w) /\ QueueTypeOK(Batches)
    BY <1>3 DEF IInv, WaitInv, TypeOK
  <2>2. CASE LifeStep \/ Wakeup \/ UNCHANGED vars
    <3>1. /\ UNCHANGED <<pc, todo, items>>
          /\ workerPc[w] = "notify" => workerPc'[w] = "notify"
          /\ w \in waitingEmpty' => w \in waitingEmpty
      <4>1. Start => workerPc[w] = "off"
        BY <1>3 DEF Start, IInv, LifeInv
      <4>2. QED
        BY <2>2, <4>1 DEF LifeStep, StopStep, Start, MarkStarted, Stop, CloseNext, Close, Join,
           Persist, MarkStopped, Wakeup, SpuriousWakeup, vars
    <3>2. Notifying(w)' = Notifying(w)
      BY <3>1 DEF Notifying, Route
    <3>3. \/ waitingFull'[w] \in {{}, waitingFull[w]}
          \/ \E p \in waitingFull[w] : waitingFull'[w] = waitingFull[w] \ {p}
      <4>1. CASE Wakeup
        <5>1. CASE waitingFull' = waitingFull
          BY <5>1
        <5>2. CASE waitingFull' # waitingFull
          <6>1. PICK x \in Workers : \E p \in waitingFull[x] :
                  waitingFull' = [waitingFull EXCEPT ![x] = @ \ {p}]
            BY <4>1, <5>2 DEF Wakeup, SpuriousWakeup
          <6>2. QED
            BY <2>1, <6>1 DEF QueueTypeOK
        <5>3. QED
          BY <5>1, <5>2
      <4>2. CASE CloseNext /\ shut # Workers
        <5>1. PICK x : Close(x)
          BY <4>2 DEF CloseNext
        <5>2. QED
          BY <2>1, <5>1 DEF Close, QueueTypeOK
      <4>3. CASE (LifeStep /\ ~(CloseNext /\ shut # Workers)) \/ UNCHANGED vars
        BY <4>3 DEF LifeStep, StopStep, Start, MarkStarted, Stop, CloseNext, Join, Persist,
           MarkStopped, vars
      <4>4. QED
        BY <2>2, <4>1, <4>2, <4>3
    <3>4. waitingFull'[w] # {} => waitingFull[w] # {} /\ Pushing(w) \subseteq Pushing(w)'
      <4>1. \A x : Route(x)' = Route(x) /\ pc'[x] = pc[x]
        BY <3>1 DEF Route
      <4>2. QED
        BY <3>3, <4>1, NotifyingIs
    <3>5. QED
      BY <2>1, <3>1, <3>2, <3>4, WakeFrame
  <2>3. QED
    BY <1>3, <2>1, <2>2, WakeClient, WakeWorker DEF Next, LifeStep, Finished
<1>4. IInv /\ WaitInv /\ (\A w \in Workers : WakeOf(w)) /\ [Next]_vars
        => WaitInv' /\ (\A w \in Workers : WakeOf(w))'
  BY <1>3, WaitStep
<1>5. QED
  BY <1>1, <1>2, <1>4, PipelineInvariant, PTL DEF Spec
=============================================================================
