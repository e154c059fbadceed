---------------------------- MODULE BoundedQueue ----------------------------
(***************************************************************************)
(* The bounded work queues between submitters and workers                  *)
(* (src/ingest/queue.cpp).  Every operator is one critical section of the  *)
(* queue's lock; a thread inside condition_variable::wait is in one of the *)
(* wait sets and is put back to re-test its predicate by a notification or *)
(* by a spurious wakeup.  Queue w has the single consumer w.               *)
(*                                                                         *)
(* try_push, try_pop and discard_pending have no caller that can find work *)
(* in the queue (see the README) and are not modelled.                     *)
(***************************************************************************)
EXTENDS Integers, Sequences, FiniteSets

CONSTANTS
  Producers,
  Workers,         \* one queue per worker: the route numbers
  Capacity         \* BoundedQueue::capacity_

ASSUME QueueAssumption ==
  /\ IsFiniteSet(Producers)
  /\ Workers \subseteq Nat /\ IsFiniteSet(Workers)
  /\ Capacity \in Nat \ {0}

VARIABLES
  items,           \* items_
  closed,          \* closed_
  waitingFull,     \* producers waiting on not_full_, per queue
  waitingEmpty     \* consumers waiting on not_empty_

queueVars == <<items, closed, waitingFull, waitingEmpty>>

QueueTypeOK(Items) ==
  /\ items \in [Workers -> Seq(Items)]
  /\ closed \in [Workers -> BOOLEAN]
  /\ waitingFull \in [Workers -> SUBSET Producers]
  /\ waitingEmpty \in SUBSET Workers

QueueInit ==
  /\ items = [w \in Workers |-> <<>>]
  /\ closed = [w \in Workers |-> FALSE]
  /\ waitingFull = [w \in Workers |-> {}]
  /\ waitingEmpty = {}

-----------------------------------------------------------------------------
\* push: wait for space, give up on a closed queue, or enqueue.
PushWaits(w) == ~closed[w] /\ Len(items[w]) >= Capacity

WaitFull(p, w) ==
  /\ PushWaits(w)
  /\ waitingFull' = [waitingFull EXCEPT ![w] = @ \cup {p}]
  /\ UNCHANGED <<items, closed, waitingEmpty>>

PushClosed(w) == closed[w] /\ UNCHANGED queueVars

Enqueue(w, item) ==
  /\ ~closed[w] /\ ~PushWaits(w)
  /\ items' = [items EXCEPT ![w] = Append(@, item)]
  /\ UNCHANGED <<closed, waitingFull, waitingEmpty>>

\* not_empty_.notify_one(), after the lock was released.
NotifyEmpty(w) ==
  /\ waitingEmpty' = waitingEmpty \ {w}
  /\ UNCHANGED <<items, closed, waitingFull>>

\* pop: wait for an item, leave a closed and drained queue, or dequeue.
PopWaits(w) == items[w] = <<>> /\ ~closed[w]

WaitEmpty(w) ==
  /\ PopWaits(w)
  /\ waitingEmpty' = waitingEmpty \cup {w}
  /\ UNCHANGED <<items, closed, waitingFull>>

PopDrained(w) == items[w] = <<>> /\ closed[w] /\ UNCHANGED queueVars

Dequeue(w) ==
  /\ items[w] # <<>>
  /\ items' = [items EXCEPT ![w] = Tail(@)]
  /\ UNCHANGED <<closed, waitingFull, waitingEmpty>>
\* Mutant: a pop wakes no producer.
NotifyFull_Silent(w) == UNCHANGED queueVars

\* not_full_.notify_one(), after the lock was released.
NotifyFull(w) ==
  /\ IF waitingFull[w] = {} THEN UNCHANGED waitingFull
     ELSE \E p \in waitingFull[w] :
            waitingFull' = [waitingFull EXCEPT ![w] = @ \ {p}]
  /\ UNCHANGED <<items, closed, waitingEmpty>>
\* Mutant: close wakes the producers only.
Close_KeepsConsumer(w) ==
  /\ closed' = [closed EXCEPT ![w] = TRUE]
  /\ waitingFull' = [waitingFull EXCEPT ![w] = {}]
  /\ UNCHANGED <<items, waitingEmpty>>

\* close: the flag, and both notify_all, under the lock.
Close(w) ==
  /\ closed' = [closed EXCEPT ![w] = TRUE]
  /\ waitingEmpty' = waitingEmpty \ {w}
  /\ waitingFull' = [waitingFull EXCEPT ![w] = {}]
  /\ UNCHANGED items

\* A wait may return without a notification; both loops re-test.
SpuriousWakeup ==
  /\ \/ \E w \in Workers : \E p \in waitingFull[w] :
          /\ waitingFull' = [waitingFull EXCEPT ![w] = @ \ {p}]
          /\ UNCHANGED waitingEmpty
     \/ \E w \in waitingEmpty :
          /\ waitingEmpty' = waitingEmpty \ {w}
          /\ UNCHANGED waitingFull
  /\ UNCHANGED <<items, closed>>
=============================================================================
