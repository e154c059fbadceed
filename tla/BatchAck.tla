------------------------------ MODULE BatchAck ------------------------------
(***************************************************************************)
(* What submit_batch promises, without queues or threads: a batch is a set *)
(* of parts, each applied at most once in any order, and the submitter is  *)
(* answered once, with an acknowledgement only after every part was        *)
(* applied.  A refused batch may have been applied in part, and parts of   *)
(* it that were already handed over may still be applied afterwards.       *)
(***************************************************************************)
EXTENDS FiniteSets

CONSTANTS Batches, Parts

VARIABLES
  parts,      \* the parts of each submitted batch
  applied,    \* the parts applied so far
  answer      \* "none", "pending", "acked" or "refused"

ackVars == <<parts, applied, answer>>

Init ==
  /\ parts = [b \in Batches |-> {}]
  /\ applied = [b \in Batches |-> {}]
  /\ answer = [b \in Batches |-> "none"]

SubmitBatch(b, P) ==
  /\ answer[b] = "none"
  /\ answer' = [answer EXCEPT ![b] = "pending"]
  /\ parts' = [parts EXCEPT ![b] = P]
  /\ UNCHANGED applied

ApplyPart(b, p) ==
  /\ p \in parts[b] \ applied[b]
  /\ answer[b] # "acked"
  /\ applied' = [applied EXCEPT ![b] = @ \cup {p}]
  /\ UNCHANGED <<parts, answer>>

Acknowledge(b) ==
  /\ answer[b] = "pending"
  /\ applied[b] = parts[b]
  /\ answer' = [answer EXCEPT ![b] = "acked"]
  /\ UNCHANGED <<parts, applied>>

Refuse(b) ==
  /\ answer[b] = "pending"
  /\ answer' = [answer EXCEPT ![b] = "refused"]
  /\ UNCHANGED <<parts, applied>>

Next ==
  \E b \in Batches :
    \/ \E P \in SUBSET Parts : SubmitBatch(b, P)
    \/ \E p \in Parts : ApplyPart(b, p)
    \/ Acknowledge(b)
    \/ Refuse(b)

Spec == Init /\ [][Next]_ackVars
=============================================================================
