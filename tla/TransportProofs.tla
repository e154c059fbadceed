-------------------------- MODULE TransportProofs ---------------------------
(***************************************************************************)
(* Proofs about Transport, for any number of peers, requests and           *)
(* connections: replies match requests, and what a peer saw acknowledged   *)
(* is applied, reported and saved.  They hold where every reply fits in a  *)
(* frame (see RepliesFit).                                                 *)
(***************************************************************************)
EXTENDS Transport, SequenceTheorems, TLAPS

\* No reply is refused by encode_frame.  A reply that is refused is not sent at
\* all, and the replies of a peer that does not wait for each one then no longer
\* stand in the places of its requests.
RepliesFit == Oversized = {}

(***************************************************************************)
(* Types.                                                                  *)
(***************************************************************************)
Working == {"recv", "decode", "reply", "await", "wake"}
Answering == {"reply", "await", "wake"}

Places == Peers \X Nat
Requests == [kind : RequestKinds, known : SUBSET Places]
Replies == [type : {"Pong", "ErrorReport"}]
             \cup [type : {"StateReport"}, shows : SUBSET Places]
             \cup [type : {"PushAck"}, push : Places]

\* The two chunks of a request: its frame type, and for a push its place.
PushKinds == {"PushRecords", "PushTooMany"}
FrameTypeOf(kind) ==
  IF kind \in PushKinds THEN "PushRecords" ELSE IF kind = "Truncated" THEN "Ping" ELSE kind
ContentOf(c, j, kind) ==
  IF kind \in PushKinds THEN [push |-> <<c, j>>, tooMany |-> kind = "PushTooMany"] ELSE "empty"
HeaderOf(kind) == [part |-> "header", type |-> FrameTypeOf(kind)]
PayloadOf(c, j, kind) ==
  [part |-> "payload", type |-> FrameTypeOf(kind), payload |-> ContentOf(c, j, kind)]

Wire == {HeaderOf(k) : k \in RequestKinds}
          \cup {PayloadOf(c, j, k) : c \in Peers, j \in Nat, k \in RequestKinds}

PeerTypes ==
  /\ peer \in [Peers -> {"out", "open", "over"}]
  /\ sent \in [Peers -> Seq(Requests)]
  /\ got \in [Peers -> Seq(Replies)] /\ toPeer \in [Peers -> Seq(Replies)]
WireTypes == toServer \in [Peers -> Seq(Wire)] /\ buffer \in [Peers -> Seq(Wire)]
HandlerTypes ==
  /\ pc \in [Peers -> Working \cup {"none", "close", "leave", "ended"}]
  /\ reply \in [Peers -> Replies \cup {NoReply}]
  /\ shut \in SUBSET Peers
LoopTypes ==
  /\ loop \in {"check", "accept", "reclaim", "join", "persist", "returned", "failed", "gone"}
  /\ stop \in BOOLEAN
  /\ threads \in SUBSET Peers /\ backlog \in Seq(Peers \cup {Wake})
  /\ applied \in SUBSET Places
TypeOK == PeerTypes /\ WireTypes /\ HandlerTypes /\ LoopTypes

(***************************************************************************)
(* Connections and threads.                                                *)
(***************************************************************************)
\* The accept loop is woken only once a stop was asked for.
WokenInv ==
  /\ \A i \in 1..Len(backlog) : backlog[i] = Wake => stop
  /\ owner = "wake" => stop
  /\ \A c \in Peers : pc[c] = "wake" => stop

\* A queued connection is a peer that has no handler yet, queued once.
QueueInv ==
  /\ \A i \in 1..Len(backlog) : backlog[i] # Wake =>
       pc[backlog[i]] = "none" /\ peer[backlog[i]] # "out" /\ backlog[i] \notin shut
  /\ \A i, j \in 1..Len(backlog) : backlog[i] = backlog[j] /\ backlog[i] # Wake => i = j

\* A peer that has not connected yet has done nothing.
OutInv ==
  \A c \in Peers : peer[c] = "out" => pc[c] = "none" /\ c \notin shut

\* A handler at work is a thread that the server will join, and serves an open
\* connection.
ThreadInv ==
  /\ \A c \in Peers : pc[c] \notin {"none", "ended"} => c \in threads
  /\ \A c \in Peers : pc[c] \in Working => c \notin shut
  /\ loop \in {"persist", "returned", "failed", "gone"} => threads = {}

\* A snapshot is written once, when nothing more can be applied, and when
\* serve() succeeds it was, if one is wanted.
SavedAt(where, snapshot, done) ==
  /\ snapshot = <<>> \/ (snapshot = <<done>> /\ where \in {"returned", "gone"})
  /\ PersistConfigured /\ where = "returned" => snapshot # <<>>
SaveInv == SavedAt(loop, saved, applied)

(***************************************************************************)
(* Conversations, said of values.                                          *)
(***************************************************************************)
\* r answers request i of peer c, whose requests are `requests'.
Answers(c, requests, i, r, done) ==
  /\ r.type \in ReplyTypes(requests[i].kind)
  /\ r.type = "StateReport" => requests[i].known \subseteq r.shows
  /\ r.type = "PushAck" /\ requests[i].kind = "PushRecords" => <<c, i>> \in done

\* Replies stand in the places of the requests they answer.
RepliesOf(c, requests, replies, done) ==
  /\ Len(replies) <= Len(requests)
  /\ \A i \in 1..Len(replies) : Answers(c, requests, i, replies[i], done)

\* What peers knew when they sent was applied, and half a frame came last.
RequestsOf(requests, done) ==
  \A i \in 1..Len(requests) :
    /\ requests[i].known \subseteq done
    /\ requests[i].kind = "Truncated" => i = Len(requests)

\* The unread data are the frames of the requests after the first h.
Halved(requests) == Len(requests) > 0 /\ requests[Len(requests)].kind = "Truncated"
AlignedAt(c, requests, data, h) ==
  /\ Len(data) = 2 * (Len(requests) - h) - (IF Halved(requests) THEN 1 ELSE 0)
  /\ \A j \in 1..(Len(requests) - h) :
       /\ 2 * j - 1 <= Len(data) /\ data[2 * j - 1] = HeaderOf(requests[h + j].kind)
       /\ 2 * j <= Len(data) => data[2 * j] = PayloadOf(c, h + j, requests[h + j].kind)

\* A handler that is about to reply replies to request h.
DueAt(c, requests, where, r, done, h) ==
  /\ where \in {"reply", "wake"} => h >= 1 /\ Answers(c, requests, h, r, done)
  /\ where = "await" =>
       h >= 1 /\ requests[h].kind = "PushRecords" /\ r.type = "PushAck" /\ r.push = <<c, h>>

\* h requests were taken: as many as there are replies, but for a peer that is
\* gone and may have missed some.
CountAt(where, status, n, h) ==
  LET k == n + (IF where \in Answering THEN 1 ELSE 0) IN k <= h /\ (status # "over" => k = h)

\* Only requests that were taken have been applied.
AppliedAt(c, where, done, h) ==
  \A j \in Nat : <<c, j>> \in done => j <= h /\ (where = "await" => j # h)

\* h requests of peer c were taken from its connection.
TalkAt(c, requests, data, replies, where, status, r, done, h) ==
  /\ h \in 0..Len(requests)
  /\ AlignedAt(c, requests, data, h)
  /\ DueAt(c, requests, where, r, done, h)
  /\ CountAt(where, status, Len(replies), h)
  /\ AppliedAt(c, where, done, h)

\* Nothing is left of a connection's data once it is closed.
OpenAt(c, where, closed) == where \in Working \/ (where = "none" /\ c \notin closed)

TalkOf(c, requests, data, replies, where, status, r, done, closed) ==
  /\ OpenAt(c, where, closed) =>
       \E h \in Nat : TalkAt(c, requests, data, replies, where, status, r, done, h)
  /\ RepliesOf(c, requests, replies, done)
  /\ RequestsOf(requests, done)

Talk(c) == TalkOf(c, sent[c], buffer[c] \o toServer[c], got[c] \o toPeer[c], pc[c], peer[c],
                  reply[c], applied, shut)

\* Only pushes of records are applied.
AppliedInv ==
  \A p \in applied : p[2] \in 1..Len(sent[p[1]]) /\ sent[p[1]][p[2]].kind = "PushRecords"

TalkInv == AppliedInv /\ \A c \in Peers : Talk(c)

ConnectionInv == WokenInv /\ QueueInv /\ OutInv /\ ThreadInv /\ SaveInv
TransportInv == TypeOK /\ ConnectionInv /\ TalkInv

-----------------------------------------------------------------------------
(***************************************************************************)
(* Sequences: what moving data along a connection leaves of it.            *)
(***************************************************************************)
\* A receive moves data from the wire to the buffer.
LEMMA MoveKeepsData ==
  ASSUME NEW S, NEW b \in Seq(S), NEW t \in Seq(S), NEW k \in 1..Len(t)
  PROVE  /\ b \o SubSeq(t, 1, k) \in Seq(S) /\ SubSeq(t, k + 1, Len(t)) \in Seq(S)
         /\ (b \o SubSeq(t, 1, k)) \o SubSeq(t, k + 1, Len(t)) = b \o t
<1>1. SubSeq(t, 1, k) \in Seq(S) /\ SubSeq(t, k + 1, Len(t)) \in Seq(S)
  <2>1. \A i \in 1..Len(t) : t[i] \in S
    BY ElementOfSeq
  <2>2. Len(t) \in Nat /\ k \in Int /\ k + 1 \in Int
    BY LenProperties
  <2>3. /\ \A i \in 1..k : t[i] \in S
        /\ \A i \in (k + 1)..Len(t) : t[i] \in S
    BY <2>1, <2>2
  <2> QED
    BY <2>2, <2>3, SubSeqProperties
<1>2. SubSeq(t, 1, k) \o SubSeq(t, k + 1, Len(t)) = t
  <2>1. Len(t) \in Nat
    BY LenProperties
  <2>2. 1 \in 1..Len(t) + 1 /\ k \in (1 - 1)..Len(t) /\ Len(t) \in k..Len(t)
    BY <2>1
  <2>3. SubSeq(t, 1, k) \o SubSeq(t, k + 1, Len(t)) = SubSeq(t, 1, Len(t))
    BY <2>2, ConcatAdjacentSubSeq
  <2> QED
    BY <2>3, SubSeqFull
<1>3. (b \o SubSeq(t, 1, k)) \o SubSeq(t, k + 1, Len(t)) = b \o t
  <2>1. ASSUME NEW x \in Seq(S), NEW y \in Seq(S), x \o y = t
        PROVE  (b \o x) \o y = b \o t
    <3>1. (b \o x) \o y = b \o (x \o y)
      BY ConcatAssociative
    <3> QED
      BY <2>1, <3>1, Zenon
  <2> QED
    BY <1>1, <1>2, <2>1, Zenon
<1> QED
  BY <1>1, <1>3, ConcatProperties

\* A peer that takes a reply off the wire has it.
LEMMA TakeReplyKeepsReplies ==
  ASSUME NEW S, NEW g \in Seq(S), NEW t \in Seq(S), t # <<>>
  PROVE  /\ Append(g, Head(t)) \in Seq(S) /\ Tail(t) \in Seq(S)
         /\ Append(g, Head(t)) \o Tail(t) = g \o t
<1>1. Head(t) \in S /\ Tail(t) \in Seq(S) /\ Len(Tail(t)) = Len(t) - 1 /\ Head(t) = t[1]
      /\ \A i \in 1..Len(Tail(t)) : Tail(t)[i] = t[i + 1]
  BY HeadTailProperties
<1>2. Append(g, Head(t)) \in Seq(S) /\ Len(Append(g, Head(t))) = Len(g) + 1
      /\ \A i \in 1..(Len(g) + 1) :
           Append(g, Head(t))[i] = IF i = Len(g) + 1 THEN Head(t) ELSE g[i]
  BY <1>1, AppendProperties
<1>3. Len(g) \in Nat /\ Len(t) \in Nat /\ Len(t) > 0
  BY LenProperties, EmptySeq
<1> DEFINE new == Append(g, Head(t)) \o Tail(t)
<1>4. new \in Seq(S) /\ Len(new) = Len(g) + Len(t)
      /\ \A i \in 1..(Len(g) + Len(t)) :
           new[i] = IF i <= Len(g) + 1 THEN Append(g, Head(t))[i] ELSE Tail(t)[i - (Len(g) + 1)]
  <2>1. Len(Append(g, Head(t))) + Len(Tail(t)) = Len(g) + Len(t)
    BY <1>1, <1>2, <1>3
  <2> QED
    BY <1>1, <1>2, <2>1, ConcatProperties
<1>5. g \o t \in Seq(S) /\ Len(g \o t) = Len(g) + Len(t)
      /\ \A i \in 1..(Len(g) + Len(t)) :
           (g \o t)[i] = IF i <= Len(g) THEN g[i] ELSE t[i - Len(g)]
  BY ConcatProperties
<1>6. ASSUME NEW i \in 1..(Len(g) + Len(t)) PROVE new[i] = (g \o t)[i]
  <2>1. CASE i <= Len(g)
    <3>1. i \in 1..(Len(g) + 1) /\ i # Len(g) + 1 /\ i <= Len(g) + 1
      BY <1>3, <2>1
    <3> HIDE DEF new
    <3> QED
      BY <1>2, <1>4, <1>5, <2>1, <3>1
  <2>2. CASE i = Len(g) + 1
    <3>1. i \in 1..(Len(g) + 1) /\ i - Len(g) = 1 /\ ~(i <= Len(g)) /\ i <= Len(g) + 1
      BY <1>3, <2>2
    <3> HIDE DEF new
    <3> QED
      BY <1>1, <1>2, <1>4, <1>5, <2>2, <3>1
  <2>3. CASE i > Len(g) + 1
    <3>1. i - (Len(g) + 1) \in 1..Len(Tail(t)) /\ (i - (Len(g) + 1)) + 1 = i - Len(g)
          /\ ~(i <= Len(g)) /\ ~(i <= Len(g) + 1)
      BY <1>1, <1>3, <2>3
    <3>2. Tail(t)[i - (Len(g) + 1)] = t[i - Len(g)]
      BY <1>1, <3>1
    <3> HIDE DEF new
    <3> QED
      BY <1>4, <1>5, <3>1, <3>2
  <2> QED
    BY <1>3, <2>1, <2>2, <2>3
<1> HIDE DEF new
<1>7. new = g \o t
  BY <1>4, <1>5, <1>6, SeqEqual
<1> QED
  BY <1>1, <1>2, <1>7 DEF new

LEMMA FirstPart ==
  ASSUME NEW S, NEW g \in Seq(S), NEW t \in Seq(S), NEW i \in 1..Len(g)
  PROVE  i \in 1..Len(g \o t) /\ (g \o t)[i] = g[i]
<1>1. Len(g) \in Nat /\ Len(t) \in Nat
  BY LenProperties
<1>2. Len(g \o t) = Len(g) + Len(t)
      /\ \A j \in 1..(Len(g) + Len(t)) : (g \o t)[j] = IF j <= Len(g) THEN g[j] ELSE t[j - Len(g)]
  BY ConcatProperties
<1>3. \A m, n \in Nat : \A j \in 1..m : j \in 1..(m + n) /\ j <= m
  OBVIOUS
<1>4. i \in 1..(Len(g) + Len(t)) /\ i <= Len(g)
  BY <1>1, <1>3
<1> QED
  BY <1>2, <1>4

\* What is put on the wire comes last.
LEMMA PutReply ==
  ASSUME NEW S, NEW g \in Seq(S), NEW t \in Seq(S), NEW r \in S
  PROVE  Append(t, r) \in Seq(S) /\ g \o Append(t, r) = Append(g \o t, r)
<1>1. <<r>> \in Seq(S) /\ g \o t \in Seq(S)
  BY ConcatProperties
<1>2. \A s \in Seq(S) : Append(s, r) = s \o <<r>>
  BY AppendIsConcat
<1> QED
  BY <1>1, <1>2, ConcatAssociative, AppendProperties

\* A frame leaves the buffer.
LEMMA ConsumeDropsTwo ==
  ASSUME NEW S, NEW b \in Seq(S), NEW t \in Seq(S), Len(b) >= 2
  PROVE  /\ Consume(b) \in Seq(S)
         /\ Consume(b) \o t \in Seq(S) /\ Len(Consume(b) \o t) = Len(b \o t) - 2
         /\ \A i \in 1..(Len(b \o t) - 2) : (Consume(b) \o t)[i] = (b \o t)[i + 2]
<1>1. Len(b) \in Nat /\ Len(t) \in Nat
  BY LenProperties
<1>2. \A i \in 3..Len(b) : b[i] \in S
  <2>1. \A i \in 1..Len(b) : b[i] \in S
    BY ElementOfSeq
  <2> QED
    BY <1>1, <2>1
<1>3. Consume(b) \in Seq(S)
      /\ Len(Consume(b)) = (IF 3 <= Len(b) THEN Len(b) - 3 + 1 ELSE 0)
      /\ \A i \in 1..(Len(b) - 3 + 1) : Consume(b)[i] = b[3 + i - 1]
  BY <1>1, <1>2, SubSeqProperties DEF Consume
<1>4. Len(Consume(b)) = Len(b) - 2
  <2>1. \A n \in Nat : n >= 2 => (IF 3 <= n THEN n - 3 + 1 ELSE 0) = n - 2
    OBVIOUS
  <2>2. Len(Consume(b)) = (IF 3 <= Len(b) THEN Len(b) - 3 + 1 ELSE 0)
    BY <1>3
  <2> QED
    BY <1>1, <2>1, <2>2
<1>5. b \o t \in Seq(S) /\ Len(b \o t) = Len(b) + Len(t)
      /\ \A i \in 1..(Len(b) + Len(t)) :
           (b \o t)[i] = IF i <= Len(b) THEN b[i] ELSE t[i - Len(b)]
  BY ConcatProperties
<1>6. Consume(b) \o t \in Seq(S) /\ Len(Consume(b) \o t) = Len(Consume(b)) + Len(t)
      /\ \A i \in 1..(Len(Consume(b)) + Len(t)) :
           (Consume(b) \o t)[i] = IF i <= Len(Consume(b)) THEN Consume(b)[i]
                                  ELSE t[i - Len(Consume(b))]
  BY <1>3, ConcatProperties
<1>7. ASSUME NEW i \in 1..(Len(b \o t) - 2) PROVE (Consume(b) \o t)[i] = (b \o t)[i + 2]
  <2>1. i \in 1..(Len(Consume(b)) + Len(t)) /\ i + 2 \in 1..(Len(b) + Len(t))
    BY <1>1, <1>4, <1>5
  <2>2. CASE i <= Len(b) - 2
    <3>1. i \in 1..(Len(b) - 3 + 1) /\ 3 + i - 1 = i + 2 /\ i + 2 <= Len(b)
      BY <1>1, <2>1, <2>2
    <3>2. (Consume(b) \o t)[i] = Consume(b)[i]
      BY <1>4, <1>6, <2>1, <2>2
    <3>3. Consume(b)[i] = b[i + 2]
      BY <1>3, <3>1
    <3>4. (b \o t)[i + 2] = b[i + 2]
      BY <1>5, <2>1, <3>1
    <3> QED
      BY <3>2, <3>3, <3>4
  <2>3. CASE i > Len(b) - 2
    <3>1. ~(i <= Len(b) - 2) /\ ~(i + 2 <= Len(b)) /\ i - (Len(b) - 2) = i + 2 - Len(b)
      BY <1>1, <2>1, <2>3
    <3>2. (Consume(b) \o t)[i] = t[i - (Len(b) - 2)]
      BY <1>4, <1>6, <2>1, <3>1
    <3>3. (b \o t)[i + 2] = t[i + 2 - Len(b)]
      BY <1>5, <2>1, <3>1
    <3> QED
      BY <3>1, <3>2, <3>3
  <2> QED
    BY <1>1, <2>1, <2>2, <2>3
<1> QED
  BY <1>1, <1>3, <1>4, <1>5, <1>6, <1>7

-----------------------------------------------------------------------------
(***************************************************************************)
(* Frames: what is on the wire is what the requests say.                   *)
(***************************************************************************)
ChunksOf(c, j, kind) ==
  IF kind = "Truncated" THEN <<HeaderOf(kind)>> ELSE <<HeaderOf(kind), PayloadOf(c, j, kind)>>

LEMMA KindsDiffer ==
  ASSUME NEW kind \in RequestKinds
  PROVE  /\ FrameTypeOf(kind) = "PushRecords" <=> kind \in PushKinds
         /\ FrameTypeOf(kind) = "BadHeader" <=> kind = "BadHeader"
         /\ FrameTypeOf(kind) = "BadPayload" <=> kind = "BadPayload"
         /\ FrameTypeOf(kind) = "Ping" <=> kind \in {"Ping", "Truncated"}
         /\ FrameTypeOf(kind) = "QueryState" <=> kind = "QueryState"
         /\ FrameTypeOf(kind) = "Shutdown" <=> kind = "Shutdown"
         /\ FrameTypeOf(kind) \in ServerFrames <=> kind \in ServerFrames
BY DEF RequestKinds, FrameTypeOf, PushKinds, ServerFrames, ClientFrames, FrameTypes

\* Send puts the chunks of the next request on the wire.
LEMMA ChunksAre ==
  ASSUME NEW c \in Peers, NEW kind \in RequestKinds
  PROVE  Chunks(c, kind) = ChunksOf(c, Len(sent[c]) + 1, kind)
<1>1. CASE kind = "PushRecords"
  BY <1>1 DEF Chunks, ChunksOf, EncodeFrame, HeaderOf, PayloadOf, ContentOf, FrameTypeOf, PushKinds
<1>2. CASE kind = "PushTooMany"
  BY <1>2 DEF Chunks, ChunksOf, EncodeFrame, HeaderOf, PayloadOf, ContentOf, FrameTypeOf, PushKinds
<1>3. CASE kind = "Truncated"
  <2>1. SubSeq(EncodeFrame("Ping", "empty"), 1, 1) = <<[part |-> "header", type |-> "Ping"]>>
    <3> DEFINE f == EncodeFrame("Ping", "empty")
               S == {f[1], f[2]}
    <3>1. f \in Seq(S) /\ Len(f) = 2 /\ f[1] = [part |-> "header", type |-> "Ping"]
      BY DEF EncodeFrame
    <3> HIDE DEF f
    <3>2. \A i \in 1..1 : f[i] \in S
      OBVIOUS
    <3> HIDE DEF S
    <3>3. /\ SubSeq(f, 1, 1) \in Seq(S) /\ Len(SubSeq(f, 1, 1)) = (IF 1 <= 1 THEN 1 - 1 + 1 ELSE 0)
          /\ \A i \in 1..(1 - 1 + 1) : SubSeq(f, 1, 1)[i] = f[1 + i - 1]
      BY <3>2, SubSeqProperties
    <3>4. /\ SubSeq(f, 1, 1) \in Seq(S) /\ Len(SubSeq(f, 1, 1)) = 1 /\ SubSeq(f, 1, 1)[1] = f[1]
      BY <3>3
    <3>5. <<f[1]>> \in Seq(S) /\ Len(<<f[1]>>) = 1 /\ <<f[1]>>[1] = f[1]
      BY <3>2
    <3>6. SubSeq(f, 1, 1) = <<f[1]>>
      <4>1. ASSUME NEW u \in Seq(S), NEW v \in Seq(S), Len(u) = 1, Len(v) = 1, u[1] = v[1]
            PROVE  u = v
        <5>1. \A i \in 1..Len(u) : u[i] = v[i]
          BY <4>1
        <5> QED
          BY <4>1, <5>1, SeqEqual
      <4> QED
        BY <3>4, <3>5, <4>1
    <3> QED
      BY <3>1, <3>6 DEF f
  <2> QED
    BY <1>3, <2>1 DEF Chunks, ChunksOf, HeaderOf, FrameTypeOf, PushKinds
<1>4. CASE kind \notin {"PushRecords", "PushTooMany", "Truncated"}
  BY <1>4 DEF Chunks, ChunksOf, EncodeFrame, HeaderOf, PayloadOf, ContentOf, FrameTypeOf, PushKinds
<1> QED
  BY <1>1, <1>2, <1>3, <1>4

LEMMA ChunksTyped ==
  ASSUME NEW c \in Peers, NEW j \in Nat, NEW kind \in RequestKinds
  PROVE  /\ ChunksOf(c, j, kind) \in Seq(Wire)
         /\ ChunksOf(c, j, kind)[1] = HeaderOf(kind)
         /\ kind = "Truncated" => Len(ChunksOf(c, j, kind)) = 1
         /\ kind # "Truncated" => /\ Len(ChunksOf(c, j, kind)) = 2
                                  /\ ChunksOf(c, j, kind)[2] = PayloadOf(c, j, kind)
<1>1. HeaderOf(kind) \in Wire /\ PayloadOf(c, j, kind) \in Wire
  BY DEF Wire
<1> QED
  BY <1>1 DEF ChunksOf

\* The next request is aligned too.
LEMMA AlignedSend ==
  ASSUME NEW c \in Peers, NEW requests \in Seq(Requests), NEW data \in Seq(Wire),
         NEW h \in 0..Len(requests), AlignedAt(c, requests, data, h), ~Halved(requests),
         NEW q \in Requests
  PROVE  AlignedAt(c, Append(requests, q), data \o ChunksOf(c, Len(requests) + 1, q.kind), h)
<1> DEFINE more == Append(requests, q)
           n == Len(requests)
           x == ChunksOf(c, n + 1, q.kind)
           kind == q.kind
<1>1. n \in Nat /\ h \in Nat /\ h <= n /\ Len(data) = 2 * (n - h) /\ kind \in RequestKinds
  BY LenProperties DEF AlignedAt, Requests
<1>2. Len(more) = n + 1 /\ more[n + 1] = q /\ \A i \in 1..n : more[i] = requests[i]
  BY <1>1, AppendProperties
<1>3. x \in Seq(Wire) /\ x[1] = HeaderOf(kind) /\ (kind = "Truncated" => Len(x) = 1)
      /\ (kind # "Truncated" => Len(x) = 2 /\ x[2] = PayloadOf(c, n + 1, kind))
  <2>1. n + 1 \in Nat
    BY <1>1
  <2> HIDE DEF n, kind
  <2> QED
    BY <1>1, <2>1, ChunksTyped DEF kind
<1>4. Halved(more) <=> kind = "Truncated"
  BY <1>1, <1>2 DEF Halved
<1>5. Len(data \o x) = Len(data) + Len(x)
      /\ \A i \in 1..(Len(data) + Len(x)) :
           (data \o x)[i] = IF i <= Len(data) THEN data[i] ELSE x[i - Len(data)]
  BY <1>3, ConcatProperties
<1>6. \A j \in 1..(n - h) : /\ 2 * j - 1 <= Len(data) /\ data[2 * j - 1] = HeaderOf(requests[h + j].kind)
                            /\ data[2 * j] = PayloadOf(c, h + j, requests[h + j].kind)
  BY <1>1 DEF AlignedAt
<1> HIDE DEF more, x, n, kind
<1>7. Len(data \o x) = 2 * (Len(more) - h) - (IF Halved(more) THEN 1 ELSE 0)
  <2>0. Len(data \o x) = Len(data) + Len(x) /\ Len(more) = n + 1
    BY <1>2, <1>5
  <2>1. CASE kind = "Truncated"
    <3>1. Len(x) = 1 /\ Halved(more)
      BY <1>3, <1>4, <2>1
    <3> QED
      BY <1>1, <2>0, <3>1
  <2>2. CASE kind # "Truncated"
    <3>1. Len(x) = 2 /\ ~Halved(more)
      BY <1>3, <1>4, <2>2
    <3> QED
      BY <1>1, <2>0, <3>1
  <2> QED
    BY <2>1, <2>2
<1>8. ASSUME NEW j \in 1..(Len(more) - h)
      PROVE  /\ 2 * j - 1 <= Len(data \o x) /\ (data \o x)[2 * j - 1] = HeaderOf(more[h + j].kind)
             /\ 2 * j <= Len(data \o x) => (data \o x)[2 * j] = PayloadOf(c, h + j, more[h + j].kind)
  <2>0. Len(x) \in {1, 2}
    BY <1>3
  <2>1. CASE j <= n - h
    <3>1. j \in 1..(n - h) /\ h + j \in 1..n /\ 2 * j - 1 \in 1..(Len(data) + Len(x))
          /\ 2 * j \in 1..(Len(data) + Len(x)) /\ 2 * j <= Len(data) /\ 2 * j - 1 <= Len(data)
          /\ 2 * j - 1 <= Len(data) + Len(x)
      BY <1>1, <1>2, <2>0, <2>1
    <3>2. (data \o x)[2 * j - 1] = data[2 * j - 1] /\ (data \o x)[2 * j] = data[2 * j]
      BY <1>5, <3>1
    <3>3. more[h + j] = requests[h + j]
      BY <1>2, <3>1
    <3> QED
      BY <1>5, <1>6, <3>1, <3>2, <3>3
  <2>2. CASE j = n - h + 1
    <3>1. h + j = n + 1 /\ 2 * j - 1 = Len(data) + 1 /\ 2 * j = Len(data) + 2
          /\ 2 * j - 1 \in 1..(Len(data) + Len(x)) /\ Len(data) \in Nat
      <4>1. ASSUME NEW l \in Int, NEW m \in Int, l \in {1, 2}, m = 2 * (n - h)
            PROVE  h + j = n + 1 /\ 2 * j - 1 = m + 1 /\ 2 * j = m + 2 /\ 2 * j - 1 \in 1..(m + l)
                   /\ m \in Nat
        BY <1>1, <2>2, <4>1
      <4>2. Len(x) \in Int /\ Len(data) \in Int
        BY <1>1, <2>0
      <4> QED
        BY <1>1, <2>0, <4>1, <4>2
    <3>2. (data \o x)[2 * j - 1] = x[1]
      <4>1. ~(2 * j - 1 <= Len(data)) /\ (2 * j - 1) - Len(data) = 1
        BY <3>1
      <4> QED
        BY <1>5, <3>1, <4>1
    <3>3. ASSUME 2 * j <= Len(data \o x) PROVE (data \o x)[2 * j] = PayloadOf(c, h + j, more[h + j].kind)
      <4>1. Len(x) = 2 /\ kind # "Truncated" /\ 2 * j \in 1..(Len(data) + Len(x))
        BY <1>3, <1>5, <2>0, <3>1, <3>3
      <4>2. ~(2 * j <= Len(data)) /\ 2 * j - Len(data) = 2
        BY <3>1
      <4>3. (data \o x)[2 * j] = x[2]
        BY <1>5, <4>1, <4>2
      <4> QED
        BY <1>2, <1>3, <3>1, <4>1, <4>3 DEF kind
    <3> QED
      BY <1>2, <1>3, <1>5, <2>0, <3>1, <3>2, <3>3 DEF kind
  <2> QED
    BY <1>1, <1>2, <2>1, <2>2
<1> QED
  BY <1>7, <1>8 DEF AlignedAt, more, x, n, kind

\* The start of the unread data is the frame of the first request not taken.
LEMMA FirstFrame ==
  ASSUME NEW c \in Peers, NEW requests \in Seq(Requests), NEW b \in Seq(Wire), NEW t \in Seq(Wire),
         NEW h \in 0..Len(requests), AlignedAt(c, requests, b \o t, h), b # <<>>
  PROVE  /\ h + 1 \in 1..Len(requests) /\ requests[h + 1].kind \in RequestKinds
         /\ Len(b) \in Nat /\ Len(b) >= 1 /\ Len(b \o t) = Len(b) + Len(t) /\ Len(t) \in Nat
         /\ b[1] = HeaderOf(requests[h + 1].kind) /\ Head(b) = b[1]
         /\ Len(b) >= 2 => b[2] = PayloadOf(c, h + 1, requests[h + 1].kind)
<1> DEFINE n == Len(requests)
           d == b \o t
<1>1. n \in Nat /\ Len(b) \in Nat /\ Len(b) >= 1 /\ Len(t) \in Nat
  BY LenProperties, EmptySeq
<1>2. Len(d) = Len(b) + Len(t)
      /\ \A i \in 1..(Len(b) + Len(t)) : d[i] = IF i <= Len(b) THEN b[i] ELSE t[i - Len(b)]
  BY ConcatProperties
<1>3. Len(d) = 2 * (n - h) - (IF Halved(requests) THEN 1 ELSE 0)
      /\ \A j \in 1..(n - h) :
           /\ 2 * j - 1 <= Len(d) /\ d[2 * j - 1] = HeaderOf(requests[h + j].kind)
           /\ 2 * j <= Len(d) => d[2 * j] = PayloadOf(c, h + j, requests[h + j].kind)
  BY DEF AlignedAt
<1> HIDE DEF n, d
<1>4. h + 1 \in 1..n /\ 1 \in 1..(n - h)
  <2>1. Len(d) >= 1 /\ Len(d) <= 2 * (n - h) /\ h \in 0..n
    BY <1>1, <1>2, <1>3 DEF n
  <2> QED
    BY <1>1, <2>1
<1>5. d[1] = HeaderOf(requests[h + 1].kind) /\ (2 <= Len(d) => d[2] = PayloadOf(c, h + 1, requests[h + 1].kind))
  <2>1. 2 * 1 - 1 = 1 /\ 2 * 1 = 2
    OBVIOUS
  <2> QED
    BY <1>3, <1>4, <2>1
<1>6. b[1] = d[1] /\ (Len(b) >= 2 => b[2] = d[2] /\ 2 <= Len(d))
  BY <1>1, <1>2
<1>7. requests[h + 1] \in Requests
  BY <1>4, ElementOfSeq DEF n
<1> QED
  BY <1>1, <1>2, <1>4, <1>5, <1>6, <1>7 DEF n, d, Requests

\* A complete frame is the frame of that request, and leaves the rest aligned.
LEMMA DecodeComplete ==
  ASSUME NEW c \in Peers, NEW requests \in Seq(Requests), NEW b \in Seq(Wire), NEW t \in Seq(Wire),
         NEW h \in 0..Len(requests), AlignedAt(c, requests, b \o t, h),
         \A i \in 1..Len(requests) : requests[i].kind = "Truncated" => i = Len(requests),
         DecodeFrame(b).status = "complete"
  PROVE  /\ h + 1 \in 1..Len(requests)
         /\ requests[h + 1].kind \in RequestKinds \ {"Truncated"}
         /\ DecodeFrame(b).type = FrameTypeOf(requests[h + 1].kind)
         /\ DecodeFrame(b).payload = ContentOf(c, h + 1, requests[h + 1].kind)
         /\ Consume(b) \in Seq(Wire)
         /\ AlignedAt(c, requests, Consume(b) \o t, h + 1)
<1> DEFINE n == Len(requests)
           d == b \o t
           kind == requests[h + 1].kind
           rest == Consume(b) \o t
<1>1. /\ b # <<>> /\ Len(b) # 1
      /\ DecodeFrame(b) = [status |-> "complete", type |-> b[2].type, payload |-> b[2].payload]
  BY DEF DecodeFrame, Incomplete, Corrupt
<1>2. /\ h + 1 \in 1..n /\ kind \in RequestKinds
      /\ Len(b) \in Nat /\ Len(b) >= 1 /\ Len(d) = Len(b) + Len(t) /\ Len(t) \in Nat
      /\ Len(b) >= 2 => b[2] = PayloadOf(c, h + 1, kind)
  BY <1>1, FirstFrame
<1>3. Len(b) >= 2 /\ n \in Nat /\ h \in 0..n
  <2>1. n \in Nat
    BY LenProperties
  <2>2. Len(b) # 1 /\ Len(b) \in Nat /\ Len(b) >= 1
    BY <1>1, <1>2
  <2>3. \A m \in Nat : m # 1 /\ m >= 1 => m >= 2
    OBVIOUS
  <2> QED
    BY <2>1, <2>2, <2>3
<1>4. DecodeFrame(b).type = FrameTypeOf(kind) /\ DecodeFrame(b).payload = ContentOf(c, h + 1, kind)
  BY <1>1, <1>2, <1>3 DEF PayloadOf
<1>5. Len(d) = 2 * (n - h) - (IF Halved(requests) THEN 1 ELSE 0)
      /\ \A j \in 1..(n - h) :
           /\ 2 * j - 1 <= Len(d) /\ d[2 * j - 1] = HeaderOf(requests[h + j].kind)
           /\ 2 * j <= Len(d) => d[2 * j] = PayloadOf(c, h + j, requests[h + j].kind)
  BY DEF AlignedAt
<1>6. /\ Consume(b) \in Seq(Wire) /\ Len(rest) = Len(d) - 2
      /\ \A i \in 1..(Len(d) - 2) : rest[i] = d[i + 2]
  BY <1>3, ConsumeDropsTwo
<1>7. kind # "Truncated"
  <2> SUFFICES ASSUME kind = "Truncated" PROVE FALSE
    OBVIOUS
  <2>1. h + 1 = n
    BY <1>2
  <2>2. Halved(requests)
    BY <1>2, <1>3, <2>1 DEF Halved
  <2> HIDE DEF n, d, kind, rest
  <2>3. Len(d) = 2 * (n - h) - 1 /\ Len(d) >= 2
    BY <1>2, <1>3, <1>5, <2>2
  <2> QED
    BY <1>3, <2>1, <2>3
<1> HIDE DEF n, d, kind, rest
<1>8. Len(rest) = 2 * (n - (h + 1)) - (IF Halved(requests) THEN 1 ELSE 0)
  <2>1. CASE Halved(requests)
    <3>1. Len(d) = 2 * (n - h) - 1 /\ Len(rest) = Len(d) - 2
      BY <1>5, <1>6, <2>1
    <3> QED
      BY <1>3, <2>1, <3>1
  <2>2. CASE ~Halved(requests)
    <3>1. Len(d) = 2 * (n - h) /\ Len(rest) = Len(d) - 2
      BY <1>3, <1>5, <1>6, <2>2
    <3> QED
      BY <1>3, <2>2, <3>1
  <2> QED
    BY <2>1, <2>2
<1>9. ASSUME NEW j \in 1..(n - (h + 1))
      PROVE  /\ 2 * j - 1 <= Len(rest) /\ rest[2 * j - 1] = HeaderOf(requests[(h + 1) + j].kind)
             /\ 2 * j <= Len(rest) => rest[2 * j] = PayloadOf(c, (h + 1) + j, requests[(h + 1) + j].kind)
  <2>1. j + 1 \in 1..(n - h) /\ h + (j + 1) = (h + 1) + j
        /\ 2 * (j + 1) - 1 = (2 * j - 1) + 2 /\ 2 * (j + 1) = 2 * j + 2
    BY <1>3
  <2>2. /\ (2 * j - 1) + 2 <= Len(d) /\ d[(2 * j - 1) + 2] = HeaderOf(requests[(h + 1) + j].kind)
        /\ 2 * j + 2 <= Len(d) => d[2 * j + 2] = PayloadOf(c, (h + 1) + j, requests[(h + 1) + j].kind)
    BY <1>5, <2>1
  <2>3. Len(d) \in Nat /\ Len(rest) = Len(d) - 2
    BY <1>2, <1>6
  <2>4. 2 * j - 1 <= Len(rest) /\ 2 * j - 1 \in 1..(Len(d) - 2)
    BY <2>2, <2>3
  <2>5. 2 * j <= Len(rest) => 2 * j + 2 <= Len(d) /\ 2 * j \in 1..(Len(d) - 2)
    BY <2>3
  <2>6. rest[2 * j - 1] = d[(2 * j - 1) + 2]
    BY <1>6, <2>4
  <2>7. 2 * j <= Len(rest) => rest[2 * j] = d[2 * j + 2]
    BY <1>6, <2>5
  <2> QED
    BY <2>2, <2>4, <2>5, <2>6, <2>7
<1>10. AlignedAt(c, requests, rest, h + 1)
  BY <1>8, <1>9 DEF AlignedAt, n
<1> QED
  BY <1>2, <1>4, <1>6, <1>7, <1>10 DEF n, rest, kind

\* A frame that is refused is the bad frame of that request.
LEMMA DecodeCorrupt ==
  ASSUME NEW c \in Peers, NEW requests \in Seq(Requests), NEW b \in Seq(Wire), NEW t \in Seq(Wire),
         NEW h \in 0..Len(requests), AlignedAt(c, requests, b \o t, h), DecodeFrame(b) = Corrupt
  PROVE  h + 1 \in 1..Len(requests) /\ requests[h + 1].kind \in {"BadHeader", "BadPayload"}
<1>1. b # <<>> /\ Head(b).type \in {"BadHeader", "BadPayload"}
  BY DEF DecodeFrame, Incomplete, Corrupt
<1>2. /\ h + 1 \in 1..Len(requests) /\ requests[h + 1].kind \in RequestKinds
      /\ Head(b) = HeaderOf(requests[h + 1].kind)
  BY <1>1, FirstFrame
<1> QED
  BY <1>1, <1>2, KindsDiffer DEF HeaderOf

-----------------------------------------------------------------------------
(***************************************************************************)
(* Conversations: what each kind of step does to one.                      *)
(***************************************************************************)
\* An answer stays one when more is applied.
LEMMA AnswersMore ==
  ASSUME NEW c, NEW requests, NEW i, NEW r, NEW done, NEW more, done \subseteq more,
         Answers(c, requests, i, r, done)
  PROVE  Answers(c, requests, i, r, more)
BY DEF Answers

LEMMA RepliesMore ==
  ASSUME NEW c, NEW requests, NEW replies, NEW done, NEW more, done \subseteq more,
         RepliesOf(c, requests, replies, done)
  PROVE  RepliesOf(c, requests, replies, more)
BY AnswersMore DEF RepliesOf

LEMMA RequestsMore ==
  ASSUME NEW requests, NEW done, NEW more, done \subseteq more, RequestsOf(requests, done)
  PROVE  RequestsOf(requests, more)
BY DEF RequestsOf

\* Steps that neither take a request nor reply to one: data moves, the peer goes
\* away, the handler moves on, a reply to a peer that is gone is dropped, or the
\* step is another connection's.
LEMMA TalkGoesOn ==
  ASSUME NEW c \in Peers, NEW requests \in Seq(Requests), NEW data, NEW replies \in Seq(Replies),
         NEW where, NEW where2, NEW status, NEW status2, NEW r, NEW r2, NEW done, NEW more,
         NEW closed, NEW closed2,
         TalkOf(c, requests, data, replies, where, status, r, done, closed),
         done \subseteq more, \A j \in Nat : <<c, j>> \in more => <<c, j>> \in done,
         OpenAt(c, where2, closed2) =>
           /\ OpenAt(c, where, closed)
           /\ where2 \in {"reply", "wake"} => where \in {"reply", "wake"} /\ r2 = r
           /\ where2 = "await" => where = "await" /\ r2 = r
           /\ status2 # "over" => status # "over" /\ (where \in Answering => where2 \in Answering)
  PROVE  TalkOf(c, requests, data, replies, where2, status2, r2, more, closed2)
<1>1. ASSUME OpenAt(c, where2, closed2)
      PROVE  \E h \in Nat : TalkAt(c, requests, data, replies, where2, status2, r2, more, h)
  <2>1. PICK h \in Nat : TalkAt(c, requests, data, replies, where, status, r, done, h)
    BY <1>1 DEF TalkOf
  <2>2. h \in 0..Len(requests) /\ AlignedAt(c, requests, data, h)
    BY <2>1 DEF TalkAt
  <2>3. DueAt(c, requests, where2, r2, more, h)
    <3>1. DueAt(c, requests, where, r, done, h)
      BY <2>1 DEF TalkAt
    <3>2. where2 \in {"reply", "wake"} => where \in {"reply", "wake"} /\ r2 = r
      BY <1>1
    <3>3. where2 = "await" => where = "await" /\ r2 = r
      BY <1>1
    <3>4. where2 \in {"reply", "wake"} => h >= 1 /\ Answers(c, requests, h, r2, more)
      BY <3>1, <3>2, AnswersMore DEF DueAt
    <3> QED
      BY <3>1, <3>3, <3>4 DEF DueAt
  <2>4. CountAt(where2, status2, Len(replies), h)
    <3>1. CountAt(where, status, Len(replies), h)
      BY <2>1 DEF TalkAt
    <3>2. where2 \in Answering => where \in Answering
      BY <1>1 DEF Answering
    <3>3. status2 # "over" => status # "over" /\ (where \in Answering => where2 \in Answering)
      BY <1>1
    <3>4. Len(replies) \in Nat
      BY LenProperties
    <3> QED
      BY <3>1, <3>2, <3>3, <3>4 DEF CountAt
  <2>5. AppliedAt(c, where2, more, h)
    <3>1. AppliedAt(c, where, done, h) /\ (where2 = "await" => where = "await")
      BY <1>1, <2>1 DEF TalkAt
    <3> QED
      BY <3>1 DEF AppliedAt
  <2> QED
    BY <2>2, <2>3, <2>4, <2>5 DEF TalkAt
<1>2. RepliesOf(c, requests, replies, more) /\ RequestsOf(requests, more)
  BY RepliesMore, RequestsMore DEF TalkOf
<1> QED
  BY <1>1, <1>2 DEF TalkOf

\* A peer sends a request, having seen acknowledged only what is applied.
LEMMA TalkSends ==
  ASSUME NEW c \in Peers, NEW requests \in Seq(Requests), NEW data \in Seq(Wire),
         NEW replies \in Seq(Replies), NEW where, NEW status, NEW r, NEW done, NEW closed,
         TalkOf(c, requests, data, replies, where, status, r, done, closed),
         NEW q \in Requests, q.known \subseteq done, ~Halved(requests), NEW data2,
         OpenAt(c, where, closed) => data2 = data \o ChunksOf(c, Len(requests) + 1, q.kind)
  PROVE  TalkOf(c, Append(requests, q), data2, replies, where, status, r, done, closed)
<1> DEFINE longer == Append(requests, q)
           n == Len(requests)
<1>1. n \in Nat /\ Len(longer) = n + 1 /\ longer[n + 1] = q
      /\ \A i \in 1..n : longer[i] = requests[i]
  BY LenProperties, AppendProperties
<1> HIDE DEF longer
<1>2. RepliesOf(c, longer, replies, done)
  <2>1. Len(replies) \in Nat /\ Len(replies) <= n
        /\ \A i \in 1..Len(replies) : Answers(c, requests, i, replies[i], done)
    BY LenProperties DEF TalkOf, RepliesOf
  <2>2. \A i \in 1..Len(replies) : longer[i] = requests[i]
    BY <1>1, <2>1
  <2>3. \A i \in 1..Len(replies) : Answers(c, longer, i, replies[i], done)
    BY <2>1, <2>2 DEF Answers
  <2> QED
    BY <1>1, <2>1, <2>3 DEF RepliesOf
<1>3. RequestsOf(longer, done)
  <2>1. \A i \in 1..n : requests[i].known \subseteq done /\ (requests[i].kind = "Truncated" => i = n)
    BY DEF TalkOf, RequestsOf
  <2>2. \A i \in 1..n : requests[i].kind # "Truncated"
    BY <1>1, <2>1 DEF Halved
  <2>3. ASSUME NEW i \in 1..(n + 1)
        PROVE  longer[i].known \subseteq done /\ (longer[i].kind = "Truncated" => i = n + 1)
    <3>1. CASE i = n + 1
      BY <1>1, <3>1
    <3>2. CASE i # n + 1
      <4>1. i \in 1..n
        BY <1>1, <3>2
      <4> QED
        BY <1>1, <2>1, <2>2, <4>1
    <3> QED
      BY <3>1, <3>2
  <2> QED
    BY <1>1, <2>3 DEF RequestsOf
<1>4. ASSUME OpenAt(c, where, closed)
      PROVE  \E h \in Nat : TalkAt(c, longer, data2, replies, where, status, r, done, h)
  <2>1. PICK h \in Nat : TalkAt(c, requests, data, replies, where, status, r, done, h)
    BY <1>4 DEF TalkOf
  <2>2. h \in 0..n /\ h \in 0..Len(longer)
    BY <1>1, <2>1 DEF TalkAt
  <2>3. AlignedAt(c, longer, data2, h)
    BY <1>4, <2>1, <2>2, AlignedSend DEF TalkAt, longer
  <2>4. DueAt(c, longer, where, r, done, h)
    <3>1. DueAt(c, requests, where, r, done, h)
      BY <2>1 DEF TalkAt
    <3>2. h >= 1 => longer[h] = requests[h]
      BY <1>1, <2>2
    <3> QED
      BY <3>1, <3>2 DEF DueAt, Answers
  <2> QED
    BY <2>1, <2>2, <2>3, <2>4 DEF TalkAt
<1> QED
  BY <1>2, <1>3, <1>4 DEF TalkOf, longer

\* A handler takes a request and will answer it.
LEMMA TalkTakes ==
  ASSUME NEW c \in Peers, NEW requests \in Seq(Requests), NEW b \in Seq(Wire), NEW t \in Seq(Wire),
         NEW replies \in Seq(Replies), NEW where \in Answering, NEW status, NEW r, NEW r2, NEW done,
         NEW closed, TalkOf(c, requests, b \o t, replies, "decode", status, r, done, closed),
         DecodeFrame(b).status = "complete",
         \A i \in 1..Len(requests) :
           /\ requests[i].kind \in RequestKinds \ {"Truncated"}
           /\ DecodeFrame(b).type = FrameTypeOf(requests[i].kind)
           /\ DecodeFrame(b).payload = ContentOf(c, i, requests[i].kind)
           => DueAt(c, requests, where, r2, done, i)
  PROVE  /\ Consume(b) \in Seq(Wire)
         /\ TalkOf(c, requests, Consume(b) \o t, replies, where, status, r2, done, closed)
<1>1. PICK h \in Nat : TalkAt(c, requests, b \o t, replies, "decode", status, r, done, h)
  BY DEF TalkOf, OpenAt, Working
<1>2. h \in 0..Len(requests) /\ AlignedAt(c, requests, b \o t, h)
  BY <1>1 DEF TalkAt
<1>3. \A i \in 1..Len(requests) : requests[i].kind = "Truncated" => i = Len(requests)
  BY DEF TalkOf, RequestsOf
<1>4. /\ h + 1 \in 1..Len(requests)
      /\ requests[h + 1].kind \in RequestKinds \ {"Truncated"}
      /\ DecodeFrame(b).type = FrameTypeOf(requests[h + 1].kind)
      /\ DecodeFrame(b).payload = ContentOf(c, h + 1, requests[h + 1].kind)
      /\ Consume(b) \in Seq(Wire)
      /\ AlignedAt(c, requests, Consume(b) \o t, h + 1)
  BY <1>2, <1>3, DecodeComplete
<1>5. DueAt(c, requests, where, r2, done, h + 1)
  BY <1>4
<1>6. CountAt(where, status, Len(replies), h + 1)
  <2>1. CountAt("decode", status, Len(replies), h) /\ Len(replies) \in Nat
    BY <1>1, LenProperties DEF TalkAt
  <2>2. Len(replies) <= h /\ (status # "over" => Len(replies) = h)
    BY <2>1 DEF CountAt, Answering
  <2> QED
    BY <2>1, <2>2 DEF CountAt
<1>7. AppliedAt(c, where, done, h + 1)
  <2>1. \A j \in Nat : <<c, j>> \in done => j <= h
    BY <1>1 DEF TalkAt, AppliedAt
  <2>2. \A j \in Nat : j <= h => j <= h + 1 /\ j # h + 1
    OBVIOUS
  <2> QED
    BY <2>1, <2>2, Zenon DEF AppliedAt
<1>8. h + 1 \in Nat /\ h + 1 \in 0..Len(requests)
  BY <1>4
<1>9. TalkAt(c, requests, Consume(b) \o t, replies, where, status, r2, done, h + 1)
  BY <1>4, <1>5, <1>6, <1>7, <1>8 DEF TalkAt
<1> QED
  BY <1>4, <1>8, <1>9 DEF TalkOf

\* A reply takes its place after the replies before it.
LEMMA OneMoreReply ==
  ASSUME NEW c, NEW requests \in Seq(Requests), NEW replies \in Seq(Replies), NEW done,
         RepliesOf(c, requests, replies, done), NEW r \in Replies,
         Len(replies) + 1 <= Len(requests), Answers(c, requests, Len(replies) + 1, r, done)
  PROVE  RepliesOf(c, requests, Append(replies, r), done)
<1> DEFINE longer == Append(replies, r)
           n == Len(replies)
<1>1. n \in Nat /\ Len(longer) = n + 1 /\ longer[n + 1] = r
      /\ \A i \in 1..n : longer[i] = replies[i]
  BY LenProperties, AppendProperties
<1> HIDE DEF longer
<1>2. \A i \in 1..n : Answers(c, requests, i, replies[i], done)
  BY DEF RepliesOf
<1>3. ASSUME NEW i \in 1..(n + 1) PROVE Answers(c, requests, i, longer[i], done)
  <2>1. CASE i = n + 1
    BY <1>1, <2>1
  <2>2. CASE i # n + 1
    <3>1. i \in 1..n
      BY <1>1, <2>2
    <3> QED
      BY <1>1, <1>2, <3>1
  <2> QED
    BY <2>1, <2>2
<1> QED
  BY <1>1, <1>3 DEF RepliesOf, longer

\* A handler sends its reply to a peer that is still there.
LEMMA TalkReplies ==
  ASSUME NEW c \in Peers, NEW requests \in Seq(Requests), NEW data, NEW replies \in Seq(Replies),
         NEW where, where \notin Answering, NEW status, status # "over", NEW r \in Replies, NEW r2,
         NEW done, NEW closed,
         TalkOf(c, requests, data, replies, "reply", status, r, done, closed)
  PROVE  TalkOf(c, requests, data, Append(replies, r), where, status, r2, done, closed)
<1>1. PICK h \in Nat : TalkAt(c, requests, data, replies, "reply", status, r, done, h)
  BY DEF TalkOf, OpenAt, Working
<1>2. Len(replies) \in Nat /\ Len(Append(replies, r)) = Len(replies) + 1
  BY LenProperties, AppendProperties
<1>3. h \in 0..Len(requests) /\ Len(replies) + 1 = h
  <2>1. CountAt("reply", status, Len(replies), h)
    BY <1>1 DEF TalkAt
  <2> QED
    BY <1>1, <2>1 DEF TalkAt, CountAt, Answering
<1>4. Answers(c, requests, h, r, done)
  BY <1>1 DEF TalkAt, DueAt
<1>5. RepliesOf(c, requests, Append(replies, r), done)
  <2>1. RepliesOf(c, requests, replies, done)
    BY DEF TalkOf
  <2>2. Len(replies) + 1 <= Len(requests)
    BY <1>3, LenProperties
  <2>3. Answers(c, requests, Len(replies) + 1, r, done)
    BY <1>3, <1>4
  <2> QED
    BY <2>1, <2>2, <2>3, OneMoreReply
<1>6. DueAt(c, requests, where, r2, done, h) /\ AppliedAt(c, where, done, h)
  BY <1>1 DEF TalkAt, DueAt, AppliedAt, Answering
<1>7. CountAt(where, status, Len(Append(replies, r)), h)
  BY <1>2, <1>3 DEF CountAt
<1>8. TalkAt(c, requests, data, Append(replies, r), where, status, r2, done, h)
  BY <1>1, <1>6, <1>7 DEF TalkAt
<1> QED
  BY <1>5, <1>8 DEF TalkOf

\* A handler refuses a frame and closes.
LEMMA TalkRefuses ==
  ASSUME NEW c \in Peers, NEW requests \in Seq(Requests), NEW b \in Seq(Wire), NEW t \in Seq(Wire),
         NEW replies \in Seq(Replies), NEW status, status # "over", NEW r, NEW done, NEW closed,
         TalkOf(c, requests, b \o t, replies, "decode", status, r, done, closed),
         DecodeFrame(b) = Corrupt
  PROVE  TalkOf(c, requests, b \o t, Append(replies, [type |-> "ErrorReport"]), "close", status, r,
                done, closed)
<1>1. PICK h \in Nat : TalkAt(c, requests, b \o t, replies, "decode", status, r, done, h)
  BY DEF TalkOf, OpenAt, Working
<1>2. h \in 0..Len(requests) /\ AlignedAt(c, requests, b \o t, h)
  BY <1>1 DEF TalkAt
<1>3. h + 1 \in 1..Len(requests) /\ requests[h + 1].kind \in {"BadHeader", "BadPayload"}
  BY <1>2, DecodeCorrupt
<1>4. Len(replies) = h
  <2>1. CountAt("decode", status, Len(replies), h) /\ Len(replies) \in Nat
    BY <1>1, LenProperties DEF TalkAt
  <2> QED
    BY <2>1 DEF CountAt, Answering
<1> DEFINE e == [type |-> "ErrorReport"]
<1>5. e.type = "ErrorReport" /\ e \in Replies
  BY DEF Replies
<1>6. Answers(c, requests, h + 1, e, done)
  <2>1. "ErrorReport" \in ReplyTypes(requests[h + 1].kind)
    BY <1>3 DEF ReplyTypes
  <2> QED
    BY <1>5, <2>1 DEF Answers
<1> HIDE DEF e
<1>7. RepliesOf(c, requests, Append(replies, e), done)
  <2>1. RepliesOf(c, requests, replies, done)
    BY DEF TalkOf
  <2>2. Len(replies) + 1 <= Len(requests)
    BY <1>3, <1>4, LenProperties
  <2> QED
    BY <1>4, <1>5, <1>6, <2>1, <2>2, OneMoreReply
<1>8. ~OpenAt(c, "close", closed) /\ RequestsOf(requests, done)
  BY DEF OpenAt, Working, TalkOf
<1> QED
  BY <1>7, <1>8 DEF TalkOf, e

\* The observatory applies a push and signals its completion.
LEMMA TalkApplies ==
  ASSUME NEW c \in Peers, NEW requests \in Seq(Requests), NEW data, NEW replies \in Seq(Replies),
         NEW status, NEW r, NEW done, NEW closed,
         TalkOf(c, requests, data, replies, "await", status, r, done, closed)
  PROVE  TalkOf(c, requests, data, replies, "reply", status, r, done \cup {r.push}, closed)
<1>1. PICK h \in Nat : TalkAt(c, requests, data, replies, "await", status, r, done, h)
  BY DEF TalkOf, OpenAt, Working
<1>2. h >= 1 /\ requests[h].kind = "PushRecords" /\ r.type = "PushAck" /\ r.push = <<c, h>>
  BY <1>1 DEF TalkAt, DueAt
<1>3. r.push \notin done /\ \A j \in Nat : <<c, j>> \in done => j <= h
  BY <1>1, <1>2 DEF TalkAt, AppliedAt
<1>4. Answers(c, requests, h, r, done \cup {r.push})
  <2>1. r.type \in ReplyTypes(requests[h].kind)
    BY <1>2 DEF ReplyTypes
  <2>2. <<c, h>> \in done \cup {r.push}
    BY <1>2
  <2> QED
    BY <1>2, <2>1, <2>2 DEF Answers
<1>5. DueAt(c, requests, "reply", r, done \cup {r.push}, h)
  BY <1>2, <1>4 DEF DueAt
<1>6. AppliedAt(c, "reply", done \cup {r.push}, h)
  BY <1>2, <1>3 DEF AppliedAt
<1>7. CountAt("reply", status, Len(replies), h)
  BY <1>1 DEF TalkAt, CountAt, Answering
<1>8. TalkAt(c, requests, data, replies, "reply", status, r, done \cup {r.push}, h)
  BY <1>1, <1>5, <1>6, <1>7 DEF TalkAt
<1>9. RepliesOf(c, requests, replies, done \cup {r.push}) /\ RequestsOf(requests, done \cup {r.push})
  BY RepliesMore, RequestsMore DEF TalkOf
<1>10. TalkOf(c, requests, data, replies, "reply", status, r, done \cup {r.push}, closed)
  BY <1>8, <1>9 DEF TalkOf
<1> QED
  BY <1>10

-----------------------------------------------------------------------------
(***************************************************************************)
(* Steps: connections and threads.                                         *)
(***************************************************************************)
\* What the backlog holds after a connection was queued.
LEMMA QueuedLast ==
  ASSUME NEW S, NEW q \in Seq(S), NEW e \in S
  PROVE  /\ Append(q, e) \in Seq(S)
         /\ \A i \in 1..Len(Append(q, e)) :
              \/ i \in 1..Len(q) /\ Append(q, e)[i] = q[i]
              \/ i = Len(q) + 1 /\ Append(q, e)[i] = e
BY AppendProperties, LenProperties

\* What it holds after one was accepted.
LEMMA QueueTail ==
  ASSUME NEW S, NEW q \in Seq(S), q # <<>>
  PROVE  /\ Tail(q) \in Seq(S) /\ Head(q) = q[1] /\ Head(q) \in S /\ 1 \in 1..Len(q)
         /\ \A i \in 1..Len(Tail(q)) : i + 1 \in 1..Len(q) /\ i + 1 # 1 /\ Tail(q)[i] = q[i + 1]
<1>1. Len(q) \in Nat /\ Len(q) > 0
  BY LenProperties, EmptySeq
<1>2. Head(q) = q[1] /\ Head(q) \in S /\ Tail(q) \in Seq(S) /\ Len(Tail(q)) = Len(q) - 1
      /\ \A i \in 1..Len(Tail(q)) : Tail(q)[i] = q[i + 1]
  BY HeadTailProperties
<1> QED
  BY <1>1, <1>2

\* The wake-up connection is queued only after the stop.
LEMMA WakeKeepsQueue ==
  ASSUME TypeOK, WokenInv, QueueInv, stop, WakeAcceptLoop
  PROVE  /\ backlog' \in Seq(Peers \cup {Wake})
         /\ \A i \in 1..Len(backlog') :
              \/ i \in 1..Len(backlog) /\ backlog'[i] = backlog[i]
              \/ backlog'[i] = Wake
<1>1. backlog \in Seq(Peers \cup {Wake})
  BY DEF TypeOK, LoopTypes
<1>2. CASE backlog' = backlog
  BY <1>1, <1>2
<1>3. CASE backlog' = Append(backlog, Wake)
  <2>1. Wake \in Peers \cup {Wake}
    OBVIOUS
  <2>2. /\ Append(backlog, Wake) \in Seq(Peers \cup {Wake})
        /\ \A i \in 1..Len(Append(backlog, Wake)) :
              \/ i \in 1..Len(backlog) /\ Append(backlog, Wake)[i] = backlog[i]
              \/ i = Len(backlog) + 1 /\ Append(backlog, Wake)[i] = Wake
    BY <1>1, <2>1, QueuedLast
  <2> QED
    BY <1>3, <2>2
<1> QED
  BY <1>2, <1>3 DEF WakeAcceptLoop

\* A handler thread moves on, perhaps waking the accept loop.
LEMMA HandlerMoves ==
  ASSUME TypeOK, ConnectionInv, NEW c \in Peers, NEW w,
         pc[c] \notin {"none", "ended"}, pc' = [pc EXCEPT ![c] = w], w # "none",
         w \in Working => pc[c] \in Working, w = "wake" => stop', stop => stop',
         backlog' = backlog \/ (stop /\ WakeAcceptLoop),
         UNCHANGED <<peer, loop, threads, saved, owner>>,
         shut' = shut \/ (shut' = shut \cup {c} /\ w \notin Working)
  PROVE  ConnectionInv'
<1>1. pc \in [Peers -> Working \cup {"none", "close", "leave", "ended"}]
  BY DEF TypeOK, HandlerTypes
<1>2. pc'[c] = w /\ \A x \in Peers : x # c => pc'[x] = pc[x]
  BY <1>1
<1>3. \A i \in 1..Len(backlog') :
        \/ i \in 1..Len(backlog) /\ backlog'[i] = backlog[i]
        \/ stop /\ backlog'[i] = Wake
  BY WakeKeepsQueue DEF ConnectionInv
<1>4. c \in threads /\ loop \notin {"persist", "returned", "failed", "gone"}
  BY DEF ConnectionInv, ThreadInv
<1>5. WokenInv'
  <2>1. \A i \in 1..Len(backlog') : backlog'[i] = Wake => stop'
    BY <1>3 DEF ConnectionInv, WokenInv
  <2>2. \A x \in Peers : pc'[x] = "wake" => stop'
    BY <1>2 DEF ConnectionInv, WokenInv
  <2> QED
    BY <2>1, <2>2 DEF ConnectionInv, WokenInv
<1>6. \A i \in 1..Len(backlog) : backlog[i] \in Peers \cup {Wake}
  BY ElementOfSeq DEF TypeOK, LoopTypes
<1>7. QueueInv'
  <2>1. ASSUME NEW i \in 1..Len(backlog'), backlog'[i] # Wake
        PROVE  pc'[backlog'[i]] = "none" /\ peer'[backlog'[i]] # "out" /\ backlog'[i] \notin shut'
    <3>1. i \in 1..Len(backlog) /\ backlog'[i] = backlog[i]
      BY <1>3, <2>1
    <3>2. pc[backlog[i]] = "none" /\ peer[backlog[i]] # "out" /\ backlog[i] \notin shut
      BY <2>1, <3>1 DEF ConnectionInv, QueueInv
    <3>3. backlog[i] \in Peers /\ backlog[i] # c
      BY <1>6, <2>1, <3>1, <3>2
    <3> QED
      BY <1>2, <3>1, <3>2, <3>3
  <2>2. ASSUME NEW i \in 1..Len(backlog'), NEW j \in 1..Len(backlog'),
               backlog'[i] = backlog'[j], backlog'[i] # Wake
        PROVE  i = j
    <3>1. i \in 1..Len(backlog) /\ backlog'[i] = backlog[i]
      BY <1>3, <2>2
    <3>2. j \in 1..Len(backlog) /\ backlog'[j] = backlog[j]
      BY <1>3, <2>2
    <3> QED
      BY <2>2, <3>1, <3>2 DEF ConnectionInv, QueueInv
  <2> QED
    BY <2>1, <2>2 DEF QueueInv
<1>8. OutInv'
  BY <1>2 DEF ConnectionInv, OutInv
<1>9. ThreadInv'
  BY <1>2, <1>4 DEF ConnectionInv, ThreadInv
<1>10. SaveInv'
  BY <1>4 DEF ConnectionInv, SaveInv, SavedAt
<1> QED
  BY <1>5, <1>7, <1>8, <1>9, <1>10 DEF ConnectionInv

-----------------------------------------------------------------------------
(***************************************************************************)
(* Steps: handlers.                                                        *)
(***************************************************************************)
SameFor(x) ==
  /\ sent'[x] = sent[x] /\ got'[x] = got[x] /\ toServer'[x] = toServer[x]
  /\ toPeer'[x] = toPeer[x] /\ pc'[x] = pc[x] /\ buffer'[x] = buffer[x]
  /\ reply'[x] = reply[x] /\ peer'[x] = peer[x] /\ (x \in shut => x \in shut')

\* The types of what a conversation is said of.
LEMMA TalkTypes ==
  ASSUME TypeOK, NEW x \in Peers
  PROVE  /\ sent[x] \in Seq(Requests) /\ got[x] \in Seq(Replies) /\ toPeer[x] \in Seq(Replies)
         /\ buffer[x] \in Seq(Wire) /\ toServer[x] \in Seq(Wire)
         /\ got[x] \o toPeer[x] \in Seq(Replies) /\ buffer[x] \o toServer[x] \in Seq(Wire)
<1>1. /\ sent[x] \in Seq(Requests) /\ got[x] \in Seq(Replies) /\ toPeer[x] \in Seq(Replies)
      /\ buffer[x] \in Seq(Wire) /\ toServer[x] \in Seq(Wire)
  BY DEF TypeOK, PeerTypes, WireTypes
<1> QED
  BY <1>1, ConcatProperties

\* The conversation of another connection is not disturbed.
LEMMA OtherTalk ==
  ASSUME TypeOK, NEW x \in Peers, Talk(x), SameFor(x),
         applied \subseteq applied', \A j \in Nat : <<x, j>> \in applied' => <<x, j>> \in applied
  PROVE  Talk(x)'
<1>1. sent[x] \in Seq(Requests) /\ got[x] \o toPeer[x] \in Seq(Replies)
  BY TalkTypes
<1>2. OpenAt(x, pc'[x], shut') => OpenAt(x, pc[x], shut)
  BY DEF SameFor, OpenAt
<1>3. TalkOf(x, sent[x], buffer[x] \o toServer[x], got[x] \o toPeer[x], pc'[x], peer'[x],
             reply'[x], applied', shut')
  <2>1. TalkOf(x, sent[x], buffer[x] \o toServer[x], got[x] \o toPeer[x], pc[x], peer[x],
               reply[x], applied, shut)
    BY DEF Talk
  <2>2. pc'[x] = pc[x] /\ peer'[x] = peer[x] /\ reply'[x] = reply[x]
    BY DEF SameFor
  <2> QED
    BY <1>1, <1>2, <2>1, <2>2, TalkGoesOn
<1> QED
  BY <1>3 DEF Talk, SameFor

LEMMA OtherTalks ==
  ASSUME TypeOK, TalkInv, NEW c \in Peers, Talk(c)',
         \A x \in Peers \ {c} : SameFor(x), applied' = applied
  PROVE  \A x \in Peers : Talk(x)'
BY OtherTalk DEF TalkInv

LEMMA AppliedKept ==
  ASSUME AppliedInv, UNCHANGED <<sent, applied>>
  PROVE  AppliedInv'
BY DEF AppliedInv

\* The request a complete frame in the buffer was.
LEMMA TakenRequest ==
  ASSUME TypeOK, NEW c \in Peers, Talk(c), pc[c] = "decode", Decoded(c).status = "complete"
  PROVE  \E i \in 1..Len(sent[c]) :
           /\ sent[c][i].kind \in RequestKinds \ {"Truncated"}
           /\ Decoded(c).type = FrameTypeOf(sent[c][i].kind)
           /\ Decoded(c).payload = ContentOf(c, i, sent[c][i].kind)
<1>1. PICK h \in Nat : TalkAt(c, sent[c], buffer[c] \o toServer[c], got[c] \o toPeer[c], "decode",
                              peer[c], reply[c], applied, h)
  BY DEF Talk, TalkOf, OpenAt, Working
<1>2. \A i \in 1..Len(sent[c]) : sent[c][i].kind = "Truncated" => i = Len(sent[c])
  BY DEF Talk, TalkOf, RequestsOf
<1>3. h \in 0..Len(sent[c]) /\ AlignedAt(c, sent[c], buffer[c] \o toServer[c], h)
  BY <1>1 DEF TalkAt
<1>4. sent[c] \in Seq(Requests) /\ buffer[c] \in Seq(Wire) /\ toServer[c] \in Seq(Wire)
  BY TalkTypes
<1>5. /\ h + 1 \in 1..Len(sent[c])
      /\ sent[c][h + 1].kind \in RequestKinds \ {"Truncated"}
      /\ Decoded(c).type = FrameTypeOf(sent[c][h + 1].kind)
      /\ Decoded(c).payload = ContentOf(c, h + 1, sent[c][h + 1].kind)
  BY <1>2, <1>3, <1>4, DecodeComplete DEF Decoded
<1> QED
  BY <1>5

(***************************************************************************)
(* Taking a request: what the five handlers have in common.                *)
(***************************************************************************)
LEMMA TakeStep ==
  ASSUME TransportInv, NEW c \in Peers, NEW types, Take(c, types),
         NEW w \in Answering, NEW r \in Replies,
         reply' = [reply EXCEPT ![c] = r], pc' = [pc EXCEPT ![c] = w],
         \A i \in 1..Len(sent[c]) :
           /\ sent[c][i].kind \in RequestKinds \ {"Truncated"}
           /\ Decoded(c).type = FrameTypeOf(sent[c][i].kind)
           /\ Decoded(c).payload = ContentOf(c, i, sent[c][i].kind)
           => DueAt(c, sent[c], w, r, applied, i),
         w = "wake" => stop', stop => stop', stop' \in BOOLEAN,
         UNCHANGED <<peerVars, wireVars, shut, loopVars, backlog, owner, applied>>
  PROVE  TransportInv'
<1>1. TypeOK /\ ConnectionInv /\ AppliedInv /\ TalkInv /\ Talk(c)
  BY DEF TransportInv, TalkInv
<1>2. pc[c] = "decode" /\ Decoded(c).status = "complete"
      /\ buffer' = [buffer EXCEPT ![c] = Consume(buffer[c])]
  BY DEF Take
<1>3. /\ sent[c] \in Seq(Requests) /\ buffer[c] \in Seq(Wire) /\ toServer[c] \in Seq(Wire)
      /\ got[c] \o toPeer[c] \in Seq(Replies)
  BY <1>1, TalkTypes
<1>4. /\ Consume(buffer[c]) \in Seq(Wire)
      /\ TalkOf(c, sent[c], Consume(buffer[c]) \o toServer[c], got[c] \o toPeer[c], w, peer[c], r,
                applied, shut)
  <2>1. TalkOf(c, sent[c], buffer[c] \o toServer[c], got[c] \o toPeer[c], "decode", peer[c],
               reply[c], applied, shut)
    BY <1>1, <1>2 DEF Talk
  <2> QED
    BY <1>2, <1>3, <2>1, TalkTakes DEF Decoded
<1>5. TypeOK'
  <2>1. PeerTypes'
    BY <1>1 DEF TypeOK, PeerTypes, peerVars, wireVars
  <2>2. WireTypes'
    BY <1>1, <1>2, <1>4 DEF TypeOK, WireTypes, wireVars
  <2>3. HandlerTypes'
    BY <1>1 DEF TypeOK, HandlerTypes, Answering, Working
  <2>4. LoopTypes'
    BY <1>1 DEF TypeOK, LoopTypes, loopVars
  <2> QED
    BY <2>1, <2>2, <2>3, <2>4 DEF TypeOK
<1>6. ConnectionInv'
  <2>1. /\ pc[c] \notin {"none", "ended"} /\ pc[c] \in Working /\ w # "none"
        /\ UNCHANGED <<peer, loop, threads, saved, owner, backlog, shut>>
    BY <1>2 DEF Answering, Working, peerVars, loopVars
  <2> QED
    BY <1>1, <2>1, HandlerMoves
<1>7. pc'[c] = w /\ reply'[c] = r /\ buffer'[c] = Consume(buffer[c])
  BY <1>1, <1>2 DEF TypeOK, HandlerTypes, WireTypes
<1>8. Talk(c)'
  BY <1>4, <1>7 DEF Talk, peerVars, wireVars
<1>9. \A x \in Peers \ {c} : SameFor(x)
  BY <1>1, <1>2 DEF SameFor, peerVars, wireVars, TypeOK, HandlerTypes, WireTypes
<1>10. TalkInv'
  BY <1>1, <1>8, <1>9, OtherTalks, AppliedKept DEF TalkInv, peerVars
<1> QED
  BY <1>5, <1>6, <1>10 DEF TransportInv

LEMMA HandlePingStep ==
  ASSUME TransportInv, NEW c \in Peers, HandlePing(c)
  PROVE  TransportInv'
<1> DEFINE r == [type |-> "Pong"]
<1>1. /\ Take(c, {"Ping"}) /\ Decoded(c).type = "Ping" /\ reply' = [reply EXCEPT ![c] = r]
      /\ pc' = [pc EXCEPT ![c] = "reply"]
      /\ UNCHANGED <<peerVars, wireVars, shut, loopVars, backlog, stop, owner, applied>>
  BY DEF HandlePing, Take, Respond, Goto
<1>2. r \in Replies /\ r.type = "Pong"
  BY DEF Replies
<1> HIDE DEF r
<1>3. ASSUME NEW i \in 1..Len(sent[c]), sent[c][i].kind \in RequestKinds \ {"Truncated"},
             Decoded(c).type = FrameTypeOf(sent[c][i].kind)
      PROVE  DueAt(c, sent[c], "reply", r, applied, i)
  <2>1. sent[c][i].kind = "Ping"
    BY <1>1, <1>3, KindsDiffer
  <2> QED
    BY <1>2, <2>1 DEF DueAt, Answers, ReplyTypes
<1>4. stop' \in BOOLEAN /\ (stop => stop') /\ "reply" # "wake" /\ "reply" \in Answering
  BY <1>1 DEF TransportInv, TypeOK, LoopTypes, Answering
<1> QED
  BY <1>1, <1>2, <1>3, <1>4, TakeStep

LEMMA HandleServerFrameStep ==
  ASSUME TransportInv, NEW c \in Peers, HandleServerFrame(c)
  PROVE  TransportInv'
<1> DEFINE r == [type |-> "ErrorReport"]
<1>1. /\ Take(c, ServerFrames) /\ Decoded(c).type \in ServerFrames
      /\ reply' = [reply EXCEPT ![c] = r] /\ pc' = [pc EXCEPT ![c] = "reply"]
      /\ UNCHANGED <<peerVars, wireVars, shut, loopVars, backlog, stop, owner, applied>>
  BY DEF HandleServerFrame, Take, Respond, Goto
<1>2. r \in Replies /\ r.type = "ErrorReport"
  BY DEF Replies
<1> HIDE DEF r
<1>3. ASSUME NEW i \in 1..Len(sent[c]), sent[c][i].kind \in RequestKinds \ {"Truncated"},
             Decoded(c).type = FrameTypeOf(sent[c][i].kind)
      PROVE  DueAt(c, sent[c], "reply", r, applied, i)
  <2>1. sent[c][i].kind \in ServerFrames
    BY <1>1, <1>3, KindsDiffer
  <2>2. "ErrorReport" \in ReplyTypes(sent[c][i].kind)
    BY <2>1 DEF ReplyTypes, ServerFrames
  <2> QED
    BY <1>2, <2>2 DEF DueAt, Answers
<1>4. stop' \in BOOLEAN /\ (stop => stop') /\ "reply" # "wake" /\ "reply" \in Answering
  BY <1>1 DEF TransportInv, TypeOK, LoopTypes, Answering
<1> QED
  BY <1>1, <1>2, <1>3, <1>4, TakeStep

\* A report shows at least what peers had seen acknowledged when they asked.
LEMMA HandleQueryStep ==
  ASSUME TransportInv, NEW c \in Peers, HandleQuery(c)
  PROVE  TransportInv'
<1> DEFINE r == [type |-> "StateReport", shows |-> applied]
<1>1. /\ Take(c, {"QueryState"}) /\ Decoded(c).type = "QueryState"
      /\ reply' = [reply EXCEPT ![c] = r] /\ pc' = [pc EXCEPT ![c] = "reply"]
      /\ UNCHANGED <<peerVars, wireVars, shut, loopVars, backlog, stop, owner, applied>>
  BY DEF HandleQuery, Take, Respond, Goto
<1>2. r \in Replies /\ r.type = "StateReport" /\ r.shows = applied
  BY DEF Replies, TransportInv, TypeOK, LoopTypes
<1> HIDE DEF r
<1>3. ASSUME NEW i \in 1..Len(sent[c]), sent[c][i].kind \in RequestKinds \ {"Truncated"},
             Decoded(c).type = FrameTypeOf(sent[c][i].kind)
      PROVE  DueAt(c, sent[c], "reply", r, applied, i)
  <2>1. sent[c][i].kind = "QueryState"
    BY <1>1, <1>3, KindsDiffer
  <2>2. sent[c][i].known \subseteq applied
    BY DEF TransportInv, TalkInv, Talk, TalkOf, RequestsOf
  <2> QED
    BY <1>2, <2>1, <2>2 DEF DueAt, Answers, ReplyTypes
<1>4. stop' \in BOOLEAN /\ (stop => stop') /\ "reply" # "wake" /\ "reply" \in Answering
  BY <1>1 DEF TransportInv, TypeOK, LoopTypes, Answering
<1> QED
  BY <1>1, <1>2, <1>3, <1>4, TakeStep

LEMMA HandleShutdownStep ==
  ASSUME TransportInv, NEW c \in Peers, HandleShutdown(c)
  PROVE  TransportInv'
<1> DEFINE r == [type |-> "Pong"]
<1>1. /\ Take(c, {"Shutdown"}) /\ Decoded(c).type = "Shutdown" /\ reply' = [reply EXCEPT ![c] = r]
      /\ pc' = [pc EXCEPT ![c] = "wake"] /\ stop' = TRUE
      /\ UNCHANGED <<peerVars, wireVars, shut, loopVars, backlog, owner, applied>>
  BY DEF HandleShutdown, Take, Goto
<1>2. r \in Replies /\ r.type = "Pong"
  BY DEF Replies
<1> HIDE DEF r
<1>3. ASSUME NEW i \in 1..Len(sent[c]), sent[c][i].kind \in RequestKinds \ {"Truncated"},
             Decoded(c).type = FrameTypeOf(sent[c][i].kind)
      PROVE  DueAt(c, sent[c], "wake", r, applied, i)
  <2>1. sent[c][i].kind = "Shutdown"
    BY <1>1, <1>3, KindsDiffer
  <2> QED
    BY <1>2, <2>1 DEF DueAt, Answers, ReplyTypes
<1>4. "wake" \in Answering
  BY DEF Answering
<1> QED
  BY <1>1, <1>2, <1>3, <1>4, TakeStep

\* A push is answered at once, or awaits its completion.
LEMMA HandlePushStep ==
  ASSUME TransportInv, NEW c \in Peers, HandlePush(c)
  PROVE  TransportInv'
<1> DEFINE batch == Decoded(c).payload
           ack == [type |-> "PushAck", push |-> batch.push]
           err == [type |-> "ErrorReport"]
<1>1. /\ Take(c, {"PushRecords"}) /\ Decoded(c).type = "PushRecords"
      /\ pc[c] = "decode" /\ Decoded(c).status = "complete"
      /\ UNCHANGED <<peerVars, wireVars, shut, loopVars, backlog, stop, owner, applied>>
  BY DEF HandlePush, Take
<1>2. \/ batch.tooMany /\ reply' = [reply EXCEPT ![c] = ack] /\ pc' = [pc EXCEPT ![c] = "reply"]
      \/ ~batch.tooMany /\ reply' = [reply EXCEPT ![c] = err] /\ pc' = [pc EXCEPT ![c] = "reply"]
      \/ ~batch.tooMany /\ reply' = [reply EXCEPT ![c] = ack] /\ pc' = [pc EXCEPT ![c] = "await"]
  BY DEF HandlePush, Respond, Goto
<1>3. /\ stop' \in BOOLEAN /\ (stop => stop') /\ "reply" # "wake" /\ "reply" \in Answering
      /\ "await" # "wake" /\ "await" \in Answering
  BY <1>1 DEF TransportInv, TypeOK, LoopTypes, Answering
<1>4. ASSUME NEW i \in 1..Len(sent[c]), sent[c][i].kind \in RequestKinds \ {"Truncated"},
             Decoded(c).type = FrameTypeOf(sent[c][i].kind),
             batch = ContentOf(c, i, sent[c][i].kind)
      PROVE  /\ sent[c][i].kind = (IF batch.tooMany THEN "PushTooMany" ELSE "PushRecords")
             /\ batch.push = <<c, i>>
  <2>1. sent[c][i].kind \in PushKinds
    BY <1>1, <1>4, KindsDiffer
  <2>2. batch = [push |-> <<c, i>>, tooMany |-> sent[c][i].kind = "PushTooMany"]
    BY <1>4, <2>1 DEF ContentOf
  <2>3. batch.push = <<c, i>> /\ (batch.tooMany <=> sent[c][i].kind = "PushTooMany")
    <3>1. batch.push = <<c, i>>
      BY <2>2
    <3>2. batch.tooMany = (sent[c][i].kind = "PushTooMany")
      BY <2>2
    <3> QED
      BY <3>1, <3>2, Zenon
  <2> QED
    BY <2>1, <2>3 DEF PushKinds
<1>5. batch.push \in Places
  <2>1. PICK i \in 1..Len(sent[c]) :
           /\ sent[c][i].kind \in RequestKinds \ {"Truncated"}
           /\ Decoded(c).type = FrameTypeOf(sent[c][i].kind)
           /\ Decoded(c).payload = ContentOf(c, i, sent[c][i].kind)
    BY <1>1, TakenRequest DEF TransportInv, TalkInv
  <2>2. batch.push = <<c, i>> /\ i \in Nat
    BY <1>4, <2>1
  <2> QED
    BY <2>2 DEF Places
<1>6. /\ ack \in Replies /\ ack.type = "PushAck" /\ ack.push = batch.push
      /\ err \in Replies /\ err.type = "ErrorReport"
  BY <1>5 DEF Replies
<1> HIDE DEF ack, err
<1>7. CASE batch.tooMany /\ reply' = [reply EXCEPT ![c] = ack] /\ pc' = [pc EXCEPT ![c] = "reply"]
  <2>1. ASSUME NEW i \in 1..Len(sent[c]), sent[c][i].kind \in RequestKinds \ {"Truncated"},
               Decoded(c).type = FrameTypeOf(sent[c][i].kind),
               batch = ContentOf(c, i, sent[c][i].kind)
        PROVE  DueAt(c, sent[c], "reply", ack, applied, i)
    <3>1. sent[c][i].kind = "PushTooMany"
      BY <1>4, <1>7, <2>1
    <3> QED
      BY <1>6, <3>1 DEF DueAt, Answers, ReplyTypes
  <2> QED
    BY <1>1, <1>3, <1>6, <1>7, <2>1, TakeStep
<1>8. CASE ~batch.tooMany /\ reply' = [reply EXCEPT ![c] = err] /\ pc' = [pc EXCEPT ![c] = "reply"]
  <2>1. ASSUME NEW i \in 1..Len(sent[c]), sent[c][i].kind \in RequestKinds \ {"Truncated"},
               Decoded(c).type = FrameTypeOf(sent[c][i].kind),
               batch = ContentOf(c, i, sent[c][i].kind)
        PROVE  DueAt(c, sent[c], "reply", err, applied, i)
    <3>1. sent[c][i].kind = "PushRecords"
      BY <1>4, <1>8, <2>1
    <3> QED
      BY <1>6, <3>1 DEF DueAt, Answers, ReplyTypes
  <2> QED
    BY <1>1, <1>3, <1>6, <1>8, <2>1, TakeStep
<1>9. CASE ~batch.tooMany /\ reply' = [reply EXCEPT ![c] = ack] /\ pc' = [pc EXCEPT ![c] = "await"]
  <2>1. ASSUME NEW i \in 1..Len(sent[c]), sent[c][i].kind \in RequestKinds \ {"Truncated"},
               Decoded(c).type = FrameTypeOf(sent[c][i].kind),
               batch = ContentOf(c, i, sent[c][i].kind)
        PROVE  DueAt(c, sent[c], "await", ack, applied, i)
    <3>1. sent[c][i].kind = "PushRecords" /\ ack.push = <<c, i>>
      BY <1>4, <1>6, <1>9, <2>1
    <3> QED
      BY <1>6, <3>1 DEF DueAt
  <2> QED
    BY <1>1, <1>3, <1>6, <1>9, <2>1, TakeStep
<1> QED
  BY <1>2, <1>7, <1>8, <1>9

(***************************************************************************)
(* The other steps of a handler.                                           *)
(***************************************************************************)
\* The conversation goes on: TalkGoesOn, said of a step.
LEMMA GoesOnStep ==
  ASSUME TypeOK, NEW c \in Peers, Talk(c), sent'[c] = sent[c],
         buffer'[c] \o toServer'[c] = buffer[c] \o toServer[c],
         got'[c] \o toPeer'[c] = got[c] \o toPeer[c], applied' = applied,
         OpenAt(c, pc'[c], shut') =>
           /\ OpenAt(c, pc[c], shut)
           /\ pc'[c] \in {"reply", "wake"} => pc[c] \in {"reply", "wake"} /\ reply'[c] = reply[c]
           /\ pc'[c] = "await" => pc[c] = "await" /\ reply'[c] = reply[c]
           /\ peer'[c] # "over" =>
                peer[c] # "over" /\ (pc[c] \in Answering => pc'[c] \in Answering)
  PROVE  Talk(c)'
<1>1. sent[c] \in Seq(Requests) /\ got[c] \o toPeer[c] \in Seq(Replies)
  BY TalkTypes
<1>2. TalkOf(c, sent[c], buffer[c] \o toServer[c], got[c] \o toPeer[c], pc[c], peer[c],
             reply[c], applied, shut)
  BY DEF Talk
<1>3. TalkOf(c, sent[c], buffer[c] \o toServer[c], got[c] \o toPeer[c], pc'[c], peer'[c],
             reply'[c], applied', shut')
  BY <1>1, <1>2, TalkGoesOn
<1> QED
  BY <1>3 DEF Talk

\* What is left to show of a handler's step.
LEMMA HandlerStepKeeps ==
  ASSUME TransportInv, NEW c \in Peers, NEW w \in Working \cup {"close", "leave", "ended"},
         pc[c] \notin {"none", "ended"}, pc' = [pc EXCEPT ![c] = w],
         w \in Working => pc[c] \in Working, w # "wake",
         toPeer' \in [Peers -> Seq(Replies)], WireTypes',
         reply' \in [Peers -> Replies \cup {NoReply}], applied' \in SUBSET Places,
         backlog' = backlog \/ (stop /\ WakeAcceptLoop),
         shut' = shut \/ (shut' = shut \cup {c} /\ w \notin Working),
         UNCHANGED <<peerVars, loopVars, stop, owner>>,
         AppliedInv', Talk(c)', \A x \in Peers \ {c} : SameFor(x) /\ Talk(x)'
  PROVE  TransportInv'
<1>1. TypeOK /\ ConnectionInv
  BY DEF TransportInv
<1>2. UNCHANGED <<peer, sent, got, loop, threads, saved, stop, owner>>
  BY DEF peerVars, loopVars
<1>3. TypeOK'
  <2>1. PeerTypes'
    BY <1>1, <1>2 DEF TypeOK, PeerTypes
  <2>2. HandlerTypes'
    BY <1>1 DEF TypeOK, HandlerTypes
  <2>3. backlog' \in Seq(Peers \cup {Wake})
    BY <1>1, WakeKeepsQueue DEF TypeOK, LoopTypes, ConnectionInv
  <2>4. LoopTypes'
    BY <1>1, <1>2, <2>3 DEF TypeOK, LoopTypes
  <2> QED
    BY <2>1, <2>2, <2>4 DEF TypeOK
<1>4. ConnectionInv'
  <2>1. w # "none" /\ (stop => stop')
    BY <1>2 DEF Working
  <2> QED
    BY <1>1, <1>2, <2>1, HandlerMoves
<1> QED
  BY <1>3, <1>4 DEF TransportInv, TalkInv

LEMMA ReceiveStep ==
  ASSUME TransportInv, NEW c \in Peers, Receive(c)
  PROVE  TransportInv'
<1>1. TypeOK /\ AppliedInv /\ TalkInv /\ Talk(c)
  BY DEF TransportInv, TalkInv
<1>2. /\ pc[c] = "recv"
      /\ UNCHANGED <<peerVars, loopVars, stop, owner, toPeer, reply, shut, backlog, applied>>
  BY DEF Receive
<1>3. PICK k \in 1..Len(toServer[c]) :
        /\ buffer' = [buffer EXCEPT ![c] = buffer[c] \o SubSeq(toServer[c], 1, k)]
        /\ toServer' = [toServer EXCEPT ![c] = SubSeq(toServer[c], k + 1, Len(toServer[c]))]
        /\ pc' = [pc EXCEPT ![c] = IF Len(buffer[c] \o SubSeq(toServer[c], 1, k)) > MaxReadBuffer
                                   THEN "close"
                                   ELSE Continue(c, buffer[c] \o SubSeq(toServer[c], 1, k), FALSE)]
  BY DEF Receive, Goto
<1>4. PICK w \in {"close", "recv", "decode"} : pc' = [pc EXCEPT ![c] = w]
  BY <1>3 DEF Continue, AfterBreak
<1>5. buffer[c] \in Seq(Wire) /\ toServer[c] \in Seq(Wire)
  BY <1>1, TalkTypes
<1>6. /\ buffer[c] \o SubSeq(toServer[c], 1, k) \in Seq(Wire)
      /\ SubSeq(toServer[c], k + 1, Len(toServer[c])) \in Seq(Wire)
      /\ (buffer[c] \o SubSeq(toServer[c], 1, k)) \o SubSeq(toServer[c], k + 1, Len(toServer[c]))
           = buffer[c] \o toServer[c]
  BY <1>5, MoveKeepsData
<1>7. WireTypes'
  BY <1>1, <1>3, <1>6 DEF TypeOK, WireTypes
<1>8. /\ buffer'[c] = buffer[c] \o SubSeq(toServer[c], 1, k)
      /\ toServer'[c] = SubSeq(toServer[c], k + 1, Len(toServer[c]))
      /\ pc'[c] = w
  BY <1>1, <1>3, <1>4 DEF TypeOK, WireTypes, HandlerTypes
<1>9. Talk(c)'
  <2>1. buffer'[c] \o toServer'[c] = buffer[c] \o toServer[c]
    BY <1>6, <1>8
  <2>2. /\ OpenAt(c, pc[c], shut) /\ pc'[c] \notin {"reply", "wake", "await"}
        /\ pc[c] \notin Answering /\ peer' = peer
    BY <1>2, <1>4, <1>8 DEF OpenAt, Working, Answering, peerVars
  <2>3. sent'[c] = sent[c] /\ got'[c] \o toPeer'[c] = got[c] \o toPeer[c]
    BY <1>2 DEF peerVars
  <2> QED
    BY <1>1, <1>2, <2>1, <2>2, <2>3, GoesOnStep
<1>10. \A x \in Peers \ {c} : SameFor(x)
  BY <1>1, <1>2, <1>3, <1>4 DEF SameFor, peerVars, TypeOK, WireTypes, HandlerTypes
<1>11. \A x \in Peers : Talk(x)'
  BY <1>1, <1>2, <1>9, <1>10, OtherTalks
<1>12. AppliedInv'
  BY <1>1, <1>2, AppliedKept DEF peerVars
<1>13. /\ toPeer' \in [Peers -> Seq(Replies)] /\ reply' \in [Peers -> Replies \cup {NoReply}]
       /\ applied' \in SUBSET Places
  BY <1>1, <1>2 DEF TypeOK, PeerTypes, HandlerTypes, LoopTypes
<1>14. /\ w \in Working \cup {"close", "leave", "ended"} /\ w # "wake" /\ pc[c] \in Working
       /\ pc[c] \notin {"none", "ended"}
  BY <1>2, <1>4 DEF Working
<1> QED
  BY <1>2, <1>4, <1>7, <1>9, <1>10, <1>11, <1>12, <1>13, <1>14, HandlerStepKeeps

\* A step that takes nothing and sends nothing.
LEMMA QuietStep ==
  ASSUME TransportInv, NEW c \in Peers, NEW w \in Working \cup {"close", "leave", "ended"},
         pc[c] \notin {"none", "ended"}, pc' = [pc EXCEPT ![c] = w], w \notin {"wake", "await"},
         w \in Working => /\ pc[c] \in Working /\ buffer' = buffer
                          /\ w = "reply" => pc[c] = "wake" /\ reply' = reply
                          /\ pc[c] \in Answering => w = "reply" \/ peer[c] = "over",
         buffer' = buffer \/ buffer' = [buffer EXCEPT ![c] = <<>>],
         reply' = reply \/ reply' = [reply EXCEPT ![c] = NoReply],
         backlog' = backlog \/ (stop /\ WakeAcceptLoop),
         shut' = shut \/ (shut' = shut \cup {c} /\ w \notin Working),
         UNCHANGED <<peerVars, wireVars, loopVars, stop, owner, applied>>
  PROVE  TransportInv'
<1>1. TypeOK /\ AppliedInv /\ TalkInv /\ Talk(c)
  BY DEF TransportInv, TalkInv
<1>2. UNCHANGED <<peer, sent, got, toServer, toPeer, applied>>
  BY DEF peerVars, wireVars
<1>3. WireTypes'
  <2>1. <<>> \in Seq(Wire)
    BY EmptySeq
  <2> QED
    BY <1>1, <1>2, <2>1 DEF TypeOK, WireTypes
<1>4. /\ toPeer' \in [Peers -> Seq(Replies)] /\ reply' \in [Peers -> Replies \cup {NoReply}]
      /\ applied' \in SUBSET Places
  BY <1>1, <1>2 DEF TypeOK, PeerTypes, HandlerTypes, LoopTypes
<1>5. pc'[c] = w
  BY <1>1 DEF TypeOK, HandlerTypes
<1>6. Talk(c)'
  <2>1. CASE w \in Working
    <3>1. /\ OpenAt(c, pc[c], shut) /\ buffer'[c] \o toServer'[c] = buffer[c] \o toServer[c]
          /\ got'[c] \o toPeer'[c] = got[c] \o toPeer[c]
      BY <1>2, <2>1 DEF OpenAt
    <3>2. /\ pc'[c] \in {"reply", "wake"} => pc[c] \in {"reply", "wake"} /\ reply'[c] = reply[c]
          /\ pc'[c] # "await"
          /\ peer'[c] # "over" =>
               peer[c] # "over" /\ (pc[c] \in Answering => pc'[c] \in Answering)
      BY <1>2, <1>5, <2>1 DEF Answering
    <3> QED
      BY <1>1, <1>2, <3>1, <3>2, GoesOnStep
  <2>2. CASE w \notin Working
    <3>1. w # "none" /\ ~OpenAt(c, pc'[c], shut')
      BY <1>5, <2>2 DEF OpenAt, Working
    <3>2. RepliesOf(c, sent[c], got[c] \o toPeer[c], applied) /\ RequestsOf(sent[c], applied)
      BY <1>1 DEF Talk, TalkOf
    <3> QED
      BY <1>2, <3>1, <3>2 DEF Talk, TalkOf
  <2> QED
    BY <2>1, <2>2
<1>7. \A x \in Peers \ {c} : SameFor(x)
  BY <1>1, <1>2 DEF SameFor, TypeOK, WireTypes, HandlerTypes
<1>8. \A x \in Peers : Talk(x)'
  BY <1>1, <1>2, <1>6, <1>7, OtherTalks
<1>9. AppliedInv'
  BY <1>1, <1>2, AppliedKept
<1> QED
  BY <1>3, <1>4, <1>6, <1>7, <1>8, <1>9, HandlerStepKeeps

LEMMA ReceiveEndStep ==
  ASSUME TransportInv, NEW c \in Peers, ReceiveEnd(c)
  PROVE  TransportInv'
<1>1. PICK w \in {"close", "recv", "decode"} : pc' = [pc EXCEPT ![c] = w]
  BY DEF ReceiveEnd, Goto, Continue, AfterBreak
<1>2. pc[c] = "recv" /\ UNCHANGED <<peerVars, wireVars, buffer, reply, shut, loopVars, backlog,
                                    stop, owner, applied>>
  BY DEF ReceiveEnd
<1> QED
  BY <1>1, <1>2, QuietStep DEF Working, Answering

LEMMA HandlerWakeStep ==
  ASSUME TransportInv, NEW c \in Peers, HandlerWake(c)
  PROVE  TransportInv'
<1>1. /\ pc[c] = "wake" /\ WakeAcceptLoop /\ pc' = [pc EXCEPT ![c] = "reply"]
      /\ UNCHANGED <<peerVars, wireVars, buffer, reply, shut, loopVars, stop, owner, applied>>
  BY DEF HandlerWake, Goto
<1>2. stop
  BY <1>1 DEF TransportInv, ConnectionInv, WokenInv
<1> QED
  BY <1>1, <1>2, QuietStep DEF Working, Answering

LEMMA DropReplyStep ==
  ASSUME RepliesFit, TransportInv, NEW c \in Peers, DropReply(c)
  PROVE  TransportInv'
<1>1. PICK w \in {"close", "recv"} : pc' = [pc EXCEPT ![c] = w]
  BY DEF DropReply, Goto, AfterBreak
<1>2. /\ pc[c] = "reply" /\ peer[c] = "over" /\ reply' = [reply EXCEPT ![c] = NoReply]
      /\ UNCHANGED <<peerVars, wireVars, buffer, shut, loopVars, backlog, stop, owner, applied>>
  BY DEF DropReply, RepliesFit
<1> QED
  BY <1>1, <1>2, QuietStep DEF Working, Answering

LEMMA CloseSocketStep ==
  ASSUME TransportInv, NEW c \in Peers, CloseSocket(c)
  PROVE  TransportInv'
BY QuietStep DEF CloseSocket, Goto, Working

LEMMA LeaveStep ==
  ASSUME TransportInv, NEW c \in Peers, Leave(c)
  PROVE  TransportInv'
BY QuietStep DEF Leave, Goto, Working

\* What Deliver puts on the wire to the peer.
LEMMA Delivered ==
  ASSUME TypeOK, NEW c \in Peers, NEW r \in Replies, Deliver(c, r)
  PROVE  /\ toPeer' \in [Peers -> Seq(Replies)]
         /\ \A x \in Peers \ {c} : toPeer'[x] = toPeer[x]
         /\ peer[c] = "over" => toPeer'[c] = toPeer[c]
         /\ peer[c] # "over" => got[c] \o toPeer'[c] = Append(got[c] \o toPeer[c], r)
<1>1. got[c] \in Seq(Replies) /\ toPeer[c] \in Seq(Replies) /\ toPeer \in [Peers -> Seq(Replies)]
  BY DEF TypeOK, PeerTypes
<1>2. Append(toPeer[c], r) \in Seq(Replies) /\ got[c] \o Append(toPeer[c], r) = Append(got[c] \o toPeer[c], r)
  <2>1. ASSUME NEW g \in Seq(Replies), NEW t \in Seq(Replies)
        PROVE  Append(t, r) \in Seq(Replies) /\ g \o Append(t, r) = Append(g \o t, r)
    BY PutReply
  <2> QED
    BY <1>1, <2>1, Zenon
<1>3. CASE peer[c] = "over"
  BY <1>1, <1>3 DEF Deliver
<1>4. CASE peer[c] # "over"
  <2>1. toPeer' = [toPeer EXCEPT ![c] = Append(toPeer[c], r)]
    BY <1>4 DEF Deliver
  <2>2. toPeer'[c] = Append(toPeer[c], r)
    BY <1>1, <2>1
  <2>3. \A x \in Peers \ {c} : toPeer'[x] = toPeer[x]
    BY <1>1, <2>1
  <2>4. toPeer' \in [Peers -> Seq(Replies)]
    BY <1>1, <1>2, <2>1
  <2> QED
    BY <1>2, <1>4, <2>2, <2>3, <2>4
<1> QED
  BY <1>3, <1>4

\* A reply that is due is one: it is not NoReply.
LEMMA DueIsReply ==
  ASSUME TypeOK, NEW c \in Peers, Talk(c), pc[c] = "reply"
  PROVE  reply[c] \in Replies
<1>1. PICK h \in Nat : TalkAt(c, sent[c], buffer[c] \o toServer[c], got[c] \o toPeer[c], "reply",
                              peer[c], reply[c], applied, h)
  BY DEF Talk, TalkOf, OpenAt, Working
<1>2. reply[c].type \in ReplyTypes(sent[c][h].kind)
  BY <1>1 DEF TalkAt, DueAt, Answers
<1>3. reply[c].type # "none"
  BY <1>2 DEF ReplyTypes
<1>4. reply[c] \in Replies \cup {NoReply}
  BY DEF TypeOK, HandlerTypes
<1> QED
  BY <1>3, <1>4 DEF NoReply

LEMMA SendReplyStep ==
  ASSUME TransportInv, NEW c \in Peers, SendReply(c)
  PROVE  TransportInv'
<1>1. TypeOK /\ AppliedInv /\ TalkInv /\ Talk(c)
  BY DEF TransportInv, TalkInv
<1>2. /\ pc[c] = "reply" /\ Deliver(c, reply[c]) /\ reply' = [reply EXCEPT ![c] = NoReply]
      /\ UNCHANGED <<peerVars, toServer, buffer, shut, loopVars, backlog, stop, owner, applied>>
  BY DEF SendReply, Sendable
<1>3. PICK w \in {"close", "recv", "decode"} : pc' = [pc EXCEPT ![c] = w]
  BY DEF SendReply, Goto, Continue, AfterBreak
<1>4. reply[c] \in Replies
  BY <1>1, <1>2, DueIsReply
<1>5. /\ toPeer' \in [Peers -> Seq(Replies)]
      /\ \A x \in Peers \ {c} : toPeer'[x] = toPeer[x]
      /\ peer[c] = "over" => toPeer'[c] = toPeer[c]
      /\ peer[c] # "over" => got[c] \o toPeer'[c] = Append(got[c] \o toPeer[c], reply[c])
  BY <1>1, <1>2, <1>4, Delivered
<1>6. /\ WireTypes' /\ reply' \in [Peers -> Replies \cup {NoReply}] /\ applied' \in SUBSET Places
  BY <1>1, <1>2 DEF TypeOK, WireTypes, HandlerTypes, LoopTypes
<1>7. pc'[c] = w /\ UNCHANGED <<peer, sent, got>>
  BY <1>1, <1>2, <1>3 DEF TypeOK, HandlerTypes, peerVars
<1>8. Talk(c)'
  <2>1. CASE peer[c] = "over"
    <3>1. /\ OpenAt(c, pc[c], shut) /\ buffer'[c] \o toServer'[c] = buffer[c] \o toServer[c]
          /\ got'[c] \o toPeer'[c] = got[c] \o toPeer[c] /\ sent'[c] = sent[c]
      BY <1>2, <1>5, <1>7, <2>1 DEF OpenAt, Working
    <3>2. pc'[c] \notin {"reply", "wake", "await"} /\ peer'[c] = "over"
      BY <1>7, <2>1
    <3> QED
      BY <1>1, <1>2, <3>1, <3>2, GoesOnStep
  <2>2. CASE peer[c] # "over"
    <3>1. sent[c] \in Seq(Requests) /\ got[c] \o toPeer[c] \in Seq(Replies)
      BY <1>1, TalkTypes
    <3>2. TalkOf(c, sent[c], buffer[c] \o toServer[c], got[c] \o toPeer[c], "reply", peer[c],
                 reply[c], applied, shut)
      BY <1>1, <1>2 DEF Talk
    <3>3. w \notin Answering
      BY DEF Answering
    <3>4. TalkOf(c, sent[c], buffer[c] \o toServer[c], Append(got[c] \o toPeer[c], reply[c]), w,
                 peer[c], reply'[c], applied, shut)
      BY <1>4, <2>2, <3>1, <3>2, <3>3, TalkReplies
    <3>5. got'[c] \o toPeer'[c] = Append(got[c] \o toPeer[c], reply[c])
      BY <1>5, <1>7, <2>2
    <3> QED
      BY <1>2, <1>7, <3>4, <3>5 DEF Talk
  <2> QED
    BY <2>1, <2>2
<1>9. \A x \in Peers \ {c} : SameFor(x)
  BY <1>1, <1>2, <1>3, <1>5, <1>7 DEF SameFor, TypeOK, HandlerTypes
<1>10. \A x \in Peers : Talk(x)'
  BY <1>1, <1>2, <1>8, <1>9, OtherTalks
<1>11. AppliedInv'
  BY <1>1, <1>2, <1>7, AppliedKept
<1>12. /\ w \in Working \cup {"close", "leave", "ended"} /\ w # "wake" /\ pc[c] \in Working
       /\ pc[c] \notin {"none", "ended"}
  BY <1>2 DEF Working
<1> QED
  BY <1>2, <1>3, <1>5, <1>6, <1>8, <1>9, <1>10, <1>11, <1>12, HandlerStepKeeps

\* A bad frame is answered in its place, and ends the connection.
LEMMA RefuseFrameStep ==
  ASSUME RepliesFit, TransportInv, NEW c \in Peers, RefuseFrame(c)
  PROVE  TransportInv'
<1> DEFINE e == [type |-> "ErrorReport"]
<1>1. TypeOK /\ AppliedInv /\ TalkInv /\ Talk(c)
  BY DEF TransportInv, TalkInv
<1>2. /\ pc[c] = "decode" /\ DecodeFrame(buffer[c]) = Corrupt /\ Deliver(c, e)
      /\ pc' = [pc EXCEPT ![c] = "close"]
      /\ UNCHANGED <<peerVars, toServer, buffer, reply, shut, loopVars, backlog, stop, owner,
                     applied>>
  BY DEF RefuseFrame, RepliesFit, Goto, Decoded
<1>3. e \in Replies
  BY DEF Replies
<1> HIDE DEF e
<1>4. /\ toPeer' \in [Peers -> Seq(Replies)]
      /\ \A x \in Peers \ {c} : toPeer'[x] = toPeer[x]
      /\ peer[c] = "over" => toPeer'[c] = toPeer[c]
      /\ peer[c] # "over" => got[c] \o toPeer'[c] = Append(got[c] \o toPeer[c], e)
  BY <1>1, <1>2, <1>3, Delivered
<1>5. /\ WireTypes' /\ reply' \in [Peers -> Replies \cup {NoReply}] /\ applied' \in SUBSET Places
  BY <1>1, <1>2 DEF TypeOK, WireTypes, HandlerTypes, LoopTypes
<1>6. pc'[c] = "close" /\ UNCHANGED <<peer, sent, got>>
  BY <1>1, <1>2 DEF TypeOK, HandlerTypes, peerVars
<1>7. Talk(c)'
  <2>1. CASE peer[c] = "over"
    <3>1. /\ ~OpenAt(c, pc'[c], shut') /\ buffer'[c] \o toServer'[c] = buffer[c] \o toServer[c]
          /\ got'[c] \o toPeer'[c] = got[c] \o toPeer[c] /\ sent'[c] = sent[c]
      BY <1>2, <1>4, <1>6, <2>1 DEF OpenAt, Working
    <3> QED
      BY <1>1, <1>2, <3>1, GoesOnStep
  <2>2. CASE peer[c] # "over"
    <3>1. /\ sent[c] \in Seq(Requests) /\ got[c] \o toPeer[c] \in Seq(Replies)
          /\ buffer[c] \in Seq(Wire) /\ toServer[c] \in Seq(Wire)
      BY <1>1, TalkTypes
    <3>2. TalkOf(c, sent[c], buffer[c] \o toServer[c], got[c] \o toPeer[c], "decode", peer[c],
                 reply[c], applied, shut)
      BY <1>1, <1>2 DEF Talk
    <3>3. TalkOf(c, sent[c], buffer[c] \o toServer[c], Append(got[c] \o toPeer[c], e), "close",
                 peer[c], reply[c], applied, shut)
      BY <1>2, <2>2, <3>1, <3>2, TalkRefuses DEF e
    <3>4. got'[c] \o toPeer'[c] = Append(got[c] \o toPeer[c], e)
      BY <1>4, <1>6, <2>2
    <3> QED
      BY <1>2, <1>6, <3>3, <3>4 DEF Talk
  <2> QED
    BY <2>1, <2>2
<1>8. \A x \in Peers \ {c} : SameFor(x)
  BY <1>1, <1>2, <1>4, <1>6 DEF SameFor, TypeOK, HandlerTypes
<1>9. \A x \in Peers : Talk(x)'
  BY <1>1, <1>2, <1>7, <1>8, OtherTalks
<1>10. AppliedInv'
  BY <1>1, <1>2, <1>6, AppliedKept
<1>11. /\ "close" \in Working \cup {"close", "leave", "ended"} /\ "close" # "wake"
       /\ pc[c] \in Working /\ pc[c] \notin {"none", "ended"}
  BY <1>2 DEF Working
<1> QED
  BY <1>2, <1>4, <1>5, <1>7, <1>8, <1>9, <1>10, <1>11, HandlerStepKeeps

\* The push a handler awaits is a push of records that was not applied yet, and
\* its peer has no reply to it.
LEMMA AwaitedPush ==
  ASSUME TypeOK, NEW c \in Peers, Talk(c), pc[c] = "await"
  PROVE  \E h \in 1..Len(sent[c]) :
           /\ reply[c].push = <<c, h>> /\ sent[c][h].kind = "PushRecords"
           /\ <<c, h>> \notin applied /\ h \notin 1..Len(got[c])
<1>1. PICK h \in Nat : TalkAt(c, sent[c], buffer[c] \o toServer[c], got[c] \o toPeer[c], "await",
                              peer[c], reply[c], applied, h)
  BY DEF Talk, TalkOf, OpenAt, Working
<1>2. h >= 1 /\ sent[c][h].kind = "PushRecords" /\ reply[c].push = <<c, h>>
  BY <1>1 DEF TalkAt, DueAt
<1>3. <<c, h>> \notin applied
  BY <1>1 DEF TalkAt, AppliedAt
<1>4. h \in 1..Len(sent[c])
  BY <1>1, <1>2 DEF TalkAt
<1>5. Len(got[c] \o toPeer[c]) + 1 <= h
  BY <1>1 DEF TalkAt, CountAt, Answering
<1>6. got[c] \in Seq(Replies) /\ toPeer[c] \in Seq(Replies)
  BY TalkTypes
<1>7. /\ Len(got[c]) \in Nat /\ Len(toPeer[c]) \in Nat
      /\ Len(got[c] \o toPeer[c]) = Len(got[c]) + Len(toPeer[c])
  BY <1>6, LenProperties, ConcatProperties
<1>8. h \notin 1..Len(got[c])
  <2>1. ASSUME NEW m \in Nat, NEW n \in Nat, (m + n) + 1 <= h PROVE h \notin 1..m
    BY <2>1
  <2> QED
    BY <1>5, <1>7, <2>1
<1> QED
  BY <1>2, <1>3, <1>4, <1>8

LEMMA ApplyPushStep ==
  ASSUME TransportInv, NEW c \in Peers, ApplyPush(c)
  PROVE  TransportInv'
<1>1. TypeOK /\ AppliedInv /\ TalkInv /\ Talk(c)
  BY DEF TransportInv, TalkInv
<1>2. /\ pc[c] = "await" /\ applied' = applied \cup {reply[c].push}
      /\ pc' = [pc EXCEPT ![c] = "reply"]
      /\ UNCHANGED <<peerVars, wireVars, buffer, reply, shut, loopVars, backlog, stop, owner>>
  BY DEF ApplyPush, Goto
<1>3. UNCHANGED <<peer, sent, got, toServer, toPeer>> /\ pc'[c] = "reply"
  BY <1>1, <1>2 DEF peerVars, wireVars, TypeOK, HandlerTypes
<1>4. sent[c] \in Seq(Requests) /\ got[c] \o toPeer[c] \in Seq(Replies)
  BY <1>1, TalkTypes
<1>5. TalkOf(c, sent[c], buffer[c] \o toServer[c], got[c] \o toPeer[c], "await", peer[c],
             reply[c], applied, shut)
  BY <1>1, <1>2 DEF Talk
<1>6. TalkOf(c, sent[c], buffer[c] \o toServer[c], got[c] \o toPeer[c], "reply", peer[c],
             reply[c], applied \cup {reply[c].push}, shut)
  BY <1>4, <1>5, TalkApplies
<1>7. PICK h \in 1..Len(sent[c]) : reply[c].push = <<c, h>> /\ sent[c][h].kind = "PushRecords"
  BY <1>1, <1>2, AwaitedPush
<1>8. Talk(c)'
  BY <1>2, <1>3, <1>6 DEF Talk
<1>9. \A x \in Peers \ {c} : SameFor(x)
  BY <1>1, <1>2, <1>3 DEF SameFor, TypeOK, HandlerTypes
<1>10. ASSUME NEW x \in Peers \ {c} PROVE Talk(x)'
  <2>1. \A j \in Nat : <<x, j>> \in applied' => <<x, j>> \in applied
    BY <1>2, <1>7
  <2> QED
    BY <1>1, <1>2, <1>9, <2>1, OtherTalk DEF TalkInv
<1>11. applied' \in SUBSET Places
  BY <1>1, <1>2, <1>7 DEF TypeOK, LoopTypes, Places
<1>12. AppliedInv'
  <2>1. \A p \in applied' : p \in applied \/ p = <<c, h>>
    BY <1>2, <1>7
  <2> QED
    BY <1>1, <1>3, <1>7, <2>1 DEF AppliedInv
<1>13. /\ toPeer' \in [Peers -> Seq(Replies)] /\ reply' \in [Peers -> Replies \cup {NoReply}]
       /\ WireTypes'
  BY <1>1, <1>2, <1>3 DEF TypeOK, PeerTypes, HandlerTypes, WireTypes
<1>14. /\ "reply" \in Working \cup {"close", "leave", "ended"} /\ "reply" # "wake"
       /\ pc[c] \in Working /\ pc[c] \notin {"none", "ended"}
  BY <1>2 DEF Working
<1> QED
  BY <1>2, <1>8, <1>9, <1>10, <1>11, <1>12, <1>13, <1>14, HandlerStepKeeps

LEMMA HandlerStepInv ==
  ASSUME RepliesFit, TransportInv, NEW c \in Peers, HandlerStep(c)
  PROVE  TransportInv'
<1>1. CASE Receive(c)
  BY <1>1, ReceiveStep
<1>2. CASE ReceiveEnd(c)
  BY <1>2, ReceiveEndStep
<1>3. CASE RefuseFrame(c)
  BY <1>3, RefuseFrameStep
<1>4. CASE HandlePing(c)
  BY <1>4, HandlePingStep
<1>5. CASE HandleServerFrame(c)
  BY <1>5, HandleServerFrameStep
<1>6. CASE HandleQuery(c)
  BY <1>6, HandleQueryStep
<1>7. CASE HandlePush(c)
  BY <1>7, HandlePushStep
<1>8. CASE ApplyPush(c)
  BY <1>8, ApplyPushStep
<1>9. CASE HandleShutdown(c)
  BY <1>9, HandleShutdownStep
<1>10. CASE HandlerWake(c)
  BY <1>10, HandlerWakeStep
<1>11. CASE SendReply(c)
  BY <1>11, SendReplyStep
<1>12. CASE DropReply(c)
  BY <1>12, DropReplyStep
<1>13. CASE CloseSocket(c)
  BY <1>13, CloseSocketStep
<1>14. CASE Leave(c)
  BY <1>14, LeaveStep
<1> QED
  BY <1>1, <1>2, <1>3, <1>4, <1>5, <1>6, <1>7, <1>8, <1>9, <1>10, <1>11, <1>12, <1>13, <1>14
     DEF HandlerStep

-----------------------------------------------------------------------------
(***************************************************************************)
(* Steps: peers.                                                           *)
(***************************************************************************)
\* A peer's step leaves threads and handlers alone.
LEMMA PeerKeepsConnections ==
  ASSUME TypeOK, ConnectionInv, NEW c \in Peers,
         \A x \in Peers : peer'[x] = "out" => peer[x] = "out",
         UNCHANGED <<handlerVars, loopVars, backlog, stop, owner, applied>>
  PROVE  ConnectionInv'
<1>1. UNCHANGED <<pc, shut, loop, threads, saved, backlog, stop, owner, applied>>
  BY DEF handlerVars, loopVars
<1>2. WokenInv' /\ OutInv' /\ ThreadInv' /\ SaveInv'
  BY <1>1 DEF ConnectionInv, WokenInv, OutInv, ThreadInv, SaveInv
<1>3. \A i \in 1..Len(backlog) : backlog[i] \in Peers \cup {Wake}
  BY ElementOfSeq DEF TypeOK, LoopTypes
<1>4. QueueInv'
  BY <1>1, <1>3 DEF ConnectionInv, QueueInv
<1> QED
  BY <1>2, <1>4 DEF ConnectionInv

LEMMA PeerGoneStep ==
  ASSUME TransportInv, NEW c \in Peers, SeeClosed(c) \/ Close(c)
  PROVE  TransportInv'
<1>1. TypeOK /\ ConnectionInv /\ AppliedInv /\ TalkInv /\ Talk(c)
  BY DEF TransportInv, TalkInv
<1>2. /\ peer[c] = "open" /\ peer' = [peer EXCEPT ![c] = "over"]
      /\ UNCHANGED <<sent, got, wireVars, handlerVars, loopVars, backlog, stop, owner, applied>>
  BY DEF SeeClosed, Close
<1>3. UNCHANGED <<toServer, toPeer, pc, buffer, reply, shut, loop, threads>>
  BY <1>2 DEF wireVars, handlerVars, loopVars
<1>4. TypeOK'
  BY <1>1, <1>2, <1>3 DEF TypeOK, PeerTypes, WireTypes, HandlerTypes, LoopTypes
<1>5. peer'[c] = "over" /\ \A x \in Peers \ {c} : peer'[x] = peer[x]
  BY <1>1, <1>2 DEF TypeOK, PeerTypes
<1>6. ConnectionInv'
  BY <1>1, <1>2, <1>5, PeerKeepsConnections
<1>7. Talk(c)'
  BY <1>1, <1>2, <1>3, <1>5, GoesOnStep
<1>8. \A x \in Peers \ {c} : SameFor(x)
  BY <1>2, <1>3, <1>5 DEF SameFor
<1>9. TalkInv'
  BY <1>1, <1>2, <1>7, <1>8, OtherTalks, AppliedKept DEF TalkInv
<1> QED
  BY <1>4, <1>6, <1>9 DEF TransportInv

LEMMA ReceiveReplyStep ==
  ASSUME TransportInv, NEW c \in Peers, ReceiveReply(c)
  PROVE  TransportInv'
<1>1. TypeOK /\ ConnectionInv /\ AppliedInv /\ TalkInv /\ Talk(c)
  BY DEF TransportInv, TalkInv
<1>2. /\ toPeer[c] # <<>> /\ got' = [got EXCEPT ![c] = Append(got[c], Head(toPeer[c]))]
      /\ toPeer' = [toPeer EXCEPT ![c] = Tail(toPeer[c])]
      /\ UNCHANGED <<peer, sent, toServer, handlerVars, loopVars, backlog, stop, owner, applied>>
  BY DEF ReceiveReply
<1>3. UNCHANGED <<pc, buffer, reply, shut, loop, threads>>
  BY <1>2 DEF handlerVars, loopVars
<1>4. got[c] \in Seq(Replies) /\ toPeer[c] \in Seq(Replies)
  BY <1>1, TalkTypes
<1>5. /\ Append(got[c], Head(toPeer[c])) \in Seq(Replies) /\ Tail(toPeer[c]) \in Seq(Replies)
      /\ Append(got[c], Head(toPeer[c])) \o Tail(toPeer[c]) = got[c] \o toPeer[c]
  BY <1>2, <1>4, TakeReplyKeepsReplies
<1>6. TypeOK'
  <2>1. PeerTypes'
    BY <1>1, <1>2, <1>5 DEF TypeOK, PeerTypes
  <2>2. WireTypes' /\ HandlerTypes' /\ LoopTypes'
    BY <1>1, <1>2, <1>3 DEF TypeOK, WireTypes, HandlerTypes, LoopTypes
  <2> QED
    BY <2>1, <2>2 DEF TypeOK
<1>7. /\ got'[c] = Append(got[c], Head(toPeer[c])) /\ toPeer'[c] = Tail(toPeer[c])
      /\ \A x \in Peers \ {c} : got'[x] = got[x] /\ toPeer'[x] = toPeer[x]
  BY <1>1, <1>2 DEF TypeOK, PeerTypes
<1>8. ConnectionInv'
  BY <1>1, <1>2, PeerKeepsConnections
<1>9. Talk(c)'
  <2>1. got'[c] \o toPeer'[c] = got[c] \o toPeer[c]
    BY <1>5, <1>7
  <2> QED
    BY <1>1, <1>2, <1>3, <2>1, GoesOnStep
<1>10. \A x \in Peers \ {c} : SameFor(x)
  BY <1>2, <1>3, <1>7 DEF SameFor
<1>11. TalkInv'
  BY <1>1, <1>2, <1>9, <1>10, OtherTalks, AppliedKept DEF TalkInv
<1> QED
  BY <1>6, <1>8, <1>11 DEF TransportInv

LEMMA ConnectStep ==
  ASSUME TransportInv, NEW c \in Peers, Connect(c)
  PROVE  TransportInv'
<1>1. TypeOK /\ ConnectionInv /\ AppliedInv /\ TalkInv /\ Talk(c)
  BY DEF TransportInv, TalkInv
<1>2. /\ peer[c] = "out"
      /\ UNCHANGED <<sent, got, wireVars, handlerVars, loopVars, stop, owner, applied>>
  BY DEF Connect
<1>3. UNCHANGED <<toServer, toPeer, pc, buffer, reply, shut, loop, threads, saved>>
  BY <1>2 DEF wireVars, handlerVars, loopVars
<1>4. PICK s \in {"open", "over"} : peer' = [peer EXCEPT ![c] = s]
  BY DEF Connect
<1>5. peer'[c] = s /\ \A x \in Peers \ {c} : peer'[x] = peer[x]
  BY <1>1, <1>4 DEF TypeOK, PeerTypes
<1>6. backlog' = backlog \/ backlog' = Append(backlog, c)
  BY DEF Connect
<1>7. backlog \in Seq(Peers \cup {Wake}) /\ \A i \in 1..Len(backlog) : backlog[i] \in Peers \cup {Wake}
  BY <1>1, ElementOfSeq DEF TypeOK, LoopTypes
<1>8. /\ backlog' \in Seq(Peers \cup {Wake})
      /\ backlog' = backlog
         \/ \A i \in 1..Len(backlog') : \/ i \in 1..Len(backlog) /\ backlog'[i] = backlog[i]
                                        \/ i = Len(backlog) + 1 /\ backlog'[i] = c
  <2>1. CASE backlog' = backlog
    BY <1>7, <2>1
  <2>2. CASE backlog' = Append(backlog, c)
    <3>1. c \in Peers \cup {Wake}
      OBVIOUS
    <3>2. /\ Append(backlog, c) \in Seq(Peers \cup {Wake})
          /\ \A i \in 1..Len(Append(backlog, c)) :
               \/ i \in 1..Len(backlog) /\ Append(backlog, c)[i] = backlog[i]
               \/ i = Len(backlog) + 1 /\ Append(backlog, c)[i] = c
      BY <1>7, <3>1, QueuedLast
    <3> QED
      BY <2>2, <3>2
  <2> QED
    BY <1>6, <2>1, <2>2
<1>9. TypeOK'
  <2>1. PeerTypes'
    BY <1>1, <1>2, <1>3, <1>4 DEF TypeOK, PeerTypes
  <2>2. WireTypes' /\ HandlerTypes'
    BY <1>1, <1>3 DEF TypeOK, WireTypes, HandlerTypes
  <2>3. LoopTypes'
    BY <1>1, <1>2, <1>3, <1>8 DEF TypeOK, LoopTypes
  <2> QED
    BY <2>1, <2>2, <2>3 DEF TypeOK
<1>10. c # Wake /\ Wake \notin Peers
  BY TransportAssumption
<1>11. pc[c] = "none" /\ c \notin shut
  BY <1>1, <1>2 DEF ConnectionInv, OutInv
<1>12. WokenInv'
  <2>1. \A i \in 1..Len(backlog') : backlog'[i] = Wake => stop'
    BY <1>1, <1>2, <1>8, <1>10 DEF ConnectionInv, WokenInv
  <2> QED
    BY <1>1, <1>2, <1>3, <2>1 DEF ConnectionInv, WokenInv
<1>13. QueueInv'
  <2>1. \A i \in 1..Len(backlog) : backlog[i] # Wake =>
          /\ pc[backlog[i]] = "none" /\ peer[backlog[i]] # "out" /\ backlog[i] \notin shut
          /\ backlog[i] \in Peers /\ backlog[i] # c
    BY <1>1, <1>2, <1>7 DEF ConnectionInv, QueueInv
  <2>2. ASSUME NEW i \in 1..Len(backlog'), backlog'[i] # Wake
        PROVE  pc'[backlog'[i]] = "none" /\ peer'[backlog'[i]] # "out" /\ backlog'[i] \notin shut'
    <3>1. CASE i \in 1..Len(backlog) /\ backlog'[i] = backlog[i]
      BY <1>3, <1>5, <2>1, <2>2, <3>1
    <3>2. CASE backlog'[i] = c
      BY <1>3, <1>5, <1>11, <3>2
    <3> QED
      BY <1>8, <3>1, <3>2
  <2>3. ASSUME NEW i \in 1..Len(backlog'), NEW j \in 1..Len(backlog'),
               backlog'[i] = backlog'[j], backlog'[i] # Wake
        PROVE  i = j
    <3>1. \A k, m \in 1..Len(backlog) : backlog[k] = backlog[m] /\ backlog[k] # Wake => k = m
      BY <1>1 DEF ConnectionInv, QueueInv
    <3> QED
      BY <1>8, <2>1, <2>3, <3>1
  <2> QED
    BY <2>2, <2>3 DEF QueueInv
<1>14. OutInv' /\ ThreadInv' /\ SaveInv'
  BY <1>1, <1>2, <1>3, <1>4, <1>5 DEF ConnectionInv, OutInv, ThreadInv, SaveInv
<1>15. Talk(c)'
  BY <1>1, <1>2, <1>3, <1>5, GoesOnStep
<1>16. \A x \in Peers \ {c} : SameFor(x)
  BY <1>2, <1>3, <1>5 DEF SameFor
<1>17. TalkInv'
  BY <1>1, <1>2, <1>15, <1>16, OtherTalks, AppliedKept DEF TalkInv
<1> QED
  BY <1>9, <1>12, <1>13, <1>14, <1>17 DEF TransportInv, ConnectionInv

\* What a peer saw acknowledged is applied.
LEMMA AckedIsApplied ==
  ASSUME TransportInv
  PROVE  Acked \subseteq applied /\ Acked \subseteq Places
<1> SUFFICES ASSUME NEW b \in Acked PROVE b \in applied
  BY DEF TransportInv, TypeOK, LoopTypes
<1>1. /\ b \in Pushes /\ b[2] \in DOMAIN got[b[1]] /\ got[b[1]][b[2]].type = "PushAck"
      /\ sent[b[1]][b[2]].kind = "PushRecords"
  BY DEF Acked
<1>2. PICK c \in Peers : b \in {c} \X UNION {DOMAIN script : script \in Scripts[c]}
  BY <1>1 DEF Pushes
<1>3. b[1] = c /\ b = <<c, b[2]>>
  BY <1>2
<1> DEFINE i == b[2]
<1>4. got[c] \in Seq(Replies) /\ toPeer[c] \in Seq(Replies)
  BY TalkTypes DEF TransportInv
<1>5. DOMAIN got[c] = 1..Len(got[c])
  BY <1>4, LenProperties
<1>6. i \in 1..Len(got[c])
  BY <1>1, <1>3, <1>5
<1> HIDE DEF i
<1>7. (got[c] \o toPeer[c])[i] = got[c][i] /\ i \in 1..Len(got[c] \o toPeer[c])
  BY <1>4, <1>6, FirstPart, Zenon
<1>8. RepliesOf(c, sent[c], got[c] \o toPeer[c], applied)
  BY DEF TransportInv, TalkInv, Talk, TalkOf
<1>9. Answers(c, sent[c], i, got[c][i], applied)
  BY <1>7, <1>8 DEF RepliesOf
<1> QED
  BY <1>1, <1>3, <1>9 DEF Answers, i

\* Nothing is sent after half a frame.
LEMMA ScriptedNotHalved ==
  ASSUME TypeOK, NEW c \in Peers, NEW kind, Scripted(c, kind)
  PROVE  ~Halved(sent[c])
<1>1. PICK script \in Scripts[c] :
        /\ Len(sent[c]) < Len(script)
        /\ \A i \in DOMAIN sent[c] : script[i] = sent[c][i].kind
  BY DEF Scripted
<1>2. script \in Seq(RequestKinds) /\ sent[c] \in Seq(Requests)
  BY TransportAssumption, TalkTypes
<1>3. /\ Len(sent[c]) \in Nat /\ DOMAIN sent[c] = 1..Len(sent[c])
      /\ Len(script) \in Nat /\ DOMAIN script = 1..Len(script)
  BY <1>2, LenProperties
<1>4. \A i \in DOMAIN script : script[i] = "Truncated" => i = Len(script)
  BY TransportAssumption
<1> SUFFICES ASSUME Len(sent[c]) > 0, sent[c][Len(sent[c])].kind = "Truncated" PROVE FALSE
  BY DEF Halved
<1>5. /\ Len(sent[c]) \in DOMAIN sent[c] /\ Len(sent[c]) \in DOMAIN script
      /\ Len(sent[c]) # Len(script)
  BY <1>1, <1>3
<1> QED
  BY <1>1, <1>4, <1>5

LEMMA SendStep ==
  ASSUME TransportInv, NEW c \in Peers, NEW kind \in RequestKinds, Send(c, kind)
  PROVE  TransportInv'
<1> DEFINE q == [kind |-> kind, known |-> Acked]
           longer == Append(sent[c], q)
<1>1. TypeOK /\ ConnectionInv /\ AppliedInv /\ TalkInv /\ Talk(c)
  BY DEF TransportInv, TalkInv
<1>2. /\ Scripted(c, kind) /\ sent' = [sent EXCEPT ![c] = longer]
      /\ toServer' = IF c \in shut THEN toServer
                     ELSE [toServer EXCEPT ![c] = toServer[c] \o Chunks(c, kind)]
      /\ UNCHANGED <<peer, got, toPeer, handlerVars, loopVars, backlog, stop, owner, applied>>
  BY DEF Send
<1>3. UNCHANGED <<pc, buffer, reply, shut, loop, threads>>
  BY <1>2 DEF handlerVars, loopVars
<1>4. /\ sent[c] \in Seq(Requests) /\ buffer[c] \in Seq(Wire) /\ toServer[c] \in Seq(Wire)
      /\ got[c] \o toPeer[c] \in Seq(Replies) /\ buffer[c] \o toServer[c] \in Seq(Wire)
  BY <1>1, TalkTypes
<1>5. q \in Requests /\ q.kind = kind /\ q.known = Acked /\ q.known \subseteq applied
  BY AckedIsApplied DEF Requests
<1> HIDE DEF q
<1>6. /\ longer \in Seq(Requests) /\ Len(longer) = Len(sent[c]) + 1 /\ Len(sent[c]) \in Nat
      /\ \A i \in 1..Len(sent[c]) : longer[i] = sent[c][i]
  BY <1>4, <1>5, AppendProperties, LenProperties
<1>7. ~Halved(sent[c])
  BY <1>1, <1>2, ScriptedNotHalved
<1> DEFINE chunks == ChunksOf(c, Len(sent[c]) + 1, kind)
<1>8. Chunks(c, kind) = chunks /\ chunks \in Seq(Wire)
  BY <1>6, ChunksAre, ChunksTyped
<1> HIDE DEF chunks, longer
<1>9. /\ toServer[c] \o chunks \in Seq(Wire)
      /\ buffer[c] \o (toServer[c] \o chunks) = (buffer[c] \o toServer[c]) \o chunks
  <2>1. ASSUME NEW b \in Seq(Wire), NEW t \in Seq(Wire), NEW x \in Seq(Wire)
        PROVE  t \o x \in Seq(Wire) /\ b \o (t \o x) = (b \o t) \o x
    BY ConcatProperties, ConcatAssociative
  <2>2. buffer[c] \in Seq(Wire) /\ toServer[c] \in Seq(Wire) /\ chunks \in Seq(Wire)
    BY <1>4, <1>8
  <2> QED
    BY <2>1, <2>2, Zenon
<1>10. TypeOK'
  <2>1. PeerTypes'
    BY <1>1, <1>2, <1>6 DEF TypeOK, PeerTypes
  <2>2. WireTypes'
    BY <1>1, <1>2, <1>3, <1>8, <1>9 DEF TypeOK, WireTypes
  <2>3. HandlerTypes' /\ LoopTypes'
    BY <1>1, <1>2, <1>3 DEF TypeOK, HandlerTypes, LoopTypes
  <2> QED
    BY <2>1, <2>2, <2>3 DEF TypeOK
<1>11. ConnectionInv'
  BY <1>1, <1>2, PeerKeepsConnections
<1>12. sent'[c] = longer /\ \A x \in Peers \ {c} : sent'[x] = sent[x]
  BY <1>1, <1>2 DEF TypeOK, PeerTypes
<1>13. /\ c \notin shut => toServer'[c] = toServer[c] \o chunks
       /\ \A x \in Peers \ {c} : toServer'[x] = toServer[x]
  BY <1>1, <1>2, <1>8 DEF TypeOK, WireTypes
<1>14. Talk(c)'
  <2>1. OpenAt(c, pc[c], shut) => c \notin shut
    BY <1>1 DEF OpenAt, ConnectionInv, ThreadInv
  <2>2. OpenAt(c, pc[c], shut) =>
          buffer'[c] \o toServer'[c] = (buffer[c] \o toServer[c]) \o ChunksOf(c, Len(sent[c]) + 1, q.kind)
    BY <1>3, <1>5, <1>9, <1>13, <2>1 DEF chunks
  <2>3. TalkOf(c, sent[c], buffer[c] \o toServer[c], got[c] \o toPeer[c], pc[c], peer[c],
               reply[c], applied, shut)
    BY <1>1 DEF Talk
  <2>4. TalkOf(c, Append(sent[c], q), buffer'[c] \o toServer'[c], got[c] \o toPeer[c], pc[c],
               peer[c], reply[c], applied, shut)
    BY <1>4, <1>5, <1>7, <2>2, <2>3, TalkSends
  <2> QED
    BY <1>2, <1>3, <1>12, <2>4 DEF Talk, longer
<1>15. \A x \in Peers \ {c} : SameFor(x)
  BY <1>2, <1>3, <1>12, <1>13 DEF SameFor
<1>16. \A x \in Peers : Talk(x)'
  BY <1>1, <1>2, <1>14, <1>15, OtherTalks
<1>17. AppliedInv'
  <2> SUFFICES ASSUME NEW p \in applied
               PROVE  p[2] \in 1..Len(sent'[p[1]]) /\ sent'[p[1]][p[2]].kind = "PushRecords"
    BY <1>2 DEF AppliedInv
  <2>1. p[2] \in 1..Len(sent[p[1]]) /\ sent[p[1]][p[2]].kind = "PushRecords" /\ p[1] \in Peers
    BY <1>1 DEF AppliedInv, TypeOK, LoopTypes, Places
  <2>2. CASE p[1] = c
    <3>1. p[2] \in 1..Len(longer) /\ longer[p[2]] = sent[c][p[2]]
      BY <1>6, <2>1, <2>2
    <3> QED
      BY <1>12, <2>1, <2>2, <3>1
  <2>3. CASE p[1] # c
    BY <1>12, <2>1, <2>3
  <2> QED
    BY <2>2, <2>3
<1> QED
  BY <1>10, <1>11, <1>16, <1>17 DEF TransportInv, TalkInv

LEMMA PeerStepInv ==
  ASSUME TransportInv, NEW c \in Peers, PeerStep(c)
  PROVE  TransportInv'
BY ConnectStep, ReceiveReplyStep, PeerGoneStep, SendStep DEF PeerStep

-----------------------------------------------------------------------------
(***************************************************************************)
(* Steps: request_stop and serve().                                        *)
(***************************************************************************)
\* They take no request and send no reply.
LEMMA LoopKeepsTalk ==
  ASSUME TypeOK, TalkInv, UNCHANGED <<peerVars, wireVars, buffer, reply, applied>>,
         shut \subseteq shut',
         \A x \in Peers : pc'[x] = pc[x] \/ (pc[x] = "none" /\ x \notin shut /\ pc'[x] = "recv")
  PROVE  TalkInv'
<1>1. UNCHANGED <<peer, sent, got, toServer, toPeer>>
  BY DEF peerVars, wireVars
<1>2. ASSUME NEW x \in Peers PROVE Talk(x)'
  <2>1. OpenAt(x, pc'[x], shut') => OpenAt(x, pc[x], shut)
    BY DEF OpenAt
  <2>2. /\ pc'[x] \in {"reply", "wake"} => pc[x] \in {"reply", "wake"}
        /\ pc'[x] = "await" => pc[x] = "await"
        /\ pc[x] \in Answering => pc'[x] \in Answering
    BY DEF Answering
  <2>3. Talk(x)
    BY DEF TalkInv
  <2> QED
    BY <1>1, <2>1, <2>2, <2>3, GoesOnStep
<1> QED
  BY <1>1, <1>2, AppliedKept DEF TalkInv

LEMMA StopStep ==
  ASSUME TransportInv, RequestStop \/ OwnerWake
  PROVE  TransportInv'
<1>1. TypeOK /\ ConnectionInv /\ TalkInv
  BY DEF TransportInv
<1>2. UNCHANGED <<peerVars, wireVars, handlerVars, loopVars, applied>>
  BY DEF RequestStop, OwnerWake
<1>3. UNCHANGED <<peer, sent, got, toServer, toPeer, pc, buffer, reply, shut, loop, threads, saved>>
  BY <1>2 DEF peerVars, wireVars, handlerVars, loopVars
<1>4. stop' \in BOOLEAN /\ (stop => stop') /\ (owner' = "wake" => stop')
      /\ (backlog' = backlog \/ (stop /\ WakeAcceptLoop))
  <2>1. CASE RequestStop
    BY <2>1 DEF RequestStop
  <2>2. CASE OwnerWake
    BY <1>1, <2>2 DEF OwnerWake, ConnectionInv, WokenInv, TypeOK, LoopTypes
  <2> QED
    BY <2>1, <2>2
<1>5. /\ backlog' \in Seq(Peers \cup {Wake})
      /\ \A i \in 1..Len(backlog') :
           \/ i \in 1..Len(backlog) /\ backlog'[i] = backlog[i]
           \/ stop /\ backlog'[i] = Wake
  BY <1>1, <1>4, WakeKeepsQueue DEF ConnectionInv, TypeOK, LoopTypes
<1>6. TypeOK'
  <2>1. PeerTypes' /\ WireTypes' /\ HandlerTypes'
    BY <1>1, <1>3 DEF TypeOK, PeerTypes, WireTypes, HandlerTypes
  <2>2. LoopTypes'
    BY <1>1, <1>2, <1>3, <1>4, <1>5 DEF TypeOK, LoopTypes
  <2> QED
    BY <2>1, <2>2 DEF TypeOK
<1>7. WokenInv'
  <2>1. \A i \in 1..Len(backlog') : backlog'[i] = Wake => stop'
    BY <1>1, <1>4, <1>5 DEF ConnectionInv, WokenInv
  <2>2. \A x \in Peers : pc'[x] = "wake" => stop'
    BY <1>1, <1>3, <1>4 DEF ConnectionInv, WokenInv
  <2> QED
    BY <1>4, <2>1, <2>2 DEF WokenInv
<1>8. QueueInv'
  <2>1. \A i \in 1..Len(backlog') : backlog'[i] # Wake => i \in 1..Len(backlog) /\ backlog'[i] = backlog[i]
    BY <1>5
  <2> QED
    BY <1>1, <1>3, <2>1 DEF ConnectionInv, QueueInv
<1>9. OutInv' /\ ThreadInv' /\ SaveInv'
  BY <1>1, <1>2, <1>3 DEF ConnectionInv, OutInv, ThreadInv, SaveInv
<1>10. TalkInv'
  BY <1>1, <1>2, <1>3, LoopKeepsTalk
<1> QED
  BY <1>6, <1>7, <1>8, <1>9, <1>10 DEF TransportInv, ConnectionInv

\* Steps of serve() that change only where it is, its threads and what it saved.
LEMMA ServeStep ==
  ASSUME TransportInv,
         loop' \in {"check", "accept", "reclaim", "join", "persist", "returned", "failed", "gone"},
         threads' = threads \/ (threads' = {} /\ Ended(threads)),
         loop' \in {"persist", "returned", "failed", "gone"} => threads' = {},
         SavedAt(loop', saved', applied),
         UNCHANGED <<peerVars, wireVars, handlerVars, backlog, stop, owner, applied>>
  PROVE  TransportInv'
<1>1. TypeOK /\ ConnectionInv /\ TalkInv
  BY DEF TransportInv
<1>2. UNCHANGED <<peer, sent, got, toServer, toPeer, pc, buffer, reply, shut>>
  BY DEF peerVars, wireVars, handlerVars
<1>3. TypeOK'
  <2>1. PeerTypes' /\ WireTypes' /\ HandlerTypes'
    BY <1>1, <1>2 DEF TypeOK, PeerTypes, WireTypes, HandlerTypes
  <2>2. LoopTypes'
    BY <1>1, <1>2 DEF TypeOK, LoopTypes
  <2> QED
    BY <2>1, <2>2 DEF TypeOK
<1>4. WokenInv' /\ QueueInv' /\ OutInv'
  BY <1>1, <1>2 DEF ConnectionInv, WokenInv, QueueInv, OutInv
<1>5. ThreadInv'
  BY <1>1, <1>2 DEF ConnectionInv, ThreadInv, Ended
<1>6. SaveInv'
  BY <1>1 DEF SaveInv
<1>7. TalkInv'
  BY <1>1, <1>2, LoopKeepsTalk
<1> QED
  BY <1>3, <1>4, <1>5, <1>6, <1>7 DEF TransportInv, ConnectionInv

\* While serve() goes on nothing was saved yet.
LEMMA NotSavedYet ==
  ASSUME TransportInv, loop \in {"check", "accept", "reclaim", "join", "persist"}
  PROVE  saved = <<>>
BY DEF TransportInv, ConnectionInv, SaveInv, SavedAt

LEMMA CheckStopStep ==
  ASSUME TransportInv, CheckStop
  PROVE  TransportInv'
BY ServeStep, NotSavedYet DEF CheckStop, SavedAt

LEMMA AcceptFailsStep ==
  ASSUME TransportInv, AcceptFails
  PROVE  TransportInv'
BY ServeStep, NotSavedYet DEF AcceptFails, SavedAt

LEMMA JoinStep ==
  ASSUME TransportInv, Reclaim \/ Join
  PROVE  TransportInv'
BY ServeStep, NotSavedYet DEF Reclaim, Join, SavedAt

\* The snapshot is written after every handler ended.
LEMMA PersistStep ==
  ASSUME TransportInv, PersistOnClose
  PROVE  TransportInv'
<1>1. threads = {}
  BY DEF TransportInv, ConnectionInv, ThreadInv, PersistOnClose
<1>2. SavedAt(loop', saved', applied) /\ loop' \in {"returned", "failed"}
  BY NotSavedYet DEF PersistOnClose, SavedAt
<1> QED
  BY <1>1, <1>2, ServeStep DEF PersistOnClose

\* A connection leaves the backlog: it is closed, or a thread handles it.
LEMMA AcceptStep ==
  ASSUME TransportInv, Accept
  PROVE  TransportInv'
<1> DEFINE c == Head(backlog)
<1>1. TypeOK /\ ConnectionInv /\ TalkInv
  BY DEF TransportInv
<1>2. /\ loop = "accept" /\ backlog # <<>> /\ backlog' = Tail(backlog)
      /\ UNCHANGED <<peerVars, wireVars, buffer, reply, saved, stop, owner, applied>>
  BY DEF Accept
<1>3. UNCHANGED <<peer, sent, got, toServer, toPeer>>
  BY <1>2 DEF peerVars, wireVars
<1>4. \/ stop /\ shut' = shut \cup ({c} \ {Wake}) /\ loop' = "join" /\ UNCHANGED <<pc, threads>>
      \/ ~stop /\ shut' = shut \cup {c} /\ loop' = "check" /\ UNCHANGED <<pc, threads>>
      \/ /\ ~stop /\ shut' = shut /\ pc' = [pc EXCEPT ![c] = "recv"]
         /\ threads' = threads \cup {c} /\ loop' \in {"reclaim", "check"}
  BY DEF Accept, Goto
<1>5. backlog \in Seq(Peers \cup {Wake})
  BY <1>1 DEF TypeOK, LoopTypes
<1>6. /\ backlog' \in Seq(Peers \cup {Wake}) /\ c = backlog[1] /\ c \in Peers \cup {Wake}
      /\ 1 \in 1..Len(backlog)
      /\ \A i \in 1..Len(backlog') :
           i + 1 \in 1..Len(backlog) /\ i + 1 # 1 /\ backlog'[i] = backlog[i + 1]
  BY <1>2, <1>5, QueueTail
<1>7. Wake \notin Peers
  BY TransportAssumption
<1>8. /\ ~stop => c # Wake
      /\ c # Wake => c \in Peers /\ pc[c] = "none" /\ peer[c] # "out" /\ c \notin shut
      /\ \A i \in 1..Len(backlog') : backlog'[i] # Wake => backlog'[i] # c
  <2>1. ~stop => c # Wake
    BY <1>1, <1>6 DEF ConnectionInv, WokenInv
  <2>2. c # Wake => c \in Peers /\ pc[c] = "none" /\ peer[c] # "out" /\ c \notin shut
    BY <1>1, <1>6 DEF ConnectionInv, QueueInv
  <2>3. \A i \in 1..Len(backlog') : backlog'[i] # Wake => backlog'[i] # c
    BY <1>1, <1>6 DEF ConnectionInv, QueueInv
  <2> QED
    BY <2>1, <2>2, <2>3
<1> HIDE DEF c
<1>9. shut' \in SUBSET Peers /\ shut \subseteq shut' /\ shut' \subseteq shut \cup {c}
      /\ threads' \in SUBSET Peers
      /\ loop' \in {"check", "accept", "reclaim", "join", "persist", "returned", "failed", "gone"}
      /\ loop' \notin {"persist", "returned", "failed", "gone"}
  BY <1>1, <1>4, <1>6, <1>8 DEF TypeOK, HandlerTypes, LoopTypes
<1>10. \A x \in Peers : \/ pc'[x] = pc[x]
                        \/ x = c /\ pc[x] = "none" /\ x \notin shut /\ pc'[x] = "recv"
                           /\ x \in threads' /\ shut' = shut
  BY <1>1, <1>4, <1>8 DEF TypeOK, HandlerTypes
<1>11. TypeOK'
  <2>1. PeerTypes' /\ WireTypes'
    BY <1>1, <1>2, <1>3 DEF TypeOK, PeerTypes, WireTypes
  <2>2. HandlerTypes'
    BY <1>1, <1>2, <1>4, <1>9 DEF TypeOK, HandlerTypes, Working
  <2>3. LoopTypes'
    BY <1>1, <1>2, <1>6, <1>9 DEF TypeOK, LoopTypes
  <2> QED
    BY <2>1, <2>2, <2>3 DEF TypeOK
<1>12. WokenInv'
  <2>1. \A i \in 1..Len(backlog') : backlog'[i] = Wake => stop'
    BY <1>1, <1>2, <1>6 DEF ConnectionInv, WokenInv
  <2>2. \A x \in Peers : pc'[x] = "wake" => stop'
    BY <1>1, <1>2, <1>10 DEF ConnectionInv, WokenInv
  <2> QED
    BY <1>1, <1>2, <2>1, <2>2 DEF ConnectionInv, WokenInv
<1>13. QueueInv'
  <2>1. ASSUME NEW i \in 1..Len(backlog'), backlog'[i] # Wake
        PROVE  pc'[backlog'[i]] = "none" /\ peer'[backlog'[i]] # "out" /\ backlog'[i] \notin shut'
    <3>1. i + 1 \in 1..Len(backlog) /\ backlog'[i] = backlog[i + 1]
      BY <1>6
    <3>2. pc[backlog[i + 1]] = "none" /\ peer[backlog[i + 1]] # "out" /\ backlog[i + 1] \notin shut
      BY <1>1, <2>1, <3>1 DEF ConnectionInv, QueueInv
    <3>3. backlog[i + 1] \in Peers /\ backlog[i + 1] # c
      BY <1>5, <1>8, <2>1, <3>1, ElementOfSeq
    <3> QED
      BY <1>3, <1>9, <1>10, <3>1, <3>2, <3>3
  <2>2. ASSUME NEW i \in 1..Len(backlog'), NEW j \in 1..Len(backlog'),
               backlog'[i] = backlog'[j], backlog'[i] # Wake
        PROVE  i = j
    <3>1. /\ i + 1 \in 1..Len(backlog) /\ backlog'[i] = backlog[i + 1]
          /\ j + 1 \in 1..Len(backlog) /\ backlog'[j] = backlog[j + 1]
      BY <1>6
    <3>2. i + 1 = j + 1
      BY <1>1, <2>2, <3>1 DEF ConnectionInv, QueueInv
    <3> QED
      BY <3>2
  <2> QED
    BY <2>1, <2>2 DEF QueueInv
<1>14. OutInv'
  <2>1. \A x \in Peers : x = c => peer[x] # "out"
    BY <1>7, <1>8
  <2> QED
    BY <1>1, <1>3, <1>9, <1>10, <2>1 DEF ConnectionInv, OutInv
<1>15. ThreadInv'
  <2>1. threads \subseteq threads'
    BY <1>4
  <2>2. \A x \in Peers : pc'[x] \notin {"none", "ended"} => x \in threads'
    BY <1>1, <1>10, <2>1 DEF ConnectionInv, ThreadInv
  <2>3. ASSUME NEW x \in Peers, pc'[x] \in Working PROVE x \notin shut'
    <3>1. CASE pc'[x] = pc[x]
      <4>1. x \notin shut /\ x # c
        BY <1>1, <1>7, <1>8, <2>3, <3>1 DEF ConnectionInv, ThreadInv, Working
      <4> QED
        BY <1>9, <4>1
    <3>2. CASE pc'[x] # pc[x]
      BY <1>10, <3>2
    <3> QED
      BY <3>1, <3>2
  <2> QED
    BY <1>9, <2>2, <2>3 DEF ThreadInv
<1>16. SaveInv'
  BY <1>1, <1>2, <1>9 DEF ConnectionInv, SaveInv, SavedAt
<1>17. TalkInv'
  BY <1>1, <1>2, <1>9, <1>10, LoopKeepsTalk
<1> QED
  BY <1>11, <1>12, <1>13, <1>14, <1>15, <1>16, <1>17 DEF TransportInv, ConnectionInv

\* The connections that were never accepted are closed with the listener.
LEMMA DestroyStep ==
  ASSUME TransportInv, Destroy
  PROVE  TransportInv'
<1>1. TypeOK /\ ConnectionInv /\ TalkInv
  BY DEF TransportInv
<1>2. /\ loop \in {"returned", "failed"} /\ stop' = TRUE /\ backlog' = <<>> /\ loop' = "gone"
      /\ shut' = shut \cup ({backlog[i] : i \in DOMAIN backlog} \ {Wake})
      /\ UNCHANGED <<peerVars, wireVars, pc, buffer, reply, threads, saved, owner, applied>>
  BY DEF Destroy
<1>3. UNCHANGED <<peer, sent, got, toServer, toPeer>>
  BY <1>2 DEF peerVars, wireVars
<1>4. backlog \in Seq(Peers \cup {Wake}) /\ DOMAIN backlog = 1..Len(backlog)
  BY <1>1, LenProperties DEF TypeOK, LoopTypes
<1>5. \A x \in shut' : x \in shut \/ (x \in Peers /\ pc[x] = "none" /\ peer[x] # "out")
  BY <1>1, <1>2, <1>4, ElementOfSeq DEF ConnectionInv, QueueInv
<1>6. backlog' \in Seq(Peers \cup {Wake}) /\ Len(backlog') = 0
  BY <1>2, EmptySeq
<1>7. TypeOK'
  <2>1. PeerTypes' /\ WireTypes'
    BY <1>1, <1>2, <1>3 DEF TypeOK, PeerTypes, WireTypes
  <2>2. shut' \in SUBSET Peers
    BY <1>1, <1>5 DEF TypeOK, HandlerTypes
  <2>3. HandlerTypes'
    BY <1>1, <1>2, <2>2 DEF TypeOK, HandlerTypes
  <2>4. LoopTypes'
    BY <1>1, <1>2, <1>6 DEF TypeOK, LoopTypes
  <2> QED
    BY <2>1, <2>3, <2>4 DEF TypeOK
<1>8. WokenInv' /\ QueueInv'
  BY <1>2, <1>6 DEF WokenInv, QueueInv
<1>9. OutInv' /\ ThreadInv' /\ SaveInv'
  BY <1>1, <1>2, <1>3, <1>5 DEF ConnectionInv, OutInv, ThreadInv, SaveInv, SavedAt, Working
<1>10. TalkInv'
  BY <1>1, <1>2, LoopKeepsTalk
<1> QED
  BY <1>7, <1>8, <1>9, <1>10 DEF TransportInv, ConnectionInv

\* A process that ends closes every connection and saves nothing.
LEMMA BrokenPipeStep ==
  ASSUME TransportInv, NEW c \in Peers, BrokenPipe(c)
  PROVE  TransportInv'
<1>1. TypeOK /\ ConnectionInv /\ TalkInv
  BY DEF TransportInv
<1>2. /\ pc[c] \in {"reply", "decode"} /\ loop' = "gone" /\ threads' = {} /\ owner' = "done"
      /\ pc' = [d \in Peers |-> IF pc[d] = "none" THEN "none" ELSE "ended"]
      /\ shut' = {d \in Peers : peer[d] # "out"} /\ backlog' = <<>>
      /\ UNCHANGED <<peerVars, wireVars, buffer, reply, saved, stop, applied>>
  BY DEF BrokenPipe, Attempts, Sendable
<1>3. UNCHANGED <<peer, sent, got, toServer, toPeer>>
  BY <1>2 DEF peerVars, wireVars
<1>4. backlog' \in Seq(Peers \cup {Wake}) /\ Len(backlog') = 0
  BY <1>2, EmptySeq
<1>5. TypeOK'
  <2>1. PeerTypes' /\ WireTypes'
    BY <1>1, <1>2, <1>3 DEF TypeOK, PeerTypes, WireTypes
  <2>2. HandlerTypes'
    BY <1>1, <1>2 DEF TypeOK, HandlerTypes
  <2>3. LoopTypes'
    BY <1>1, <1>2, <1>4 DEF TypeOK, LoopTypes
  <2> QED
    BY <2>1, <2>2, <2>3 DEF TypeOK
<1>6. WokenInv' /\ QueueInv'
  BY <1>2, <1>4 DEF WokenInv, QueueInv
<1>7. OutInv' /\ ThreadInv'
  BY <1>1, <1>2, <1>3 DEF ConnectionInv, OutInv, ThreadInv, Working
<1>8. SaveInv'
  <2>1. loop \notin {"persist", "returned", "failed", "gone"}
    BY <1>1, <1>2 DEF ConnectionInv, ThreadInv
  <2>2. saved' = <<>>
    BY <1>1, <1>2, <2>1 DEF ConnectionInv, SaveInv, SavedAt
  <2> QED
    BY <1>2, <2>2 DEF SaveInv, SavedAt
<1>9. ASSUME NEW x \in Peers PROVE Talk(x)'
  <2>1. Talk(x) /\ pc'[x] \in {"none", "ended"} /\ (pc'[x] = "none" => pc[x] = "none")
    BY <1>1, <1>2 DEF TalkInv
  <2>2. OpenAt(x, pc'[x], shut') => pc[x] = "none" /\ OpenAt(x, pc[x], shut)
    <3>1. OpenAt(x, pc'[x], shut') => pc[x] = "none" /\ peer[x] = "out"
      BY <1>2, <2>1 DEF OpenAt, Working
    <3> QED
      BY <1>1, <3>1 DEF ConnectionInv, OutInv, OpenAt
  <2> QED
    BY <1>1, <1>2, <1>3, <2>1, <2>2, GoesOnStep DEF Answering
<1>10. TalkInv'
  BY <1>1, <1>2, <1>3, <1>9, AppliedKept DEF TalkInv
<1> QED
  BY <1>5, <1>6, <1>7, <1>8, <1>10 DEF TransportInv, ConnectionInv

-----------------------------------------------------------------------------
(***************************************************************************)
(* The invariant and what follows from it.                                 *)
(***************************************************************************)
LEMMA TransportInit ==
  ASSUME Init
  PROVE  TransportInv
<1>1. \A S : <<>> \in Seq(S) /\ <<>> \o <<>> = <<>> /\ Len(<<>>) = 0
  BY EmptySeq, ConcatEmptySeq
<1>2. TypeOK
  BY <1>1 DEF Init, TypeOK, PeerTypes, WireTypes, HandlerTypes, LoopTypes
<1>3. ConnectionInv
  BY <1>1 DEF Init, ConnectionInv, WokenInv, QueueInv, OutInv, ThreadInv, SaveInv, SavedAt,
     Working
<1>4. ASSUME NEW c \in Peers PROVE Talk(c)
  <2>1. /\ sent[c] = <<>> /\ buffer[c] \o toServer[c] = <<>> /\ got[c] \o toPeer[c] = <<>>
        /\ pc[c] = "none" /\ applied = {}
    BY <1>1 DEF Init
  <2>2. ~Halved(<<>>)
    BY <1>1 DEF Halved
  <2>3. AlignedAt(c, <<>>, <<>>, 0)
    BY <1>1, <2>2 DEF AlignedAt
  <2>4. RepliesOf(c, <<>>, <<>>, {}) /\ RequestsOf(<<>>, {})
    BY <1>1 DEF RepliesOf, RequestsOf
  <2>5. CountAt("none", peer[c], 0, 0)
    BY DEF CountAt, Answering
  <2>6. TalkAt(c, <<>>, <<>>, <<>>, "none", peer[c], reply[c], {}, 0)
    BY <1>1, <2>3, <2>5 DEF TalkAt, DueAt, AppliedAt
  <2> QED
    BY <2>1, <2>4, <2>6 DEF Talk, TalkOf
<1>5. AppliedInv
  BY DEF Init, AppliedInv
<1> QED
  BY <1>2, <1>3, <1>4, <1>5 DEF TransportInv, TalkInv

LEMMA TransportStep ==
  ASSUME RepliesFit, TransportInv, [Next]_vars
  PROVE  TransportInv'
<1>1. CASE \E c \in Peers : PeerStep(c)
  BY <1>1, PeerStepInv
<1>2. CASE \E c \in Peers : HandlerStep(c)
  BY <1>2, HandlerStepInv
<1>3. CASE RequestStop \/ OwnerWake
  BY <1>3, StopStep
<1>4. CASE LoopStep \/ AcceptFails
  BY <1>4, CheckStopStep, AcceptStep, JoinStep, PersistStep, DestroyStep, AcceptFailsStep DEF LoopStep
<1>5. CASE UNCHANGED vars
  <2>1. /\ UNCHANGED <<peerVars, wireVars, handlerVars, backlog, stop, owner, applied>>
        /\ UNCHANGED <<loop, threads, saved>>
    BY <1>5 DEF vars, loopVars
  <2>2. /\ loop \in {"check", "accept", "reclaim", "join", "persist", "returned", "failed", "gone"}
        /\ loop \in {"persist", "returned", "failed", "gone"} => threads = {}
        /\ SavedAt(loop, saved, applied)
    BY DEF TransportInv, TypeOK, LoopTypes, ConnectionInv, ThreadInv, SaveInv
  <2> QED
    BY <2>1, <2>2, ServeStep
<1>6. CASE \E c \in Peers : BrokenPipe(c)
  BY <1>6, BrokenPipeStep
<1> QED
  BY <1>1, <1>2, <1>3, <1>4, <1>5, <1>6 DEF Next, Finished

\* Whatever is interleaved, cut short or lost, every conversation stays what
\* TransportInv says: data in step with requests, replies in their places.
THEOREM TransportInvariant == RepliesFit => (Spec => []TransportInv)
<1> SUFFICES ASSUME RepliesFit PROVE Spec => []TransportInv
  OBVIOUS
<1>1. Init => TransportInv
  BY TransportInit
<1>2. TransportInv /\ [Next]_vars => TransportInv'
  BY TransportStep
<1> QED
  BY <1>1, <1>2, PTL DEF Spec

\* The replies a peer has are the first replies of its connection.
LEMMA GotAnswers ==
  ASSUME TransportInv, NEW c \in Peers
  PROVE  /\ DOMAIN got[c] = 1..Len(got[c]) /\ Len(got[c]) <= Len(sent[c])
         /\ \A i \in DOMAIN got[c] : Answers(c, sent[c], i, got[c][i], applied)
<1>1. /\ got[c] \in Seq(Replies) /\ toPeer[c] \in Seq(Replies) /\ sent[c] \in Seq(Requests)
  BY TalkTypes DEF TransportInv
<1>2. DOMAIN got[c] = 1..Len(got[c]) /\ Len(got[c]) \in Nat /\ Len(toPeer[c]) \in Nat
      /\ Len(sent[c]) \in Nat /\ Len(got[c] \o toPeer[c]) = Len(got[c]) + Len(toPeer[c])
  BY <1>1, LenProperties, ConcatProperties
<1>3. RepliesOf(c, sent[c], got[c] \o toPeer[c], applied)
  BY DEF TransportInv, TalkInv, Talk, TalkOf
<1>4. Len(got[c] \o toPeer[c]) <= Len(sent[c])
  BY <1>3 DEF RepliesOf
<1>5. Len(got[c]) <= Len(sent[c])
  <2>1. ASSUME NEW l \in Nat, NEW m \in Nat, NEW n \in Nat, l + m <= n PROVE l <= n
    BY <2>1
  <2> QED
    BY <1>2, <1>4, <2>1
<1>6. ASSUME NEW i \in 1..Len(got[c]) PROVE Answers(c, sent[c], i, got[c][i], applied)
  <2>1. i \in 1..Len(got[c] \o toPeer[c]) /\ (got[c] \o toPeer[c])[i] = got[c][i]
    BY <1>1, FirstPart, Zenon
  <2> QED
    BY <1>3, <2>1 DEF RepliesOf
<1> QED
  BY <1>2, <1>5, <1>6

\* Replies come one per request and in the order of the requests, for any number
\* of peers that send any sequences of requests, however their frames are cut up.
THEOREM RepliesAreInPlace == RepliesFit => (Spec => []RepliesMatch)
<1>1. TransportInv => RepliesMatch
  BY GotAnswers DEF RepliesMatch, Answers
<1> QED
  BY <1>1, TransportInvariant, PTL

\* A query sent after some peer saw a push acknowledged reports that push.
THEOREM QueriesReportAcked == RepliesFit => (Spec => []QueriesSeeAcked)
<1>1. TransportInv => QueriesSeeAcked
  BY GotAnswers DEF QueriesSeeAcked, Answers
<1> QED
  BY <1>1, TransportInvariant, PTL

\* When serve() succeeds the snapshot it was asked for is written, and a
\* snapshot it wrote holds every push that was or will be acknowledged.
THEOREM AckedSurvives == RepliesFit => (Spec => []AckedIsSaved)
<1>1. TransportInv => AckedIsSaved
  BY AckedIsApplied DEF AckedIsSaved, TransportInv, ConnectionInv, SaveInv, SavedAt
<1> QED
  BY <1>1, TransportInvariant, PTL

-----------------------------------------------------------------------------
(***************************************************************************)
(* The refinement of BatchAck.                                             *)
(***************************************************************************)
\* What BatchAck sees of the transport.
Submitted == {p \in Pushes : InBound(p)}
PartsMap == [b \in Pushes |-> Records(b, Submitted)]
AppliedMap == [b \in Pushes |-> Records(b, applied)]
AnswerMap == [b \in Pushes |-> AnswerTo(b)]

\* Every request was one of a script.
ScriptInv == \A c \in Peers : \A i \in 1..Len(sent[c]) : <<c, i>> \in Pushes

LEMMA PushIs ==
  ASSUME NEW b \in Pushes
  PROVE  b[1] \in Peers /\ b[2] \in Nat /\ b = <<b[1], b[2]>>
<1>1. PICK c \in Peers : b \in {c} \X UNION {DOMAIN script : script \in Scripts[c]}
  BY DEF Pushes
<1>2. PICK script \in Scripts[c] : b[2] \in DOMAIN script
  BY <1>1
<1>3. script \in Seq(RequestKinds)
  BY TransportAssumption
<1>4. b[2] \in Nat
  BY <1>2, <1>3, LenProperties
<1> QED
  BY <1>1, <1>4

LEMMA ScriptStep ==
  ASSUME TypeOK, ScriptInv, NEW c \in Peers, NEW kind \in RequestKinds, Send(c, kind)
  PROVE  ScriptInv' /\ <<c, Len(sent[c]) + 1>> \in Pushes
<1>1. PICK script \in Scripts[c] : Len(sent[c]) < Len(script)
  BY DEF Send, Scripted
<1>2. script \in Seq(RequestKinds) /\ sent[c] \in Seq(Requests)
  BY TransportAssumption, TalkTypes
<1>3. Len(sent[c]) + 1 \in DOMAIN script /\ Len(sent[c]) \in Nat
  BY <1>1, <1>2, LenProperties
<1>4. <<c, Len(sent[c]) + 1>> \in Pushes
  BY <1>3 DEF Pushes
<1>5. PICK q : sent' = [sent EXCEPT ![c] = Append(sent[c], q)] /\ q \in Requests
  <2>1. Acked \subseteq Pushes
    BY DEF Acked
  <2>2. Acked \subseteq Places
    BY <2>1, PushIs DEF Places
  <2>3. [kind |-> kind, known |-> Acked] \in Requests
    BY <2>2 DEF Requests
  <2>4. sent' = [sent EXCEPT ![c] = Append(sent[c], [kind |-> kind, known |-> Acked])]
    BY DEF Send
  <2> QED
    BY <2>3, <2>4
<1>6. Len(Append(sent[c], q)) = Len(sent[c]) + 1
  BY <1>2, <1>5, AppendProperties
<1>7. sent'[c] = Append(sent[c], q) /\ \A x \in Peers \ {c} : sent'[x] = sent[x]
  BY <1>5 DEF TypeOK, PeerTypes
<1>8. ASSUME NEW x \in Peers, NEW i \in 1..Len(sent'[x]) PROVE <<x, i>> \in Pushes
  <2>1. CASE x # c
    BY <1>7, <2>1 DEF ScriptInv
  <2>2. CASE x = c
    <3>1. i \in 1..Len(sent[c]) \/ i = Len(sent[c]) + 1
      BY <1>3, <1>6, <1>7, <2>2
    <3> QED
      BY <1>4, <2>2, <3>1 DEF ScriptInv
  <2> QED
    BY <2>1, <2>2
<1> QED
  BY <1>4, <1>8 DEF ScriptInv

\* The steps of BatchAck, said of the maps.
LEMMA AckSubmits ==
  ASSUME NEW b \in Pushes, NEW P \in SUBSET {"records"}, AnswerMap[b] = "none",
         AnswerMap' = [AnswerMap EXCEPT ![b] = "pending"],
         PartsMap' = [PartsMap EXCEPT ![b] = P], AppliedMap' = AppliedMap
  PROVE  Ack!Next
<1>1. Ack!SubmitBatch(b, P)
  BY DEF Ack!SubmitBatch, AnswerMap, PartsMap, AppliedMap, Submitted
<1> QED
  BY <1>1 DEF Ack!Next

LEMMA AckApplies ==
  ASSUME NEW b \in Pushes, "records" \in PartsMap[b] \ AppliedMap[b], AnswerMap[b] # "acked",
         AnswerMap' = AnswerMap, PartsMap' = PartsMap,
         AppliedMap' = [AppliedMap EXCEPT ![b] = AppliedMap[b] \cup {"records"}]
  PROVE  Ack!Next
<1>1. Ack!ApplyPart(b, "records")
  BY DEF Ack!ApplyPart, AnswerMap, PartsMap, AppliedMap, Submitted
<1> QED
  BY <1>1 DEF Ack!Next

LEMMA AckAnswers ==
  ASSUME NEW b \in Pushes, AnswerMap[b] = "pending", PartsMap' = PartsMap, AppliedMap' = AppliedMap,
         \/ AppliedMap[b] = PartsMap[b] /\ AnswerMap' = [AnswerMap EXCEPT ![b] = "acked"]
         \/ AnswerMap' = [AnswerMap EXCEPT ![b] = "refused"]
  PROVE  Ack!Next
<1>1. Ack!Acknowledge(b) \/ Ack!Refuse(b)
  BY DEF Ack!Acknowledge, Ack!Refuse, AnswerMap, PartsMap, AppliedMap, Submitted
<1> QED
  BY <1>1 DEF Ack!Next

LEMMA AckStutters ==
  ASSUME UNCHANGED <<AnswerMap, PartsMap, AppliedMap>>
  PROVE  UNCHANGED Ack!ackVars
BY DEF Ack!ackVars, AnswerMap, PartsMap, AppliedMap, Submitted

LEMMA MapsSame ==
  ASSUME UNCHANGED <<sent, got, applied>>
  PROVE  UNCHANGED <<AnswerMap, PartsMap, AppliedMap>>
BY DEF AnswerMap, PartsMap, AppliedMap, Submitted, AnswerTo, InBound

\* Sending a push within the bound submits it; any other request is invisible.
LEMMA AckSend ==
  ASSUME TransportInv, ScriptInv, NEW c \in Peers, NEW kind \in RequestKinds, Send(c, kind)
  PROVE  Ack!Next \/ UNCHANGED Ack!ackVars
<1>0. TypeOK /\ sent[c] \in Seq(Requests) /\ <<c, Len(sent[c]) + 1>> \in Pushes /\ Len(sent[c]) \in Nat
  BY ScriptStep, TalkTypes, LenProperties DEF TransportInv
<1> PICK n \in Nat : n = Len(sent[c])
  BY <1>0
<1> PICK b \in Pushes : b = <<c, n + 1>>
  BY <1>0
<1>1. TypeOK /\ sent[c] \in Seq(Requests)
  BY <1>0
<1>2. UNCHANGED <<got, applied>>
  BY DEF Send
<1>3. PICK q \in Requests : q.kind = kind /\ sent' = [sent EXCEPT ![c] = Append(sent[c], q)]
  <2>1. [kind |-> kind, known |-> Acked] \in Requests
    BY AckedIsApplied DEF Requests
  <2> QED
    BY <2>1 DEF Send
<1>4. sent'[c] = Append(sent[c], q) /\ \A x \in Peers \ {c} : sent'[x] = sent[x]
  BY <1>1, <1>3 DEF TypeOK, PeerTypes
<1>5. /\ n \in Nat /\ DOMAIN sent[c] = 1..n
      /\ DOMAIN sent'[c] = 1..(n + 1) /\ sent'[c][n + 1] = q
      /\ \A i \in 1..n : sent'[c][i] = sent[c][i]
  BY <1>1, <1>4, AppendProperties, LenProperties
<1>6. n + 1 \notin DOMAIN got[c]
  BY <1>5, GotAnswers
<1>7. n + 1 \notin DOMAIN sent[c] /\ n + 1 \in DOMAIN sent'[c]
  BY <1>5
<1>8. \A p \in Pushes : p # b =>
        /\ p[2] \in DOMAIN sent'[p[1]] <=> p[2] \in DOMAIN sent[p[1]]
        /\ p[2] \in DOMAIN sent[p[1]] => sent'[p[1]][p[2]] = sent[p[1]][p[2]]
  <2> SUFFICES ASSUME NEW p \in Pushes, p # b
               PROVE  /\ p[2] \in DOMAIN sent'[p[1]] <=> p[2] \in DOMAIN sent[p[1]]
                      /\ p[2] \in DOMAIN sent[p[1]] => sent'[p[1]][p[2]] = sent[p[1]][p[2]]
    OBVIOUS
  <2>1. p[1] \in Peers /\ p[2] \in Nat /\ p = <<p[1], p[2]>>
    BY PushIs
  <2>2. CASE p[1] # c
    BY <1>4, <2>1, <2>2
  <2>3. CASE p[1] = c
    <3>1. p[2] # n + 1
      BY <2>1, <2>3
    <3>2. p[2] \in 1..(n + 1) <=> p[2] \in 1..n
      BY <1>5, <2>1, <3>1
    <3> QED
      BY <1>5, <2>3, <3>2
  <2> QED
    BY <2>2, <2>3
<1>9. b[1] = c /\ b[2] = n + 1
  OBVIOUS
<1>10. AppliedMap' = AppliedMap
  BY <1>2 DEF AppliedMap
<1>11. \A p \in Pushes : p # b => AnswerTo(p)' = AnswerTo(p) /\ (p \in Submitted' <=> p \in Submitted)
  BY <1>2, <1>8 DEF AnswerTo, InBound, Submitted
<1>12. AnswerTo(b) = "none" /\ b \notin Submitted
  BY <1>7, <1>9 DEF AnswerTo, InBound, Submitted
<1>13. CASE kind = "PushRecords"
  <2>1. AnswerTo(b)' = "pending"
    <3>1. b[2] \in DOMAIN sent'[b[1]] /\ sent'[b[1]][b[2]].kind = "PushRecords"
          /\ b[2] \notin DOMAIN got'[b[1]]
      BY <1>2, <1>3, <1>5, <1>6, <1>7, <1>9, <1>13
    <3> QED
      BY <3>1 DEF AnswerTo, InBound
  <2>2. AnswerMap[b] = "none" /\ AnswerMap' = [AnswerMap EXCEPT ![b] = "pending"]
    BY <1>1, <1>11, <1>12, <2>1 DEF AnswerMap
  <2>3. PICK P \in SUBSET {"records"} : PartsMap' = [PartsMap EXCEPT ![b] = P]
    <3>1. Records(b, Submitted)' \in SUBSET {"records"}
      BY DEF Records
    <3>2. \A p \in Pushes : p # b => Records(p, Submitted)' = Records(p, Submitted)
      BY <1>11 DEF Records
    <3>3. PartsMap' = [PartsMap EXCEPT ![b] = Records(b, Submitted)']
      BY <1>1, <3>2 DEF PartsMap
    <3> QED
      BY <3>1, <3>3
  <2> QED
    BY <1>1, <1>10, <2>2, <2>3, AckSubmits
<1>14. CASE kind # "PushRecords"
  <2>1. sent'[b[1]][b[2]].kind # "PushRecords" /\ b[2] \in DOMAIN sent'[b[1]]
    BY <1>3, <1>5, <1>7, <1>9, <1>14
  <2>2. AnswerTo(b)' = "none" /\ b \notin Submitted'
    BY <2>1 DEF AnswerTo, InBound, Submitted
  <2>3. AnswerMap' = AnswerMap
    BY <1>11, <1>12, <2>2 DEF AnswerMap
  <2>4. PartsMap' = PartsMap
    BY <1>11, <1>12, <2>2 DEF PartsMap, Records
  <2> QED
    BY <1>10, <2>3, <2>4, AckStutters
<1> QED
  BY <1>13, <1>14

\* The next reply of a peer answers the next of its requests.
LEMMA NextReply ==
  ASSUME TransportInv, NEW c \in Peers, toPeer[c] # <<>>
  PROVE  /\ Len(got[c]) + 1 \in 1..Len(sent[c])
         /\ Answers(c, sent[c], Len(got[c]) + 1, Head(toPeer[c]), applied)
<1> DEFINE more == Append(got[c], Head(toPeer[c]))
           n == Len(got[c])
<1>1. got[c] \in Seq(Replies) /\ toPeer[c] \in Seq(Replies) /\ sent[c] \in Seq(Requests)
  BY TalkTypes DEF TransportInv
<1>2. /\ more \in Seq(Replies) /\ Tail(toPeer[c]) \in Seq(Replies)
      /\ more \o Tail(toPeer[c]) = got[c] \o toPeer[c]
  BY <1>1, TakeReplyKeepsReplies
<1>3. Head(toPeer[c]) \in Replies /\ n \in Nat /\ Len(sent[c]) \in Nat
  BY <1>1, HeadTailProperties, LenProperties
<1>4. Len(more) = n + 1 /\ more[n + 1] = Head(toPeer[c])
  BY <1>1, <1>3, AppendProperties
<1> HIDE DEF more, n
<1>5. n + 1 \in 1..Len(more)
  BY <1>3, <1>4
<1>6. n + 1 \in 1..Len(got[c] \o toPeer[c]) /\ (got[c] \o toPeer[c])[n + 1] = Head(toPeer[c])
  <2>1. n + 1 \in 1..Len(more \o Tail(toPeer[c])) /\ (more \o Tail(toPeer[c]))[n + 1] = more[n + 1]
    BY <1>2, <1>5, FirstPart, Zenon
  <2> QED
    BY <1>2, <1>4, <2>1, Zenon
<1>7. RepliesOf(c, sent[c], got[c] \o toPeer[c], applied)
  BY DEF TransportInv, TalkInv, Talk, TalkOf
<1>8. Answers(c, sent[c], n + 1, Head(toPeer[c]), applied)
  BY <1>6, <1>7 DEF RepliesOf
<1>9. n + 1 \in 1..Len(sent[c])
  <2>1. Len(got[c] \o toPeer[c]) <= Len(sent[c]) /\ Len(got[c] \o toPeer[c]) \in Nat
    BY <1>1, <1>7, ConcatProperties, LenProperties DEF RepliesOf
  <2>2. ASSUME NEW l \in Nat, NEW m \in Nat, n + 1 \in 1..l, l <= m PROVE n + 1 \in 1..m
    BY <1>3, <2>2
  <2> QED
    BY <1>3, <1>6, <2>1, <2>2
<1> QED
  BY <1>8, <1>9 DEF n

\* A reply to such a push answers it, with an acknowledgement once it is applied.
LEMMA AckReceive ==
  ASSUME TransportInv, ScriptInv, NEW c \in Peers, ReceiveReply(c)
  PROVE  Ack!Next \/ UNCHANGED Ack!ackVars
<1>0. TypeOK /\ got[c] \in Seq(Replies) /\ toPeer[c] \in Seq(Replies) /\ Len(got[c]) \in Nat
      /\ sent[c] \in Seq(Requests) /\ DOMAIN sent[c] = 1..Len(sent[c])
  BY TalkTypes, LenProperties DEF TransportInv
<1> PICK n \in Nat : n = Len(got[c])
  BY <1>0
<1> PICK r : r = Head(toPeer[c])
  OBVIOUS
<1>1. /\ toPeer[c] # <<>> /\ got' = [got EXCEPT ![c] = Append(got[c], r)]
      /\ UNCHANGED <<sent, applied>>
  BY DEF ReceiveReply
<1>2. n + 1 \in 1..Len(sent[c]) /\ Answers(c, sent[c], n + 1, r, applied)
  BY <1>1, NextReply
<1> PICK b \in Pushes : b = <<c, n + 1>>
  BY <1>2 DEF ScriptInv
<1>3. r \in Replies
  BY <1>0, <1>1, HeadTailProperties
<1>4. got'[c] = Append(got[c], r) /\ \A x \in Peers \ {c} : got'[x] = got[x]
  BY <1>0, <1>1 DEF TypeOK, PeerTypes
<1>5. /\ DOMAIN got[c] = 1..n
      /\ DOMAIN got'[c] = 1..(n + 1) /\ got'[c][n + 1] = r
      /\ \A i \in 1..n : got'[c][i] = got[c][i]
  BY <1>0, <1>3, <1>4, AppendProperties, LenProperties
<1>6. \A p \in Pushes : p # b =>
        /\ p[2] \in DOMAIN got'[p[1]] <=> p[2] \in DOMAIN got[p[1]]
        /\ p[2] \in DOMAIN got[p[1]] => got'[p[1]][p[2]] = got[p[1]][p[2]]
  <2> SUFFICES ASSUME NEW p \in Pushes, p # b
               PROVE  /\ p[2] \in DOMAIN got'[p[1]] <=> p[2] \in DOMAIN got[p[1]]
                      /\ p[2] \in DOMAIN got[p[1]] => got'[p[1]][p[2]] = got[p[1]][p[2]]
    OBVIOUS
  <2>1. p[1] \in Peers /\ p[2] \in Nat /\ p = <<p[1], p[2]>>
    BY PushIs
  <2>2. CASE p[1] # c
    BY <1>4, <2>1, <2>2
  <2>3. CASE p[1] = c
    <3>1. p[2] # n + 1
      BY <2>1, <2>3
    <3>2. p[2] \in 1..(n + 1) <=> p[2] \in 1..n
      BY <2>1, <3>1
    <3> QED
      BY <1>5, <2>3, <3>2
  <2> QED
    BY <2>2, <2>3
<1>7. b[1] = c /\ b[2] = n + 1 /\ n + 1 \in DOMAIN sent[c] /\ n + 1 \notin 1..n /\ n + 1 \in 1..(n + 1)
  BY <1>0, <1>2
<1>8. AppliedMap' = AppliedMap /\ PartsMap' = PartsMap
  BY <1>1 DEF AppliedMap, PartsMap, InBound, Submitted
<1>9. \A p \in Pushes : p # b => AnswerTo(p)' = AnswerTo(p)
  BY <1>1, <1>6 DEF AnswerTo, InBound
<1>10. CASE sent[c][n + 1].kind = "PushRecords"
  <2>1. AnswerTo(b) = "pending"
    BY <1>5, <1>7, <1>10 DEF AnswerTo, InBound
  <2>2. AnswerTo(b)' = (IF r.type = "PushAck" THEN "acked" ELSE "refused")
    BY <1>1, <1>5, <1>7, <1>10 DEF AnswerTo, InBound
  <2>3. AnswerMap[b] = "pending"
    BY <2>1 DEF AnswerMap
  <2>4. AnswerMap' = [AnswerMap EXCEPT ![b] = IF r.type = "PushAck" THEN "acked" ELSE "refused"]
    BY <1>9, <2>2 DEF AnswerMap
  <2>5. CASE r.type = "PushAck"
    <3>1. b \in applied /\ b \in Submitted
      BY <1>2, <1>7, <1>10, <2>5 DEF Answers, InBound, Submitted
    <3>2. AppliedMap[b] = PartsMap[b]
      BY <3>1 DEF AppliedMap, PartsMap, Records
    <3> QED
      BY <1>8, <2>3, <2>4, <2>5, <3>2, AckAnswers
  <2>6. CASE r.type # "PushAck"
    BY <1>8, <2>3, <2>4, <2>6, AckAnswers
  <2> QED
    BY <2>5, <2>6
<1>11. CASE sent[c][n + 1].kind # "PushRecords"
  <2>1. AnswerTo(b) = "none" /\ AnswerTo(b)' = "none"
    BY <1>1, <1>7, <1>11 DEF AnswerTo, InBound
  <2>2. AnswerMap' = AnswerMap
    BY <1>9, <2>1 DEF AnswerMap
  <2> QED
    BY <1>8, <2>2, AckStutters
<1> QED
  BY <1>10, <1>11

\* A push is applied once, and before its acknowledgement.
LEMMA AckApply ==
  ASSUME TransportInv, ScriptInv, NEW c \in Peers, ApplyPush(c)
  PROVE  Ack!Next
<1>1. TypeOK /\ Talk(c) /\ pc[c] = "await" /\ applied' = applied \cup {reply[c].push}
      /\ UNCHANGED <<sent, got>>
  BY DEF TransportInv, TalkInv, ApplyPush, peerVars
<1>2. PICK h \in 1..Len(sent[c]) :
        /\ reply[c].push = <<c, h>> /\ sent[c][h].kind = "PushRecords"
        /\ <<c, h>> \notin applied /\ h \notin 1..Len(got[c])
  BY <1>1, AwaitedPush
<1> PICK b \in Pushes : b = <<c, h>>
  BY <1>2 DEF ScriptInv
<1>3. /\ b[1] = c /\ b[2] = h /\ DOMAIN sent[c] = 1..Len(sent[c]) /\ DOMAIN got[c] = 1..Len(got[c])
  BY <1>1, TalkTypes, LenProperties
<1>4. AnswerTo(b) = "pending" /\ b \in Submitted /\ b \notin applied
  BY <1>2, <1>3 DEF AnswerTo, InBound, Submitted
<1>5. AnswerMap' = AnswerMap /\ PartsMap' = PartsMap
  BY <1>1 DEF AnswerMap, PartsMap, Submitted, AnswerTo, InBound
<1>6. AppliedMap' = [AppliedMap EXCEPT ![b] = AppliedMap[b] \cup {"records"}]
  <2>1. \A p \in Pushes : p # b => (p \in applied' <=> p \in applied)
    BY <1>1, <1>2
  <2>2. b \in applied'
    BY <1>1, <1>2
  <2>3. \A p \in Pushes : Records(p, applied') = IF p = b THEN AppliedMap[b] \cup {"records"}
                                                 ELSE Records(p, applied)
    BY <1>4, <2>1, <2>2 DEF Records, AppliedMap
  <2> QED
    BY <2>3 DEF AppliedMap
<1>7. AnswerMap[b] # "acked" /\ "records" \in PartsMap[b] \ AppliedMap[b]
  BY <1>4 DEF AnswerMap, PartsMap, AppliedMap, Records
<1> QED
  BY <1>5, <1>6, <1>7, AckApplies

\* Only three steps are visible: a request, a reply received, a push applied.
LEMMA OtherSteps ==
  ASSUME [Next]_vars,
         ~(\E c \in Peers : \E kind \in RequestKinds : Send(c, kind)),
         ~(\E c \in Peers : ReceiveReply(c)), ~(\E c \in Peers : ApplyPush(c))
  PROVE  UNCHANGED <<sent, got, applied>>
<1> USE DEF peerVars
<1>1. ASSUME NEW c \in Peers, PeerStep(c) PROVE UNCHANGED <<sent, got, applied>>
  BY <1>1 DEF PeerStep, Connect, SeeClosed, Close
<1>2. ASSUME NEW c \in Peers, HandlerStep(c) PROVE UNCHANGED <<sent, got, applied>>
  BY <1>2 DEF HandlerStep, Receive, ReceiveEnd, RefuseFrame, HandlePing, HandleServerFrame,
     HandleQuery, HandlePush, HandleShutdown, HandlerWake, SendReply, DropReply, CloseSocket, Leave
<1>3. CASE RequestStop \/ OwnerWake \/ LoopStep \/ AcceptFails \/ UNCHANGED vars
  BY <1>3 DEF RequestStop, OwnerWake, LoopStep, AcceptFails, CheckStop, Accept, Reclaim, Join,
     PersistOnClose, Destroy, vars
<1>4. ASSUME NEW c \in Peers, BrokenPipe(c) PROVE UNCHANGED <<sent, got, applied>>
  BY <1>4 DEF BrokenPipe
<1> QED
  BY <1>1, <1>2, <1>3, <1>4 DEF Next, Finished

LEMMA AckStep ==
  ASSUME TransportInv, ScriptInv, [Next]_vars
  PROVE  ScriptInv' /\ (Ack!Next \/ UNCHANGED Ack!ackVars)
<1>1. ASSUME NEW c \in Peers, NEW kind \in RequestKinds, Send(c, kind)
      PROVE  ScriptInv' /\ (Ack!Next \/ UNCHANGED Ack!ackVars)
  BY <1>1, ScriptStep, AckSend DEF TransportInv
<1>2. ASSUME NEW c \in Peers, ReceiveReply(c)
      PROVE  ScriptInv' /\ (Ack!Next \/ UNCHANGED Ack!ackVars)
  <2>1. ScriptInv'
    BY <1>2 DEF ScriptInv, ReceiveReply
  <2> QED
    BY <1>2, <2>1, AckReceive
<1>3. ASSUME NEW c \in Peers, ApplyPush(c)
      PROVE  ScriptInv' /\ (Ack!Next \/ UNCHANGED Ack!ackVars)
  <2>1. ScriptInv'
    BY <1>3 DEF ScriptInv, ApplyPush, peerVars
  <2> QED
    BY <1>3, <2>1, AckApply
<1>4. CASE UNCHANGED <<sent, got, applied>>
  <2>1. ScriptInv'
    BY <1>4 DEF ScriptInv
  <2> QED
    BY <1>4, <2>1, MapsSame, AckStutters
<1> QED
  BY <1>1, <1>2, <1>3, <1>4, OtherSteps

LEMMA AckInit ==
  ASSUME Init
  PROVE  ScriptInv /\ Ack!Init
<1>1. \A c \in Peers : sent[c] = <<>> /\ Len(sent[c]) = 0 /\ DOMAIN sent[c] = {}
  BY DEF Init
<1>2. ScriptInv
  BY <1>1 DEF ScriptInv
<1>3. \A b \in Pushes : b[2] \notin DOMAIN sent[b[1]]
  BY <1>1, PushIs
<1>4. Submitted = {} /\ applied = {} /\ \A b \in Pushes : AnswerTo(b) = "none"
  BY <1>3 DEF Submitted, InBound, AnswerTo, Init
<1>5. /\ PartsMap = [b \in Pushes |-> {}] /\ AppliedMap = [b \in Pushes |-> {}]
      /\ AnswerMap = [b \in Pushes |-> "none"]
  BY <1>4 DEF PartsMap, AppliedMap, AnswerMap, Records
<1>6. Ack!Init
  BY <1>5 DEF Ack!Init, PartsMap, AppliedMap, AnswerMap, Submitted
<1> QED
  BY <1>2, <1>6

\* Seen from the far end of the wire a push within max_records_per_batch keeps
\* the promise of submit_batch: it is answered once, and acknowledged only after
\* its records were applied.  The acknowledgement of a push beyond the bound,
\* which says nothing, is no such promise.
THEOREM TransportImplementsBatchAck == RepliesFit => (Spec => PushAcknowledged)
<1> SUFFICES ASSUME RepliesFit PROVE Spec => PushAcknowledged
  OBVIOUS
<1>1. Init => ScriptInv /\ Ack!Init
  BY AckInit
<1>2. TransportInv /\ ScriptInv /\ [Next]_vars => ScriptInv' /\ [Ack!Next]_(Ack!ackVars)
  BY AckStep
<1>3. Spec => []TransportInv
  BY TransportInvariant
<1> QED
  BY <1>1, <1>2, <1>3, PTL DEF Spec, PushAcknowledged, Ack!Spec
=============================================================================
