----------------------------- MODULE Transport ------------------------------
(***************************************************************************)
(* The ingest and query transport: TransportServer (src/transport/         *)
(* server.cpp), with its accept loop, one handler thread per connection    *)
(* and its stop path, and the peers that talk to it, TransportClient       *)
(* (src/transport/client.cpp) among them.                                  *)
(*                                                                         *)
(* The observatory is what submit_batch promises (module BatchAck): a push *)
(* is applied in one step, then its completion is signalled.  Each peer    *)
(* connects once.  A send to a peer that is gone may succeed, fail or, as  *)
(* send_all passes no flag against SIGPIPE, end the process.  Statistics   *)
(* and the texts of replies are left out.                                  *)
(***************************************************************************)
EXTENDS Framing, FiniteSets

CONSTANTS
  Peers,
  Pipelining,          \* peers that do not wait for a reply; a TransportClient does
  Scripts,             \* bound: the sequences of requests each peer may send
  MaxConnections,      \* options.max_connections
  ReclaimFactor,       \* thread handles kept per connection (4 in the code)
  ConnectionLimit,     \* options.connection_limit, 0 for none
  MaxAcceptFailures,   \* kMaxConsecutiveAcceptFailures (64 in the code)
  MaxReadBuffer,       \* options.max_read_buffer_bytes, in chunks
  Backlog,             \* connections the listener queues
  PersistConfigured,   \* options.persist_on_close, and the observatory has a path
  Oversized            \* replies too long for options.max_payload_bytes

\* A frame, a push of more records than a batch may have, half a frame.
RequestKinds == FrameTypes \cup {"PushTooMany", "Truncated"}
Wake == "wake"                        \* the connection wake_accept_loop makes

\* Nothing follows half a frame.
ASSUME TransportAssumption ==
  /\ IsFiniteSet(Peers) /\ Pipelining \subseteq Peers
  /\ Scripts \in [Peers -> SUBSET Seq(RequestKinds)] /\ Wake \notin Peers
  /\ \A c \in Peers : \A script \in Scripts[c] : \A i \in DOMAIN script :
       script[i] = "Truncated" => i = Len(script)
  /\ MaxConnections \in Nat \ {0} /\ ReclaimFactor \in Nat \ {0}
  /\ ConnectionLimit \in Nat /\ MaxAcceptFailures \in Nat \ {0}
  /\ MaxReadBuffer \in Nat \ {0} /\ Backlog \in Nat \ {0}
  /\ PersistConfigured \in BOOLEAN /\ Oversized \subseteq ServerFrames

VARIABLES
  peer,         \* each peer: "out", "open" or "over"
  sent,         \* its requests, each with the pushes known acknowledged then
  got,          \* the replies it received
  toServer,     \* chunks on the way to the server
  toPeer,       \* replies on the way back
  pc,           \* where the handler thread of each connection is
  buffer,       \* its read buffer
  eof,          \* its `closed'
  finish,       \* its `finish'
  reply,        \* its response
  shut,         \* connections the server has closed
  backlog,      \* connections waiting for accept
  loop,         \* where serve() is
  failures,     \* consecutive_failures
  total,        \* total_connections_
  active,       \* active_connections_
  threads,      \* connection_threads_
  stop,         \* stop_requested_
  owner,        \* another thread inside request_stop
  applied,      \* pushes applied by the observatory
  saved,        \* <<the pushes in the snapshot serve() wrote>>, or <<>>
  unwoken       \* history: a stop did not get through to the accept loop

peerVars == <<peer, sent, got>>
wireVars == <<toServer, toPeer>>
handlerVars == <<pc, buffer, eof, finish, reply, shut>>
loopVars == <<loop, failures, total, threads, saved>>
vars == <<peerVars, wireVars, handlerVars, loopVars, active, backlog, stop, owner, applied,
          unwoken>>

NoReply == [type |-> "none"]
Pushes == UNION {{c} \X UNION {DOMAIN script : script \in Scripts[c]} : c \in Peers}

Init ==
  /\ peer = [c \in Peers |-> "out"]
  /\ sent = [c \in Peers |-> <<>>]
  /\ got = [c \in Peers |-> <<>>]
  /\ toServer = [c \in Peers |-> <<>>]
  /\ toPeer = [c \in Peers |-> <<>>]
  /\ pc = [c \in Peers |-> "none"]
  /\ buffer = [c \in Peers |-> <<>>]
  /\ eof = [c \in Peers |-> FALSE]
  /\ finish = [c \in Peers |-> FALSE]
  /\ reply = [c \in Peers |-> NoReply]
  /\ shut = {}
  /\ backlog = <<>>
  /\ loop = "check" /\ failures = 0 /\ total = 0 /\ active = 0 /\ threads = {}
  /\ stop = FALSE /\ owner = "idle"
  /\ applied = {} /\ saved = <<>> /\ unwoken = FALSE

-----------------------------------------------------------------------------
(***************************************************************************)
(* Peers.                                                                  *)
(***************************************************************************)
\* Pushes of records whose acknowledgement their peer has received.
Acked ==
  {b \in Pushes : /\ b[2] \in DOMAIN got[b[1]]
                  /\ got[b[1]][b[2]].type = "PushAck"
                  /\ sent[b[1]][b[2]].kind = "PushRecords"}

\* Requests that have a reply to come.
Expected(c) == SelectSeq(sent[c], LAMBDA r : r.kind # "Truncated")
Waiting(c) == peer[c] = "open" /\ Len(got[c]) < Len(Expected(c))

Returned == {"returned", "failed", "gone"}                  \* serve() is over
Listening == loop \notin {"persist"} \cup Returned          \* listening_

\* The listener completes a connection before it is accepted.
Connect(c) ==
  /\ peer[c] = "out"
  /\ IF loop = "gone"
     THEN peer' = [peer EXCEPT ![c] = "over"] /\ UNCHANGED backlog
     ELSE /\ Len(backlog) < Backlog
          /\ peer' = [peer EXCEPT ![c] = "open"]
          /\ backlog' = Append(backlog, c)
  /\ UNCHANGED <<sent, got, wireVars, handlerVars, loopVars, active, stop, owner, applied,
                 unwoken>>

\* What a request puts on the wire.
Chunks(c, kind) ==
  LET push == <<c, Len(sent[c]) + 1>> IN
  CASE kind = "PushRecords" -> EncodeFrame(kind, [push |-> push, tooMany |-> FALSE])
    [] kind = "PushTooMany" -> EncodeFrame("PushRecords", [push |-> push, tooMany |-> TRUE])
    [] kind = "Truncated"   -> SubSeq(EncodeFrame("Ping", "empty"), 1, 1)
    [] OTHER                -> EncodeFrame(kind, "empty")

\* The request is the next one of some script that began the same way.
Scripted(c, kind) ==
  \E script \in Scripts[c] :
    /\ Len(sent[c]) < Len(script) /\ script[Len(sent[c]) + 1] = kind
    /\ \A i \in DOMAIN sent[c] : script[i] = sent[c][i].kind

\* exchange() sends when no reply is outstanding.
Send(c, kind) ==
  /\ peer[c] = "open" /\ Scripted(c, kind)
  /\ c \in Pipelining \/ ~Waiting(c)
  /\ sent' = [sent EXCEPT ![c] = Append(@, [kind |-> kind, known |-> Acked])]
  /\ toServer' = IF c \in shut THEN toServer
                 ELSE [toServer EXCEPT ![c] = @ \o Chunks(c, kind)]
  /\ UNCHANGED <<peer, got, toPeer, handlerVars, loopVars, active, backlog, stop, owner,
                 applied, unwoken>>

\* receive_frame returns a reply.
ReceiveReply(c) ==
  /\ peer[c] = "open" /\ toPeer[c] # <<>>
  /\ got' = [got EXCEPT ![c] = Append(@, Head(toPeer[c]))]
  /\ toPeer' = [toPeer EXCEPT ![c] = Tail(@)]
  /\ UNCHANGED <<peer, sent, toServer, handlerVars, loopVars, active, backlog, stop,
                 owner, applied, unwoken>>

\* receive_frame finds the connection closed.  A connection closed over
\* unread data may take undelivered replies with it.
SeeClosed(c) ==
  /\ peer[c] = "open" /\ c \in shut
  /\ toPeer[c] = <<>> \/ toServer[c] # <<>>
  /\ peer' = [peer EXCEPT ![c] = "over"]
  /\ UNCHANGED <<sent, got, wireVars, handlerVars, loopVars, active, backlog, stop, owner,
                 applied, unwoken>>

\* A peer may go away at any time.
Close(c) ==
  /\ peer[c] = "open"
  /\ peer' = [peer EXCEPT ![c] = "over"]
  /\ UNCHANGED <<sent, got, wireVars, handlerVars, loopVars, active, backlog, stop, owner,
                 applied, unwoken>>

PeerStep(c) ==
  \/ Connect(c) \/ ReceiveReply(c) \/ SeeClosed(c) \/ Close(c)
  \/ \E kind \in RequestKinds : Send(c, kind)

-----------------------------------------------------------------------------
(***************************************************************************)
(* request_stop: the flag, then a connection that wakes the accept loop.   *)
(***************************************************************************)
\* Mutant: the accept loop is not woken.
WakeAcceptLoop_Silent == UNCHANGED <<backlog, unwoken>>

\* A full backlog wakes the loop by itself.  The connection is not made when
\* the host is not a loopback one, or when it is not resolved or reached.
WakeAcceptLoop ==
  \/ /\ Listening
     /\ backlog' = IF Len(backlog) < Backlog THEN Append(backlog, Wake) ELSE backlog
     /\ UNCHANGED unwoken
  \/ Listening /\ unwoken' = TRUE /\ UNCHANGED backlog
  \/ ~Listening /\ UNCHANGED <<backlog, unwoken>>

RequestStop ==
  /\ owner = "idle"
  /\ stop' = TRUE
  /\ owner' = "wake"
  /\ UNCHANGED <<peerVars, wireVars, handlerVars, loopVars, active, backlog, applied,
                 unwoken>>

OwnerWake ==
  /\ owner = "wake"
  /\ WakeAcceptLoop
  /\ owner' = "done"
  /\ UNCHANGED <<peerVars, wireVars, handlerVars, loopVars, active, stop, applied>>

-----------------------------------------------------------------------------
(***************************************************************************)
(* handle_connection.                                                      *)
(***************************************************************************)
Goto(c, where) == pc' = [pc EXCEPT ![c] = where]

\* The inner loop over a read buffer: a frame to handle or to refuse, or the
\* condition of the outer loop.
AfterBreak(c, ended) == IF finish[c] \/ ended THEN "close" ELSE "recv"
Continue(c, data, ended) ==
  IF DecodeFrame(data) = Incomplete THEN AfterBreak(c, ended) ELSE "decode"

\* receive_once brings any number of chunks; the buffer is bounded.
Receive(c) ==
  /\ pc[c] = "recv"
  /\ \E k \in 1..Len(toServer[c]) :
       LET data == buffer[c] \o SubSeq(toServer[c], 1, k) IN
       /\ buffer' = [buffer EXCEPT ![c] = data]
       /\ toServer' = [toServer EXCEPT ![c] = SubSeq(@, k + 1, Len(@))]
       /\ Goto(c, IF Len(data) > MaxReadBuffer THEN "close" ELSE Continue(c, data, FALSE))
  /\ UNCHANGED <<peerVars, toPeer, eof, finish, reply, shut, loopVars, active, backlog,
                 stop, owner, applied, unwoken>>

\* The peer is gone: the end of the stream, or an error.
ReceiveEnd(c) ==
  /\ pc[c] = "recv" /\ peer[c] = "over"
  /\ \/ /\ toServer[c] = <<>>
        /\ eof' = [eof EXCEPT ![c] = TRUE]
        /\ Goto(c, Continue(c, buffer[c], TRUE))
     \/ Goto(c, "close") /\ UNCHANGED eof
  /\ UNCHANGED <<peerVars, wireVars, buffer, finish, reply, shut, loopVars, active,
                 backlog, stop, owner, applied, unwoken>>

Decoded(c) == DecodeFrame(buffer[c])

Deliver(c, r) ==
  toPeer' = IF peer[c] = "over" THEN toPeer ELSE [toPeer EXCEPT ![c] = Append(@, r)]

\* Mutant: a bad frame does not end the connection.
RefuseFrame_ReadOn(c) ==
  /\ pc[c] = "decode" /\ Decoded(c) = Corrupt
  /\ Deliver(c, [type |-> "ErrorReport"])
  /\ Goto(c, "decode")
  /\ UNCHANGED <<peerVars, toServer, buffer, eof, finish, reply, shut, loopVars, active,
                 backlog, stop, owner, applied, unwoken>>

\* A bad frame ends the connection, with an error report if it can be sent.
RefuseFrame(c) ==
  /\ pc[c] = "decode" /\ Decoded(c) = Corrupt
  /\ IF "ErrorReport" \in Oversized THEN UNCHANGED toPeer
     ELSE Deliver(c, [type |-> "ErrorReport"])
  /\ finish' = [finish EXCEPT ![c] = TRUE]
  /\ Goto(c, "close")
  /\ UNCHANGED <<peerVars, toServer, buffer, eof, reply, shut, loopVars, active, backlog,
                 stop, owner, applied, unwoken>>

\* A complete frame of one of the types leaves the buffer.
Take(c, types) ==
  /\ pc[c] = "decode"
  /\ Decoded(c).status = "complete" /\ Decoded(c).type \in types
  /\ buffer' = [buffer EXCEPT ![c] = Consume(@)]

Respond(c, r) == reply' = [reply EXCEPT ![c] = r] /\ Goto(c, "reply")

HandlePing(c) ==
  /\ Take(c, {"Ping"})
  /\ Respond(c, [type |-> "Pong"])
  /\ UNCHANGED <<peerVars, wireVars, eof, finish, shut, loopVars, active, backlog, stop,
                 owner, applied, unwoken>>

HandleServerFrame(c) ==
  /\ Take(c, ServerFrames)
  /\ Respond(c, [type |-> "ErrorReport"])
  /\ UNCHANGED <<peerVars, wireVars, eof, finish, shut, loopVars, active, backlog, stop,
                 owner, applied, unwoken>>

\* state_report: the peer sees the pushes applied by now.
HandleQuery(c) ==
  /\ Take(c, {"QueryState"})
  /\ Respond(c, [type |-> "StateReport", shows |-> applied])
  /\ UNCHANGED <<peerVars, wireVars, eof, finish, shut, loopVars, active, backlog, stop,
                 owner, applied, unwoken>>

\* Mutant: the push is acknowledged as soon as it is handed over.
HandlePush_AckAtOnce(c) ==
  /\ Take(c, {"PushRecords"})
  /\ Respond(c, [type |-> "PushAck", push |-> Decoded(c).payload.push])
  /\ UNCHANGED <<peerVars, wireVars, eof, finish, shut, loopVars, active, backlog, stop,
                 owner, applied, unwoken>>

\* Too many records: acknowledged with none submitted.  Otherwise the batch
\* is submitted and its completion awaited, or submit_batch refuses it.
HandlePush(c) ==
  /\ Take(c, {"PushRecords"})
  /\ LET batch == Decoded(c).payload IN
     \/ batch.tooMany /\ Respond(c, [type |-> "PushAck", push |-> batch.push])
     \/ ~batch.tooMany /\ Respond(c, [type |-> "ErrorReport"])
     \/ /\ ~batch.tooMany
        /\ reply' = [reply EXCEPT ![c] = [type |-> "PushAck", push |-> batch.push]]
        /\ Goto(c, "await")
  /\ UNCHANGED <<peerVars, wireVars, eof, finish, shut, loopVars, active, backlog, stop,
                 owner, applied, unwoken>>

\* The observatory applies the batch and signals its completion.
ApplyPush(c) ==
  /\ pc[c] = "await"
  /\ applied' = applied \cup {reply[c].push}
  /\ Goto(c, "reply")
  /\ UNCHANGED <<peerVars, wireVars, buffer, eof, finish, reply, shut, loopVars, active,
                 backlog, stop, owner, unwoken>>

HandleShutdown(c) ==
  /\ Take(c, {"Shutdown"})
  /\ reply' = [reply EXCEPT ![c] = [type |-> "Pong"]]
  /\ finish' = [finish EXCEPT ![c] = TRUE]
  /\ stop' = TRUE
  /\ Goto(c, "wake")
  /\ UNCHANGED <<peerVars, wireVars, eof, shut, loopVars, active, backlog, owner, applied,
                 unwoken>>

HandlerWake(c) ==
  /\ pc[c] = "wake"
  /\ WakeAcceptLoop
  /\ Goto(c, "reply")
  /\ UNCHANGED <<peerVars, wireVars, buffer, eof, finish, reply, shut, loopVars, active,
                 stop, owner, applied>>

Sendable(c) == pc[c] = "reply" /\ reply[c].type \notin Oversized

SendReply(c) ==
  /\ Sendable(c)
  /\ Deliver(c, reply[c])
  /\ reply' = [reply EXCEPT ![c] = NoReply]
  /\ Goto(c, IF finish[c] THEN "close" ELSE Continue(c, buffer[c], eof[c]))
  /\ UNCHANGED <<peerVars, toServer, buffer, eof, finish, shut, loopVars, active, backlog,
                 stop, owner, applied, unwoken>>

\* encode_frame refuses the response, or send_all fails.
DropReply(c) ==
  /\ pc[c] = "reply"
  /\ reply[c].type \in Oversized \/ peer[c] = "over"
  /\ reply' = [reply EXCEPT ![c] = NoReply]
  /\ Goto(c, AfterBreak(c, eof[c]))
  /\ UNCHANGED <<peerVars, wireVars, buffer, eof, finish, shut, loopVars, active, backlog,
                 stop, owner, applied, unwoken>>

\* Mutant: the socket is left open.
CloseSocket_Leaked(c) ==
  /\ pc[c] = "close"
  /\ buffer' = [buffer EXCEPT ![c] = <<>>]
  /\ Goto(c, "leave")
  /\ UNCHANGED <<peerVars, wireVars, eof, finish, reply, shut, loopVars, active, backlog,
                 stop, owner, applied, unwoken>>

CloseSocket(c) ==
  /\ pc[c] = "close"
  /\ shut' = shut \cup {c}
  /\ buffer' = [buffer EXCEPT ![c] = <<>>]
  /\ Goto(c, "leave")
  /\ UNCHANGED <<peerVars, wireVars, eof, finish, reply, loopVars, active, backlog, stop,
                 owner, applied, unwoken>>

\* The thread gives its place back and ends.
Leave(c) ==
  /\ pc[c] = "leave"
  /\ active' = active - 1
  /\ Goto(c, "ended")
  /\ UNCHANGED <<peerVars, wireVars, buffer, eof, finish, reply, shut, loopVars, backlog,
                 stop, owner, applied, unwoken>>

HandlerStep(c) ==
  \/ Receive(c) \/ ReceiveEnd(c) \/ RefuseFrame(c)
  \/ HandlePing(c) \/ HandleServerFrame(c) \/ HandleQuery(c) \/ HandlePush(c)
  \/ ApplyPush(c) \/ HandleShutdown(c) \/ HandlerWake(c)
  \/ SendReply(c) \/ DropReply(c) \/ CloseSocket(c) \/ Leave(c)

-----------------------------------------------------------------------------
(***************************************************************************)
(* serve().                                                                *)
(***************************************************************************)
LimitReached == ConnectionLimit # 0 /\ total >= ConnectionLimit

CheckStop ==
  /\ loop = "check"
  /\ loop' = IF stop \/ LimitReached THEN "join" ELSE "accept"
  /\ UNCHANGED <<peerVars, wireVars, handlerVars, failures, total, threads, saved, active,
                 backlog, stop, owner, applied, unwoken>>

Ended(T) == \A c \in T : pc[c] = "ended"

\* A connection is taken from the backlog: dropped when a stop was asked for,
\* refused when every place is taken, handled otherwise.
Accept ==
  /\ loop = "accept" /\ backlog # <<>>
  /\ backlog' = Tail(backlog)
  /\ failures' = 0
  /\ LET c == Head(backlog)
         kept == threads \cup {c}
     IN  CASE stop ->
                /\ shut' = shut \cup ({c} \ {Wake})
                /\ loop' = "join"
                /\ UNCHANGED <<pc, total, active, threads>>
           [] ~stop /\ active >= MaxConnections ->
                /\ shut' = shut \cup {c}
                /\ loop' = "check"
                /\ total' = total + 1
                /\ UNCHANGED <<pc, active, threads>>
           [] OTHER ->
                /\ Goto(c, "recv")
                /\ total' = total + 1
                /\ active' = active + 1
                /\ threads' = kept
                /\ loop' = IF Cardinality(kept) >= ReclaimFactor * MaxConnections
                           THEN "reclaim" ELSE "check"
                /\ UNCHANGED shut
  /\ UNCHANGED <<peerVars, wireVars, buffer, eof, finish, reply, saved, stop, owner,
                 applied, unwoken>>

AcceptFails ==
  /\ loop = "accept"
  /\ failures' = IF stop THEN failures ELSE failures + 1
  /\ loop' = IF stop \/ failures + 1 >= MaxAcceptFailures THEN "join" ELSE "check"
  /\ UNCHANGED <<peerVars, wireVars, handlerVars, total, threads, saved, active, backlog,
                 stop, owner, applied, unwoken>>

\* Thread handles are joined, the ones of live connections too, when there
\* are too many of them.
Reclaim ==
  /\ loop = "reclaim" /\ Ended(threads)
  /\ threads' = {}
  /\ loop' = "check"
  /\ UNCHANGED <<peerVars, wireVars, handlerVars, failures, total, saved, active, backlog,
                 stop, owner, applied, unwoken>>

\* Mutant: the connection threads are detached.
Join_Detached ==
  /\ loop = "join"
  /\ threads' = {}
  /\ loop' = "persist"
  /\ UNCHANGED <<peerVars, wireVars, handlerVars, failures, total, saved, active, backlog,
                 stop, owner, applied, unwoken>>

Join ==
  /\ loop = "join" /\ Ended(threads)
  /\ threads' = {}
  /\ loop' = "persist"
  /\ UNCHANGED <<peerVars, wireVars, handlerVars, failures, total, saved, active, backlog,
                 stop, owner, applied, unwoken>>

\* The snapshot is written or its failure returned, if one is wanted at all.
PersistOnClose ==
  /\ loop = "persist"
  /\ \E written \in BOOLEAN :
       /\ saved' = IF PersistConfigured /\ written THEN <<applied>> ELSE saved
       /\ loop' = IF PersistConfigured /\ ~written THEN "failed" ELSE "returned"
  /\ UNCHANGED <<peerVars, wireVars, handlerVars, failures, total, threads, active,
                 backlog, stop, owner, applied, unwoken>>

\* The server is destroyed, the listener and what it had queued with it.
Destroy ==
  /\ loop \in {"returned", "failed"} /\ owner # "wake"
  /\ stop' = TRUE
  /\ shut' = shut \cup ({backlog[i] : i \in DOMAIN backlog} \ {Wake})
  /\ backlog' = <<>>
  /\ loop' = "gone"
  /\ UNCHANGED <<peerVars, wireVars, pc, buffer, eof, finish, reply, failures, total,
                 threads, saved, active, owner, applied, unwoken>>

Attempts(c) ==
  \/ Sendable(c)
  \/ pc[c] = "decode" /\ Decoded(c) = Corrupt /\ "ErrorReport" \notin Oversized

\* A send to a peer that is gone raises SIGPIPE: the process ends as it is.
BrokenPipe(c) ==
  /\ peer[c] = "over" /\ Attempts(c)
  /\ pc' = [d \in Peers |-> IF pc[d] = "none" THEN "none" ELSE "ended"]
  /\ shut' = {d \in Peers : peer[d] # "out"}
  /\ active' = 0 /\ threads' = {} /\ backlog' = <<>>
  /\ loop' = "gone" /\ owner' = "done"
  /\ UNCHANGED <<peerVars, wireVars, buffer, eof, finish, reply, failures, total, saved,
                 stop, applied, unwoken>>

LoopStep == CheckStop \/ Accept \/ Reclaim \/ Join \/ PersistOnClose \/ Destroy

Finished ==
  /\ loop = "gone" /\ owner # "wake" /\ \A c \in Peers : peer[c] = "over"
  /\ UNCHANGED vars

Next ==
  \/ \E c \in Peers : PeerStep(c) \/ HandlerStep(c) \/ BrokenPipe(c)
  \/ RequestStop \/ OwnerWake
  \/ LoopStep \/ AcceptFails
  \/ Finished

(***************************************************************************)
(* Threads that can run do run, and a reply on its way arrives.  Nothing   *)
(* makes a peer go away: there is no idle timeout.                         *)
(***************************************************************************)
Fairness ==
  /\ \A c \in Peers : WF_vars(HandlerStep(c)) /\ WF_vars(ReceiveReply(c) \/ SeeClosed(c))
  /\ WF_vars(OwnerWake) /\ WF_vars(LoopStep)

Spec == Init /\ [][Next]_vars /\ Fairness

-----------------------------------------------------------------------------
(***************************************************************************)
(* Properties.                                                             *)
(***************************************************************************)
InBound(b) == b[2] \in DOMAIN sent[b[1]] /\ sent[b[1]][b[2]].kind = "PushRecords"

\* What a peer knows of a push: the reply in the place of its request.
AnswerTo(b) ==
  IF ~InBound(b) THEN "none"
  ELSE IF b[2] \notin DOMAIN got[b[1]] THEN "pending"
  ELSE IF got[b[1]][b[2]].type = "PushAck" THEN "acked" ELSE "refused"

Records(b, S) == IF b \in S THEN {"records"} ELSE {}

Ack == INSTANCE BatchAck WITH
  Batches <- Pushes,
  Parts   <- {"records"},
  parts   <- [b \in Pushes |-> Records(b, {p \in Pushes : InBound(p)})],
  applied <- [b \in Pushes |-> Records(b, applied)],
  answer  <- [b \in Pushes |-> AnswerTo(b)]

\* Seen from the far end of the wire a push within max_records_per_batch keeps
\* the promise of submit_batch: it is answered once, and acknowledged only
\* after its records were applied.  A push beyond the bound is no batch: it is
\* acknowledged too, with nothing applied and no error.
PushAcknowledged == Ack!Spec

\* A query sent after some peer received the acknowledgement of a push, on
\* whatever connection, reports that push.
QueriesSeeAcked ==
  \A c \in Peers : \A i \in DOMAIN got[c] :
    got[c][i].type = "StateReport" => sent[c][i].known \subseteq got[c][i].shows

ReplyTypes(kind) ==
  CASE kind \in {"Ping", "Shutdown"} -> {"Pong"}
    [] kind = "QueryState"           -> {"StateReport"}
    [] kind = "PushRecords"          -> {"PushAck", "ErrorReport"}
    [] kind = "PushTooMany"          -> {"PushAck"}
    [] OTHER                         -> {"ErrorReport"}

\* Replies come one per request and in the order of the requests, however the
\* frames were cut up and wherever a bad one stands.
RepliesMatch ==
  \A c \in Peers :
    /\ Len(got[c]) <= Len(sent[c])
    /\ \A i \in DOMAIN got[c] : got[c][i].type \in ReplyTypes(sent[c][i].kind)

\* When serve() succeeds the snapshot it was asked for is written, and a
\* snapshot it wrote holds every push that was or will ever be acknowledged: no
\* handler is still at work then.
AckedIsSaved ==
  /\ PersistConfigured /\ loop = "returned" => saved # <<>>
  /\ \A i \in DOMAIN saved : applied \subseteq saved[i] /\ Acked \subseteq saved[i]

\* No peer keeps a connection for ever without waiting for a reply.  The code
\* does not see to it: a handler waits in recv without a deadline.
PeersHangUp == \A c \in Peers : []<>(peer[c] # "open" \/ Waiting(c))

\* A stop, by Shutdown frame or from another thread, ends serve(), provided
\* that the connection wake_accept_loop makes gets through and that peers with
\* nothing to wait for hang up.
ServeReturns == PeersHangUp => (stop ~> loop \in Returned \/ unwoken)

\* Whoever sent a whole frame gets a reply or sees the connection closed,
\* provided that peers with nothing to wait for hang up.
EveryRequestAnswered == PeersHangUp => \A c \in Peers : Waiting(c) ~> ~Waiting(c)

\* That is so as long as every reply fits a frame: when encode_frame refuses one
\* the handler goes on to read, without a word to the peer.
FittingRequestsAnswered == Oversized = {} => EveryRequestAnswered
=============================================================================
