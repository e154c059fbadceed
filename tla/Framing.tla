------------------------------ MODULE Framing -------------------------------
(***************************************************************************)
(* Wire framing (src/transport/frame.cpp).  A frame travels as two chunks, *)
(* its fixed header and its payload, because decode_frame decides in that  *)
(* order; a receive delivers any number of chunks.  The hash is abstracted *)
(* to whether it agrees with the payload.                                  *)
(***************************************************************************)
EXTENDS Integers, Sequences

\* FrameType, and two classes of frames that are refused: a header with a
\* wrong magic, version, type, flag or size, and a payload with another hash.
ClientFrames == {"Ping", "PushRecords", "QueryState", "Shutdown"}
ServerFrames == {"Pong", "PushAck", "StateReport", "ErrorReport"}
FrameTypes == ClientFrames \cup ServerFrames \cup {"BadHeader", "BadPayload"}

EncodeFrame(type, payload) ==
  << [part |-> "header", type |-> type],
     [part |-> "payload", type |-> type, payload |-> payload] >>

Incomplete == [status |-> "incomplete"]
Corrupt == [status |-> "corrupt"]

\* The header is judged as soon as it is there, the payload when the whole
\* frame is.
DecodeFrame(buffer) ==
  IF buffer = <<>> THEN Incomplete
  ELSE IF Head(buffer).type = "BadHeader" THEN Corrupt
  ELSE IF Len(buffer) = 1 THEN Incomplete
  ELSE IF Head(buffer).type = "BadPayload" THEN Corrupt
  ELSE [status |-> "complete", type |-> buffer[2].type, payload |-> buffer[2].payload]

\* buffer.erase(0, consumed): one whole frame.
Consume(buffer) == SubSeq(buffer, 3, Len(buffer))
=============================================================================
