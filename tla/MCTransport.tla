---------------------------- MODULE MCTransport -----------------------------
(* Small instances of Transport. *)
EXTENDS Transport, TLC

CONSTANTS client, raw

\* A TransportClient that pushes, and a peer that sends one of several things,
\* some of them wrong, without waiting.
TwoScripts ==
  (client :> {<<"PushRecords">>}) @@
  (raw :> {<<"QueryState", "Truncated">>, <<"BadPayload">>, <<"Ping">>, <<"Shutdown">>,
           <<"PushTooMany">>, <<"Pong">>})
=============================================================================
