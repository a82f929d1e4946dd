----------------------------- MODULE MCStreams -----------------------------
(* Streams with a short message and one whose frame is above the limit. *)
EXTENDS Streams, TLC

CONSTANTS ack, history

MCPayload == (ack :> <<2, 1>>) @@ (history :> <<4, 0, 1>>)
=============================================================================
