-------------------------- MODULE MCViewerReconnect --------------------------
(* The waits of stream.ts in coarse ticks: the delays grow from nothing to *)
(* as long as the look after an attempt takes, the window has room for     *)
(* several attempts, and creating a Stream waits less than any delay but   *)
(* the first.                                                              *)
EXTENDS ViewerReconnect

MCStreams == 1..5
MCDelays == <<0, 2>>
=============================================================================
