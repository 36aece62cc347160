-------------------------- MODULE MCStreamerSession --------------------------
(* Small sessions of one streamer process. *)
EXTENDS StreamerSession
===============================================================================
