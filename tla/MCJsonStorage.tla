---------------------------- MODULE MCJsonStorage ----------------------------
(* Two users, a host, and one request on users at a time (those on hosts need  *)
(* no request of their own); JsonStorageProofs has the safety properties for   *)
(* any number of them.                                                         *)
EXTENDS JsonStorage
===============================================================================
