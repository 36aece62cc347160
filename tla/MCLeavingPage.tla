---------------------------- MODULE MCLeavingPage ----------------------------
(***************************************************************************)
(* Two calls of the game exit listener, six questions each; two seconds    *)
(* until the page counts as stuck and three until the dialog.              *)
(***************************************************************************)
EXTENDS LeavingPage
===============================================================================
