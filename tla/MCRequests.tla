----------------------------- MODULE MCRequests -----------------------------
(***************************************************************************)
(* Requests with one filter per stage, one action and one handler.         *)
(***************************************************************************)
EXTENDS Requests
=============================================================================
