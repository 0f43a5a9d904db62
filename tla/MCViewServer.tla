---------------------------- MODULE MCViewServer ----------------------------
(***************************************************************************)
(* Small instances of ViewServer: two requests with one permit.            *)
(***************************************************************************)
EXTENDS ViewServer
=============================================================================
