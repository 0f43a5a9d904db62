---------------------------- MODULE MCNodeClient ----------------------------
(***************************************************************************)
(* Two tasks that ask for the block of one height.  With three attempts a  *)
(* request outlives one new cookie, and fails on one and a fault.          *)
(***************************************************************************)
EXTENDS NodeClient
=============================================================================
