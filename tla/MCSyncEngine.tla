---------------------------- MODULE MCSyncEngine ----------------------------
(***************************************************************************)
(* Two forks of heights 0 .. MaxHeight for SyncEngine; they share the      *)
(* blocks up to height ForkAt.  On fork "x" key "a" is updated on every    *)
(* height and key "b" only on the first height of the fork, which is the   *)
(* smallest chain on which a rollback of two heights can be cut off with   *)
(* one list trimmed and the other not; the first block of fork "y" updates *)
(* nothing, so rolling it back takes the full scan.                        *)
(***************************************************************************)
EXTENDS SyncEngine

CONSTANT ForkAt

MCBlocks == {<<"x", h>> : h \in Heights} \cup {<<"y", h>> : h \in ForkAt + 1 .. MaxHeight}
MCHeight == [b \in MCBlocks |-> b[2]]
MCParent == [b \in MCBlocks |-> IF b[2] = 0 THEN NoBlock
                                ELSE IF b[2] = ForkAt + 1 THEN <<"x", ForkAt>>
                                ELSE <<b[1], b[2] - 1>>]
MCKeys == {"a", "b"}
MCUpdates ==
  [b \in MCBlocks |->
     CASE b = <<"x", ForkAt + 1>> -> [a |-> 1, b |-> 1]
       [] b = <<"y", ForkAt + 1>> -> [a |-> 0, b |-> 0]
       [] b[1] = "y"              -> [a |-> 0, b |-> 1]
       [] OTHER                   -> [a |-> 1, b |-> 0]]
=============================================================================
