---------------------------- MODULE MCIndexStore ----------------------------
(***************************************************************************)
(* A two-fork chain of heights 0 .. MaxHeight for StoreReader.  Block       *)
(* <<f, h>> is the block of fork f at height h; the forks share the block  *)
(* of height 0.  The updates are chosen so that key "a" is written twice   *)
(* by one block and on consecutive heights, key "b" only by one of the two *)
(* forks, and one block writes nothing (it leaves no manifest).            *)
(***************************************************************************)
EXTENDS StoreReader

MCBlocks == {<<"x", h>> : h \in Heights} \cup {<<"y", h>> : h \in 1 .. MaxHeight}
MCHeight == [b \in MCBlocks |-> b[2]]
MCParent == [b \in MCBlocks |-> IF b[2] = 0 THEN NoBlock
                                ELSE IF b[2] = 1 THEN <<"x", 0>> ELSE <<b[1], b[2] - 1>>]
MCKeys == {"a", "b"}
MCUpdates ==
  [b \in MCBlocks |->
     CASE b[2] = 0     -> [a |-> 1, b |-> 0]
       [] b = <<"x", 1>> -> [a |-> 1, b |-> 1]
       [] b = <<"y", 1>> -> [a |-> 0, b |-> 0]
       [] b = <<"x", 2>> -> [a |-> 2, b |-> 0]
       [] b = <<"y", 2>> -> [a |-> 0, b |-> 1]
       [] OTHER          -> [a |-> 1, b |-> 1]]
=============================================================================
