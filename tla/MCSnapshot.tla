----------------------------- MODULE MCSnapshot -----------------------------
(***************************************************************************)
(* Two forks of heights 0 .. MaxHeight for SnapshotLoop.  One key changes  *)
(* in every block, one only in blocks of odd height of the x fork, so that *)
(* an interval changes one key or both, and one only in block 0 and in the *)
(* first block of the y fork, which is one tracked change too many when it *)
(* replaces a block of odd height.                                         *)
(***************************************************************************)
EXTENDS SnapshotLoop

CONSTANT ForkAt

MCBlocks == {<<"x", h>> : h \in Heights} \cup {<<"y", h>> : h \in ForkAt + 1 .. MaxHeight}
MCHeight == [b \in MCBlocks |-> b[2]]
MCParent == [b \in MCBlocks |-> IF b[2] = 0 THEN NoBlock
                                ELSE IF b[2] = ForkAt + 1 THEN <<"x", ForkAt>>
                                ELSE <<b[1], b[2] - 1>>]
MCKeys == {"all", "odd", "rare"}
MCChanged(b) ==
  {"all"} \cup {k \in {"odd"} : b[1] = "x" /\ b[2] % 2 = 1}
          \cup {k \in {"rare"} : b[2] = 0 \/ b = <<"y", ForkAt + 1>>}
MCUpdates == [b \in MCBlocks |-> [k \in MCKeys |-> IF k \in MCChanged(b) THEN 1 ELSE 0]]
=============================================================================
