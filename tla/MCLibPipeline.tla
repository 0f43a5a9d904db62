--------------------------- MODULE MCLibPipeline ---------------------------
(***************************************************************************)
(* Two forks of heights 0 .. MaxHeight for LibPipeline; they share the     *)
(* blocks up to height ForkAt.                                             *)
(***************************************************************************)
EXTENDS LibPipeline

CONSTANT ForkAt

MCBlocks == {<<"x", h>> : h \in Heights} \cup {<<"y", h>> : h \in ForkAt + 1 .. MaxHeight}
MCHeight == [b \in MCBlocks |-> b[2]]
MCParent == [b \in MCBlocks |-> IF b[2] = 0 THEN NoBlock
                                ELSE IF b[2] = ForkAt + 1 THEN <<"x", ForkAt>>
                                ELSE <<b[1], b[2] - 1>>]
MCKeys == {}
MCUpdates == [b \in MCBlocks |-> [k \in MCKeys |-> 0]]
=============================================================================
