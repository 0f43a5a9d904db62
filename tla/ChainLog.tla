------------------------------ MODULE ChainLog ------------------------------
(***************************************************************************)
(* What the index store promises, without its keys, pointers and writes:   *)
(* a chain of blocks that begins with the start block, grows by the block  *)
(* of the next height, and is cut back, in one step and never below its    *)
(* first block, by a rollback.                                             *)
(***************************************************************************)
EXTENDS Integers

CONSTANTS Blocks, Height, StartBlock

VARIABLE chain   \* the block of every height from StartBlock to the top

Empty == [h \in {} |-> 0]

Init == chain = Empty

Append(b) ==
  /\ \/ DOMAIN chain = {} /\ Height[b] = StartBlock
     \/ DOMAIN chain # {} /\ DOMAIN chain = StartBlock .. Height[b] - 1
  /\ chain' = [h \in StartBlock .. Height[b] |-> IF h = Height[b] THEN b ELSE chain[h]]

Cut(r) ==
  /\ r \in DOMAIN chain
  /\ chain' = [h \in StartBlock .. r |-> chain[h]]

Next ==
  \/ \E b \in Blocks : Append(b)
  \/ \E r \in DOMAIN chain : Cut(r)

Spec == Init /\ [][Next]_chain
=============================================================================
