------------------------------- MODULE Chain -------------------------------
(***************************************************************************)
(* The data every other module speaks about: Bitcoin blocks, and what the  *)
(* WASM indexer does with one.  A block is an opaque value: its hash, its  *)
(* height and its parent are functions of it.  The indexer is a            *)
(* deterministic program, so the key updates it flushes for a block are a  *)
(* function of the block too: Updates[b][k] is how many times block b      *)
(* updates key k (the guest may set one key several times in a block, and  *)
(* a block may update nothing at all).                                     *)
(*                                                                         *)
(* Heights are u32 in the code; MaxHeight names the model's largest one.   *)
(***************************************************************************)
EXTENDS Integers

CONSTANTS
  Blocks,      \* the blocks of every fork the node may ever serve
  NoBlock,     \* "no hash record here", and the parent of a height-0 block
  Height,      \* [Blocks -> Heights]
  Parent,      \* [Blocks -> Blocks \cup {NoBlock}]
  Keys,        \* the keys of the index
  Updates,     \* [Blocks -> [Keys -> Nat]]
  MaxHeight    \* bound on heights

Heights == 0 .. MaxHeight

ASSUME ChainAssumption ==
  /\ MaxHeight \in Nat
  /\ NoBlock \notin Blocks
  /\ Height \in [Blocks -> Heights]
  /\ Parent \in [Blocks -> Blocks \cup {NoBlock}]
  /\ Updates \in [Blocks -> [Keys -> Nat]]
  /\ \A b \in Blocks :
        IF Height[b] = 0 THEN Parent[b] = NoBlock
        ELSE Parent[b] \in Blocks /\ Height[Parent[b]] = Height[b] - 1

(***************************************************************************)
(* One slot "key/i" of an append-only list holds "height:value".  The      *)
(* value is identified by the block that wrote it and by which of that     *)
(* block's updates of the key it was.                                      *)
(***************************************************************************)
Entry == [h : Heights, b : Blocks \cup {NoBlock}, n : Nat]

(* What a block appends to the list of key k. *)
UpdatesOf(b, k) ==
  [i \in 1 .. Updates[b][k] |-> [h |-> Height[b], b |-> b, n |-> i]]

(* The best chain that ends in block tip: the node's answer per height. *)
Ancestry(tip) ==
  LET at[h \in 0 .. Height[tip]] ==
        IF h = Height[tip] THEN tip ELSE Parent[at[h + 1]]
  IN  [h \in Heights |-> IF h <= Height[tip] THEN at[h] ELSE NoBlock]
=============================================================================
