------------------------------- MODULE Ledger -------------------------------
(***************************************************************************)
(* What the task pipelines see of the index and of the Bitcoin node.  The  *)
(* storage lock makes a commit and a rollback one step for every other     *)
(* task (IndexStore takes both apart), and every block of this chain       *)
(* updates something, so a rollback removes the hash records it passes.    *)
(* handle_reorg is two steps: the walk that compares local and remote      *)
(* hashes, and the rollback, between which other tasks run.                *)
(***************************************************************************)
EXTENDS Chain, Sequences, FiniteSets, TLC

CONSTANTS
  StartBlock,          \* --start-block
  MaxReorgDepth,       \* --max-reorg-depth
  ReorgCheckThreshold, \* --reorg-check-threshold
  MaxFaults            \* bound on reorganisations and failures together

ASSUME LedgerAssumption ==
  /\ StartBlock \in Heights
  /\ MaxReorgDepth \in Nat /\ ReorgCheckThreshold \in Nat /\ MaxFaults \in Nat

VARIABLES
  best,     \* the tip of the node's best chain
  moved,    \* history: the node has reorganised
  faults,   \* how many more reorganisations and failures there may be
  indexed,  \* __INTERNAL/height
  hash      \* /__INTERNAL/height-to-hash/{h}, NoBlock when missing

node   == <<best, moved>>
index  == <<indexed, hash>>
ledger == <<best, moved, faults, indexed, hash>>

SatSub(a, b) == IF a > b THEN a - b ELSE 0

Larger(a, b) == IF a > b THEN a ELSE b

Fault == faults > 0 /\ faults' = faults - 1

LedgerInit ==
  /\ best \in {b \in Blocks : Height[b] = StartBlock} /\ moved = FALSE
  /\ faults = MaxFaults
  /\ indexed = 0 /\ hash = [h \in Heights |-> NoBlock]

(***************************************************************************)
(* The node.                                                               *)
(***************************************************************************)
NodeGrows(t) ==
  /\ Parent[t] = best
  /\ best' = t
  /\ UNCHANGED <<moved, faults, index>>

(* The node moves to a branch that is at least as long. *)
NodeReorganises(t) ==
  /\ Fault
  /\ t # best /\ Parent[t] # best /\ Height[t] >= Height[best]
  /\ best' = t /\ moved' = TRUE
  /\ UNCHANGED index

(***************************************************************************)
(* The storage adapter.                                                    *)
(***************************************************************************)

(* The strict in-order check of commit_atomic. *)
FreshDb == indexed = 0 /\ hash[0] = NoBlock

Accepts(h) == FreshDb \/ h = indexed + 1

Commit(b) ==
  /\ hash' = [hash EXCEPT ![Height[b]] = b]
  /\ indexed' = Height[b]

(* rollback_to_height(r): for an r above the tip there is nothing to       *)
(* remove, and the indexed height is raised to r.                          *)
RollbackTo(r) ==
  /\ hash' = [h \in Heights |-> IF h \in r + 1 .. indexed THEN NoBlock ELSE hash[h]]
  /\ indexed' = r

(* Mutant: no continuity check. *)
ConnectsAlways(b) == TRUE

(* validate_block_connects: a missing record of the height before is no    *)
(* objection. *)
Connects(b) == Height[b] > 0 => hash[Height[b] - 1] \in {NoBlock, Parent[b]}

(***************************************************************************)
(* handle_reorg(c).                                                        *)
(***************************************************************************)

(* Near the node's tip, where handle_reorg is run. *)
NearTip(remote, h) == SatSub(remote, h) <= ReorgCheckThreshold

(* The heights the loop may look at. *)
WalkRange(c) == {h \in SatSub(c, MaxReorgDepth) .. c - 1 : h > 0}

(* The recorded heights that end the loop: the node has no block there, or *)
(* the same one.                                                           *)
WalkStops(c) ==
  {h \in WalkRange(c) : hash[h] # NoBlock
                        /\ (h > Height[best] \/ hash[h] = Ancestry(best)[h])}

(* Where the loop ends: at the highest of those, or below its range. *)
WalkEnd(c) ==
  IF WalkStops(c) # {} THEN CHOOSE h \in WalkStops(c) : \A x \in WalkStops(c) : x <= h
  ELSE IF WalkRange(c) = {} THEN SatSub(c, 1)
  ELSE SatSub(CHOOSE h \in WalkRange(c) : \A x \in WalkRange(c) : h <= x, 1)

(* A record above the end disagreed with the node, and the loop did not    *)
(* end because the node has no block ("don't reorg if node is failing").   *)
ReorgDetected(c) ==
  /\ \E h \in WalkRange(c) : h > WalkEnd(c) /\ hash[h] # NoBlock
  /\ WalkEnd(c) <= Height[best]
=============================================================================
