----------------------------- MODULE SyncEngine -----------------------------
(***************************************************************************)
(* The sync engine on top of IndexStore, as rockshrew-mono drives it with  *)
(* one block in flight, next to a Bitcoin node whose best chain changes.   *)
(*                                                                         *)
(* A round is get_next_block_data (which first runs handle_reorg near the  *)
(* tip), process_block, and the result handler, which runs handle_reorg    *)
(* again for a block that does not connect.  A process that starts runs    *)
(* init: the startup heal of the three height pointers, and the choice of  *)
(* current_height.  Both walks query the node once per height, so the node *)
(* may change its chain, or stop answering, between two steps.             *)
(***************************************************************************)
EXTENDS IndexStore

CONSTANTS
  MaxReorgDepth,       \* --max-reorg-depth
  ReorgCheckThreshold, \* --reorg-check-threshold
  HashScanWindow,      \* how far the heal looks for a hash record (256)
  MaxAttempts,         \* MAX_ATOMIC_COMMIT_ATTEMPTS
  MaxFaults,           \* bound on reorganisations, failures and crashes together
  MovePhases,          \* the phases in which the node may reorganise
  FirstBlockFails,     \* may every attempt at the first block fail?
  Shrink,              \* may the node's new branch be shorter?
  FlipBack,            \* may the node return to a branch it has left?
  WriteFaults          \* may a write of a rollback fail without a crash?

(* A rollback removes at most MaxReorgDepth hash records, so the heal finds *)
(* one within its window. *)
ASSUME EngineAssumption ==
  /\ MaxReorgDepth \in Nat /\ ReorgCheckThreshold \in Nat /\ HashScanWindow \in Nat
  /\ MaxReorgDepth <= HashScanWindow
  /\ MaxAttempts \in Nat \ {0} /\ MaxFaults \in Nat
  /\ {FirstBlockFails, Shrink, FlipBack, WriteFaults} \subseteq BOOLEAN

VARIABLES
  best,      \* the tip of the node's best chain
  left,      \* history: the blocks the node has reorganised away
  faults,    \* how many more reorganisations and failures there may be
  phase,     \* where the engine is
  current,   \* current_height: the height after the last commit
  sent,      \* last_sent_height: the last block fetched, or Unset
  walk,      \* the cursor of handle_reorg or of the heal
  fetched,   \* the block being processed
  attempt    \* the attempts of process_block at it

node       == <<best, left>>
engine     == <<phase, current, sent, walk, fetched, attempt>>
engineVars == <<indexed, tip, hash, roots, hist, manifest, op, staged, intact, doubt,
                best, left, faults, phase, current, sent, walk, fetched, attempt>>

(* LAST_SENT_UNSET *)
Unset == -1

Phases == {"down", "heal", "healing", "next", "reorg", "undo", "fetch", "apply"}

NoWalk == [h |-> 0, low |-> 0, detected |-> FALSE, rewind |-> FALSE]

SatSub(a, b) == IF a > b THEN a - b ELSE 0

OnChain(t) == {Ancestry(t)[h] : h \in 0 .. Height[t]}

(* The local record of height h and the node's answer are the same block.  *)
Agree(h) == hash[h] # NoBlock /\ hash[h] = Ancestry(best)[h]

(* One fault less. *)
Fault == faults > 0 /\ faults' = faults - 1

(***************************************************************************)
(* The node.  Its chain grows freely; moving to another branch is a fault. *)
(***************************************************************************)
NodeGrows(t) ==
  /\ Parent[t] = best /\ t \notin left
  /\ best' = t
  /\ UNCHANGED <<vars, left, faults, engine>>

NodeReorganises(t) ==
  /\ Fault /\ phase \in MovePhases
  /\ t # best /\ Parent[t] # best
  /\ Shrink \/ Height[t] >= Height[best]
  /\ FlipBack \/ OnChain(t) \cap left = {}
  /\ best' = t
  /\ left' = (left \cup (OnChain(best) \ OnChain(t))) \ OnChain(t)
  /\ UNCHANGED <<vars, engine>>

(***************************************************************************)
(* handle_reorg.                                                           *)
(***************************************************************************)

(* Mutant: one height short of the reorg depth. *)
StartWalkShort(c, rewind) ==
  /\ phase' = "reorg"
  /\ walk' = [h |-> c - 1, low |-> SatSub(c, MaxReorgDepth) + 1, detected |-> FALSE,
              rewind |-> rewind]

(* From height c - 1 down, no further than the reorg depth.  rewind: the   *)
(* caller stores the result as current_height.                             *)
StartWalk(c, rewind) ==
  /\ phase' = "reorg"
  /\ walk' = [h |-> c - 1, low |-> SatSub(c, MaxReorgDepth), detected |-> FALSE,
              rewind |-> rewind]

ReorgInRange == walk.h > 0 /\ walk.h >= walk.low

(* handle_reorg returns height c.  get_next_block_data stores it as        *)
(* current_height and goes on to fetch; the result handler resets          *)
(* last_sent_height instead. *)
ReorgReturns(c) ==
  /\ walk' = NoWalk
  /\ IF walk.rewind
     THEN phase' = "fetch" /\ current' = c /\ UNCHANGED sent
     ELSE phase' = "next" /\ sent' = Unset /\ UNCHANGED current
  /\ UNCHANGED <<node, fetched, attempt>>

(* One turn of the loop that does not end it: no record at this height, or *)
(* a record the node disagrees with. *)
ReorgStep ==
  /\ phase = "reorg" /\ ReorgInRange /\ ~Agree(walk.h)
  /\ hash[walk.h] # NoBlock => walk.h <= Height[best]
  /\ walk' = [walk EXCEPT !.h = @ - 1, !.detected = @ \/ hash[walk.h] # NoBlock]
  /\ UNCHANGED <<vars, node, faults, phase, current, sent, fetched, attempt>>

(* "Don't reorg if node is failing": it has no block at this height, or    *)
(* does not answer. *)
ReorgGivesUp ==
  /\ phase = "reorg" /\ ReorgInRange /\ hash[walk.h] # NoBlock
  /\ IF walk.h > Height[best] THEN UNCHANGED faults ELSE Fault
  /\ ReorgReturns(current)
  /\ UNCHANGED vars

(* The common ancestor, height 0 or the depth limit ends the loop. *)
ReorgEnd ==
  /\ phase = "reorg" /\ (ReorgInRange => Agree(walk.h))
  /\ IF walk.detected
     THEN /\ Rollback(walk.h) /\ phase' = "undo"
          /\ UNCHANGED <<node, current, sent, walk, fetched, attempt>>
     ELSE UNCHANGED vars /\ ReorgReturns(current)
  /\ UNCHANGED faults

(* The writes of rollback_to_height and heal_pointers_atomic. *)
RollbackStep ==
  /\ ManifestBatch \/ ScanMetadata \/ (\E k \in Keys : ScanKey(k))
       \/ SetIndexedHeight \/ HealPointers
  /\ UNCHANGED <<node, faults, engine>>

ReorgDone ==
  /\ phase = "undo" /\ op = Idle
  /\ ReorgReturns(walk.h + 1)
  /\ UNCHANGED <<vars, faults>>

(* A write of the rollback fails, or refresh_memory after the last one:    *)
(* the error ends handle_reorg and the round. *)
RollbackFails ==
  /\ WriteFaults /\ Fault
  /\ phase = "undo"
  /\ RollbackWriteFails \/ (op = Idle /\ UNCHANGED vars)
  /\ phase' = "next" /\ walk' = NoWalk
  /\ UNCHANGED <<node, current, sent, fetched, attempt>>

(***************************************************************************)
(* get_next_block_data and process_block.                                  *)
(***************************************************************************)

(* The reorg check runs only near the node's tip. *)
NextBlock ==
  /\ phase = "next"
  /\ IF SatSub(Height[best], current) <= ReorgCheckThreshold /\ current > 0
     THEN StartWalk(current, TRUE)
     ELSE phase' = "fetch" /\ UNCHANGED walk
  /\ UNCHANGED <<vars, node, faults, current, sent, fetched, attempt>>

(* The fetcher never asks for a block again that it has already sent: the  *)
(* floor of get_next_block_data_with_floor, and compute_next_fetch_range.  *)
FetchHeight == IF sent + 1 > current THEN sent + 1 ELSE current

Fetch ==
  /\ phase = "fetch"
  /\ IF FetchHeight <= Height[best]
     THEN /\ phase' = "apply" /\ fetched' = Ancestry(best)[FetchHeight]
          /\ sent' = FetchHeight
     ELSE phase' = "next" /\ UNCHANGED <<fetched, sent>>
  /\ UNCHANGED <<vars, node, faults, current, walk, attempt>>

(* The node does not answer: the error ends the round. *)
FetchFails ==
  /\ Fault /\ phase = "fetch"
  /\ phase' = "next"
  /\ UNCHANGED <<vars, node, current, sent, walk, fetched, attempt>>

(* Mutant: no continuity check. *)
ConnectsAlways(b) == TRUE

(* validate_block_connects: a missing record of the height before is no    *)
(* objection. *)
Connects(b) == Height[b] > 0 => hash[Height[b] - 1] \in {NoBlock, Parent[b]}

(* process_block returns, with or without an error. *)
Finish == fetched' = NoBlock /\ attempt' = 0

(* "Chain discontinuity. Triggering reorg." *)
Discontinuity ==
  /\ phase = "apply" /\ staged = NotStaged /\ attempt = 0
  /\ ~Connects(fetched)
  /\ StartWalk(Height[fetched], FALSE)
  /\ Finish
  /\ UNCHANGED <<vars, node, faults, current, sent>>

(* One turn of the retry loop executes the block from scratch.  With one   *)
(* block in flight it is never below current_height, so the loop's         *)
(* staleness guard does not come into play. *)
ProcessBlock ==
  /\ phase = "apply" /\ staged = NotStaged
  /\ attempt < MaxAttempts
  /\ attempt = 0 => Connects(fetched)
  /\ RunBlock(fetched)
  /\ attempt' = attempt + 1
  /\ UNCHANGED <<node, faults, phase, current, sent, walk, fetched>>

(* The attempt fails in the runtime or in the write; nothing was written.  *)
AttemptFails ==
  /\ phase = "apply" /\ staged # NotStaged /\ Fault
  /\ FreshDb /\ attempt = MaxAttempts => FirstBlockFails
  /\ Crash
  /\ UNCHANGED <<node, engine>>

GiveUp ==
  /\ phase = "apply" /\ staged = NotStaged /\ attempt = MaxAttempts
  /\ phase' = "next" /\ Finish
  /\ UNCHANGED <<vars, node, faults, current, sent, walk>>

CommitBlock ==
  /\ phase = "apply" /\ CommitAtomic
  /\ current' = Height[fetched] + 1
  /\ phase' = "next" /\ Finish
  /\ UNCHANGED <<node, faults, sent, walk>>

(* An out-of-order rejection is not retried, and the result handler only   *)
(* logs it. *)
RejectBlock ==
  /\ phase = "apply" /\ CommitRejected
  /\ phase' = "next" /\ Finish
  /\ UNCHANGED <<node, faults, current, sent, walk>>

(***************************************************************************)
(* Dying and starting.                                                     *)
(***************************************************************************)

(* Killed between any two writes. *)
Die ==
  /\ Fault /\ phase # "down"
  /\ Crash
  /\ phase' = "down" /\ walk' = NoWalk /\ current' = 0 /\ sent' = Unset /\ Finish
  /\ UNCHANGED node

(* find_max_stored_block_hash_height: from the indexed height down, 0 when *)
(* there is no record within the window. *)
MaxHashHeight ==
  LET found == {h \in SatSub(indexed, HashScanWindow) .. indexed : hash[h] # NoBlock}
  IN  IF found = {} THEN 0 ELSE CHOOSE h \in found : \A x \in found : x <= h

(* Mutant: the hash records do not take part in the min. *)
CandidateOfPointers == Min(indexed, tip)

Candidate == Min(Min(indexed, tip), MaxHashHeight)

(* Mutant: resume at the indexed height. *)
StartAtTip == IF StartBlock > indexed THEN StartBlock ELSE indexed

(* The end of init(): current_height, and an empty root before the start   *)
(* block. *)
StartHeight ==
  IF StartBlock > indexed THEN StartBlock
  ELSE IF indexed > 0 THEN indexed + 1 ELSE StartBlock

Ready ==
  /\ IF NeedsStateRoot THEN InitStateRoot ELSE UNCHANGED vars
  /\ phase' = "next" /\ current' = StartHeight /\ walk' = NoWalk

(* Steps 1 to 3 of the heal: read the pointers; nothing to do when all are *)
(* 0; otherwise validate the smallest one against the node. *)
Start ==
  /\ phase = "down"
  /\ IF indexed = 0 /\ tip = 0 /\ MaxHashHeight = 0
     THEN Ready
     ELSE /\ phase' = "heal"
          /\ walk' = [NoWalk EXCEPT !.h = Candidate, !.low = SatSub(Candidate, MaxReorgDepth)]
          /\ UNCHANGED <<vars, current>>
  /\ UNCHANGED <<node, faults, sent, fetched, attempt>>

(* Mutant: the runtime's own pointer is not looked at. *)
HealIndexedTo(safe) ==
  /\ IF safe < indexed
     THEN Heal(safe) /\ phase' = "healing" /\ walk' = NoWalk /\ UNCHANGED current
     ELSE Ready
  /\ UNCHANGED <<node, sent, fetched, attempt>>

(* Step 5: write only if some pointer is above the safe height. *)
HealTo(safe) ==
  /\ IF safe < indexed \/ safe < tip \/ safe < MaxHashHeight
     THEN Heal(safe) /\ phase' = "healing" /\ walk' = NoWalk /\ UNCHANGED current
     ELSE Ready
  /\ UNCHANGED <<node, sent, fetched, attempt>>

HealAtEnd == walk.h = 0 \/ walk.h <= walk.low

HealStep ==
  /\ phase = "heal" /\ ~Agree(walk.h) /\ ~HealAtEnd
  /\ hash[walk.h] # NoBlock => walk.h <= Height[best]
  /\ walk' = [walk EXCEPT !.h = @ - 1]
  /\ UNCHANGED <<vars, node, faults, phase, current, sent, fetched, attempt>>

HealEnd ==
  /\ phase = "heal" /\ (~Agree(walk.h) => HealAtEnd)
  /\ hash[walk.h] # NoBlock => walk.h <= Height[best]
  /\ HealTo(walk.h)
  /\ UNCHANGED faults

(* The node has no block at this height, or does not answer: trust the     *)
(* height reached.  A height without a record is not asked for, except     *)
(* that the node may be found disconnected before the walk begins. *)
HealUnvalidated ==
  /\ phase = "heal"
  /\ hash[walk.h] = NoBlock => walk.h = Candidate
  /\ IF hash[walk.h] # NoBlock /\ walk.h > Height[best] THEN UNCHANGED faults ELSE Fault
  /\ HealTo(walk.h)

HealDone ==
  /\ phase = "healing" /\ op = Idle
  /\ Ready
  /\ UNCHANGED <<node, faults, sent, fetched, attempt>>

EngineInit ==
  /\ Init
  /\ best \in {b \in Blocks : Height[b] <= StartBlock} /\ left = {} /\ faults = MaxFaults
  /\ phase = "down" /\ current = 0 /\ sent = Unset /\ walk = NoWalk
  /\ fetched = NoBlock /\ attempt = 0

(* What the process does on its own. *)
EngineStep ==
  \/ NextBlock \/ ReorgStep \/ ReorgEnd \/ RollbackStep \/ ReorgDone
  \/ (ReorgGivesUp /\ UNCHANGED faults)
  \/ Fetch \/ Discontinuity \/ ProcessBlock \/ GiveUp \/ CommitBlock \/ RejectBlock
  \/ Start \/ HealStep \/ HealEnd \/ HealDone
  \/ (HealUnvalidated /\ UNCHANGED faults)

EngineNext ==
  \/ \E t \in Blocks : NodeGrows(t) \/ NodeReorganises(t)
  \/ EngineStep
  \/ ReorgGivesUp \/ HealUnvalidated
  \/ RollbackFails \/ FetchFails \/ AttemptFails \/ Die

EngineSpec == EngineInit /\ [][EngineNext]_engineVars

FairSpec == EngineSpec /\ WF_engineVars(EngineStep)

-----------------------------------------------------------------------------
(***************************************************************************)
(* Properties.                                                             *)
(***************************************************************************)

(* A walk that ends where it may look no further down ends at a recorded   *)
(* height that is not above the tip, although it has not compared that     *)
(* height: handle_reorg would otherwise set the indexed height to one that *)
(* is not indexed.  And if anything is recorded, the window in which the   *)
(* heal looks for a hash record reaches a record. *)
WalksEndOnRecords ==
  /\ phase = "reorg" /\ walk.detected /\ walk.h > 0 /\ walk.h < walk.low =>
       walk.h <= indexed /\ hash[walk.h] # NoBlock
  /\ phase = "heal" /\ walk.h > 0 /\ walk.h <= walk.low => hash[walk.h] # NoBlock
  /\ (\E h \in 0 .. indexed : hash[h] # NoBlock) =>
       \E h \in SatSub(indexed, HashScanWindow) .. indexed : hash[h] # NoBlock

(* The engine only ever does to the store what IndexStore allows, so every *)
(* theorem about IndexStore holds of it: neither walk asks for a rollback  *)
(* above the tip, the heal never raises it, and no block at or below the   *)
(* tip is executed, the start block excepted.  (It takes a node that never *)
(* returns to a branch it has left, else hash records that a full scan     *)
(* leaves above the tip can make a walk end above the tip; and walks that  *)
(* end on records.) *)
StoreSpec == Init /\ [][Next]_vars

(* The recorded chain is one chain: whatever the node did between reorg    *)
(* check, fetch, validation and commit, no block is indexed on top of a    *)
(* block that is not its parent.                                           *)
OneChain ==
  \A h \in StartBlock + 1 .. indexed :
     hash[h] # NoBlock /\ hash[h - 1] # NoBlock => Parent[hash[h]] = hash[h - 1]

(* Every update of the block recorded at height h is in its list.          *)
Complete(h) ==
  \A k \in Keys : \A n \in 1 .. Updates[hash[h]][k] :
    \E i \in 1 .. Len(hist[k]) : hist[k][i] = [h |-> h, b |-> hash[h], n |-> n]

(* "We'd rather re-apply blocks than skip any": while the engine is        *)
(* running, a recorded block of the node's best chain has all its updates  *)
(* in the lists.  What a rollback cut off by a crash destroyed belongs to  *)
(* blocks that are rolled back again.                                      *)
BestChainComplete ==
  phase \in {"next", "reorg", "fetch", "apply"} =>
    \A h \in 0 .. indexed : hash[h] \in OnChain(best) => Complete(h)

(* "We never skip a block": on a non-empty index, a block is only          *)
(* committed on top of its recorded parent.                                *)
CommitsOntoParent ==
  [][indexed' > indexed /\ ~FreshDb => Parent[hash'[indexed']] = hash[indexed] ]_engineVars

(* When init returns, the three pointers agree on a height whose block is  *)
(* recorded, or on 0.                                                      *)
HealReconciles ==
  [][phase' = "next" /\ phase \in {"down", "heal", "healing"} =>
       indexed = tip /\ MaxHashHeight = indexed]_engineVars

(* The index is exact and at the node's tip. *)
Synced ==
  /\ indexed = Height[best]
  /\ \A h \in StartBlock .. indexed : Agree(h) /\ Complete(h)

(* "A clean stop+restart unblocked it ... init() always defensively        *)
(* heals": after reorganisations to longer and to shorter chains, calls to *)
(* the node that failed and crashes between any two writes, one restart in *)
(* a quiet environment, with a node that is not behind the index, is       *)
(* enough for the index to reach the node's tip and to be exact.  Not      *)
(* after everything: a node that has returned to a branch it had left      *)
(* (FlipBack), or a rollback whose writes failed (WriteFaults), may leave  *)
(* what no restart repairs.                                                *)
RestartRecovers ==
  [](phase = "down" /\ faults = 0 /\ Height[best] >= indexed => <>[]Synced)

(* "Following a rollback ... the fetcher MUST resume fetching from the new *)
(* tip": finitely many reorganisations delay the index but cannot stop it. *)
CatchesUp == <>[]Synced
=============================================================================
