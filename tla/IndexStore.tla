----------------------------- MODULE IndexStore -----------------------------
(***************************************************************************)
(* The RocksDB index of metashrew and the operations that change it:       *)
(* building a block's batch, committing it (commit_atomic), rolling back   *)
(* (rollback_with_manifests, rollback_smt_data, rollback_to_height) and    *)
(* reconciling the pointers at startup (heal_pointers_atomic).             *)
(*                                                                         *)
(* One action is one RocksDB write, because that is the unit that a crash  *)
(* cannot divide.  A rollback is many writes, so a process that is killed  *)
(* in the middle, or in which one of the writes fails, leaves whatever     *)
(* prefix of them was applied.  The storage lock keeps commits and         *)
(* rollbacks apart, but a block is EXECUTED without it: the batch is built *)
(* from list lengths that a rollback may change before the batch is        *)
(* committed.                                                              *)
(***************************************************************************)
EXTENDS Chain, Sequences, FiniteSets

CONSTANTS
  StartBlock,   \* --start-block: the first height ever indexed
  RollbackFloor \* the lowest height any caller rolls back to

ASSUME StoreAssumption ==
  /\ StartBlock \in Heights
  /\ RollbackFloor \in Heights

VARIABLES
  indexed,   \* __INTERNAL/height (0 when missing)
  tip,       \* /__INTERNAL/tip-height, the runtime's pointer
  hash,      \* /__INTERNAL/height-to-hash/{h}, NoBlock when missing
  roots,     \* the heights that have an smt:root:{h} record
  hist,      \* per key, the slots key/0 .. key/(length-1)
  manifest,  \* per height, the keys listed by its manifest, or {}
  op,        \* the rollback in progress (it holds the storage lock)
  staged,    \* the executed, not yet committed block, or NotStaged
  intact,    \* history: no rollback was ever cut off below this height
  doubt      \* history: "staged" while a block is in memory that was there
             \* when a rollback's write failed, "committed" for ever when
             \* such a block has been committed, else "none"

store   == <<indexed, tip, hash, roots, hist, manifest>>
history == <<intact, doubt>>
vars    == <<indexed, tip, hash, roots, hist, manifest, op, staged, intact, doubt>>

(* A manifest lists at least one key, so the empty set is a missing one:   *)
(* a block that updates nothing writes no manifest.                        *)
NoManifest == {}

NotStaged == [block |-> NoBlock, len |-> [k \in Keys |-> 0]]

Idle == [pc |-> "idle", target |-> 0, at |-> 0, todo |-> {}, heal |-> FALSE]

(* A slot below the length whose key is missing from the database. *)
Hole == [h |-> 0, b |-> NoBlock, n |-> 0]

(***************************************************************************)
(* What the operations compute.                                            *)
(***************************************************************************)

(* rollback_with_manifests walks a list from its end: slots above height r *)
(* go, the first slot at or below r stops it, missing slots are skipped.   *)
Dropped(s, r) ==
  {i \in DOMAIN s : s[i].h > r /\ \A j \in i .. Len(s) : s[j] = Hole \/ s[j].h > r}

(* Mutant: the slots of the target height itself go as well. *)
TrimThrough(s, r) == SelectSeq(s, LAMBDA e : e.h < r)

(* Mutant: only the last slot goes. *)
TrimOnce(s, r) == IF Dropped(s, r) = {} THEN s ELSE SubSeq(s, 1, Len(s) - 1)

Trim(s, r) ==
  IF Dropped(s, r) = {} THEN s
  ELSE SubSeq(s, 1, (CHOOSE i \in Dropped(s, r) : \A j \in Dropped(s, r) : i <= j) - 1)

(* Mutant: the filter drops the slots of the target height. *)
SurvivorsBelow(s, r) == SelectSeq(s, LAMBDA e : e # Hole /\ e.h < r)

(* rollback_smt_data filters the whole list and compacts the survivors.    *)
Survivors(s, r) ==
  LET kept == {i \in DOMAIN s : s[i] # Hole /\ s[i].h <= r}
  IN  [j \in 1 .. Cardinality(kept) |->
         s[CHOOSE i \in kept : Cardinality({x \in kept : x <= i}) = j]]

(* A batch puts the slots len, len+1, ... and the new length, wherever the *)
(* list ends by the time the batch is written.                             *)
WriteAt(s, len, new) ==
  [i \in 1 .. (len + Len(new)) |->
     IF i > len THEN new[i - len] ELSE IF i <= Len(s) THEN s[i] ELSE Hole]

(* The strict in-order check of commit_atomic. *)
FreshDb == indexed = 0 /\ hash[0] = NoBlock

(* Mutant: any height above the tip is in order. *)
AcceptsAbove(h) == FreshDb \/ h > indexed

(* Mutant: a height at or below the tip is written again. *)
AcceptsAgain(h) == FreshDb \/ h <= indexed + 1

Accepts(h) == FreshDb \/ h = indexed + 1

(***************************************************************************)
(* Starting, and applying a block.                                         *)
(***************************************************************************)

Init ==
  /\ indexed = 0 /\ tip = 0
  /\ hash = [h \in Heights |-> NoBlock]
  /\ roots = {}
  /\ hist = [k \in Keys |-> <<>>]
  /\ manifest = [h \in Heights |-> NoManifest]
  /\ op = Idle /\ staged = NotStaged /\ intact = 0 /\ doubt = "none"

(* The last write of init(): below a start block above 0 an empty state    *)
(* root is recorded, unless some root at or below that height is found.    *)
NeedsStateRoot == indexed = 0 /\ StartBlock > 0 /\ \A h \in roots : h >= StartBlock

InitStateRoot ==
  /\ op = Idle /\ staged = NotStaged
  /\ NeedsStateRoot
  /\ roots' = roots \cup {StartBlock - 1}
  /\ UNCHANGED <<indexed, tip, hash, hist, manifest, op, staged, history>>

(* The guest's __flush: the batch is serialised, not written.  All it has  *)
(* read of the database are the lengths of the lists. *)
BuildBatch(b) == [block |-> b, len |-> [k \in Keys |-> Len(hist[k])]]

(* process_block_atomic: run the guest on block b and keep the batch that  *)
(* its __flush built.  No storage lock is held, so this may fall anywhere  *)
(* inside a rollback.                                                      *)
RunBlock(b) ==
  /\ staged = NotStaged
  /\ staged' = BuildBatch(b)
  /\ UNCHANGED <<store, op, history>>

(* The blocks the store is given: first the start block (init() returns to *)
(* it when only height 0 is indexed), later blocks above the tip, not      *)
(* always the next one.                                                    *)
Execute(b) ==
  /\ Height[b] # StartBlock => ~FreshDb /\ Height[b] > indexed
  /\ RunBlock(b)

(* Mutant: only keys that are new to the index are listed. *)
NewlyTouched(b) == {k \in Keys : Updates[b][k] > 0 /\ hist[k] = <<>>}

(* The keys a block updates: what its manifest lists. *)
Touched(b) == {k \in Keys : Updates[b][k] > 0}

(* The WASM batch of block b, built on the lengths len, and the metadata   *)
(* records commit_atomic appends to it: one synced write.                  *)
ApplyBatch(b, len) ==
  /\ hist' = [k \in Keys |-> IF Updates[b][k] = 0 THEN hist[k]
                             ELSE WriteAt(hist[k], len[k], UpdatesOf(b, k))]
  /\ manifest' = IF Touched(b) = {} THEN manifest
                 ELSE [manifest EXCEPT ![Height[b]] = Touched(b)]
  /\ tip' = Height[b]
  /\ hash' = [hash EXCEPT ![Height[b]] = b]
  /\ roots' = roots \cup {Height[b]}
  /\ indexed' = Height[b]

CommitAtomic ==
  /\ staged # NotStaged /\ op = Idle
  /\ Accepts(Height[staged.block])
  /\ ApplyBatch(staged.block, staged.len)
  /\ intact' = IF intact = indexed THEN Height[staged.block] ELSE intact
  /\ doubt' = IF doubt = "staged" THEN "committed" ELSE doubt
  /\ staged' = NotStaged
  /\ UNCHANGED op

(* The batch in memory is lost. *)
Forget ==
  /\ staged' = NotStaged
  /\ doubt' = IF doubt = "staged" THEN "none" ELSE doubt

(* "out-of-order commit rejected": process_block returns the error and     *)
(* the batch is dropped.                                                   *)
CommitRejected ==
  /\ staged # NotStaged /\ op = Idle
  /\ ~Accepts(Height[staged.block])
  /\ Forget
  /\ UNCHANGED <<store, op, intact>>

(***************************************************************************)
(* Rolling back.                                                           *)
(***************************************************************************)

Min(a, b) == IF a <= b THEN a ELSE b

(* The manifest check at the head of rollback_with_manifests decides       *)
(* between the per-height path and the full scan.                          *)
ManifestsExist(r) == \A h \in r + 1 .. indexed : manifest[h] # NoManifest

BeginRollback(r, heal) ==
  /\ op = Idle
  /\ op' = [pc |-> IF ManifestsExist(r) THEN "manifest" ELSE "meta",
            target |-> r, at |-> indexed, todo |-> {}, heal |-> heal]
  /\ intact' = Min(intact, r)
  /\ UNCHANGED <<store, staged, doubt>>

(* Mutant: the loop does not stop at the target height. *)
ManifestBatchUnbounded ==
  /\ op.pc = "manifest"
  /\ hist' = [k \in Keys |-> IF k \in manifest[op.at] THEN Trim(hist[k], op.target)
                             ELSE hist[k]]
  /\ manifest' = [manifest EXCEPT ![op.at] = NoManifest]
  /\ roots' = roots \ {op.at}
  /\ hash' = [hash EXCEPT ![op.at] = NoBlock]
  /\ op' = [op EXCEPT !.at = @ - 1]
  /\ UNCHANGED <<indexed, tip, staged, history>>

(* One apply_atomic of rollback_with_manifests: the keys of one height's   *)
(* manifest lose every slot above the TARGET, and that height's manifest,  *)
(* root and hash record go in the same batch.                              *)
ManifestBatch ==
  /\ op.pc = "manifest" /\ op.at > op.target
  /\ hist' = [k \in Keys |-> IF k \in manifest[op.at] THEN Trim(hist[k], op.target)
                             ELSE hist[k]]
  /\ manifest' = [manifest EXCEPT ![op.at] = NoManifest]
  /\ roots' = roots \ {op.at}
  /\ hash' = [hash EXCEPT ![op.at] = NoBlock]
  /\ op' = [op EXCEPT !.at = @ - 1]
  /\ UNCHANGED <<indexed, tip, staged, history>>

(* The metadata batch of rollback_smt_data.  It matches block_hash_*,      *)
(* state_root_* and smt:root:*; the hash records (height-to-hash) and the  *)
(* manifests above the target stay.                                        *)
ScanMetadata ==
  /\ op.pc = "meta"
  /\ roots' = {h \in roots : h <= op.target}
  /\ op' = [op EXCEPT !.pc = "scan", !.todo = {k \in Keys : hist[k] # <<>>}]
  /\ UNCHANGED <<indexed, tip, hash, hist, manifest, staged, history>>

(* One apply_atomic of rollback_smt_data: one list, compacted. *)
ScanKey(k) ==
  /\ op.pc = "scan" /\ k \in op.todo
  /\ hist' = [hist EXCEPT ![k] = Survivors(@, op.target)]
  /\ op' = [op EXCEPT !.todo = @ \ {k}]
  /\ UNCHANGED <<indexed, tip, hash, roots, manifest, staged, history>>

(* set_indexed_height at the end of rollback_to_height. *)
SetIndexedHeight ==
  /\ \/ op.pc = "manifest" /\ op.at <= op.target
     \/ op.pc = "scan" /\ op.todo = {}
  /\ indexed' = op.target
  /\ op' = IF op.heal THEN [op EXCEPT !.pc = "heal"] ELSE Idle
  /\ UNCHANGED <<tip, hash, roots, hist, manifest, staged, history>>

(* The one synced batch of heal_pointers_atomic. *)
HealPointers ==
  /\ op.pc = "heal"
  /\ indexed' = op.target /\ tip' = op.target
  /\ op' = Idle
  /\ UNCHANGED <<hash, roots, hist, manifest, staged, history>>

(* rollback_to_height(r), called by handle_reorg.  The code does not look  *)
(* whether r is below the tip: for a greater r there is nothing to trim    *)
(* and the indexed height is raised to r.                                  *)
Rollback(r) == BeginRollback(r, FALSE)

(* heal_pointers_atomic(r), called once at startup, before any block is    *)
(* executed.  It refuses to raise the tip and is a no-op when both         *)
(* pointers already equal r.                                               *)
Heal(r) ==
  /\ r <= indexed
  /\ staged = NotStaged
  /\ ~(indexed = r /\ tip = r)
  /\ IF indexed > r THEN BeginRollback(r, TRUE)
     ELSE /\ op = Idle
          /\ op' = [Idle EXCEPT !.pc = "heal", !.target = r, !.heal = TRUE]
          /\ UNCHANGED <<store, staged, history>>

(* A write of the rollback fails and the process lives: the error ends     *)
(* rollback_to_height, which leaves what it has written and releases the   *)
(* lock; a block that has been executed meanwhile stays in memory.         *)
RollbackWriteFails ==
  /\ op # Idle
  /\ op' = Idle
  /\ doubt' = IF staged # NotStaged /\ doubt = "none" /\ op.target < indexed
              THEN "staged" ELSE doubt
  /\ UNCHANGED <<store, staged, intact>>

(* The process is killed: the lock, the cursor and the batch in memory go. *)
Crash ==
  /\ op' = Idle /\ Forget
  /\ UNCHANGED <<store, intact>>

(* The store's callers: they ask for no rollback above the tip (SyncEngine *)
(* is checked to keep to that) nor below RollbackFloor.                    *)
Next ==
  \/ InitStateRoot
  \/ \E b \in Blocks : Execute(b)
  \/ CommitAtomic
  \/ CommitRejected
  \/ \E r \in RollbackFloor .. indexed : Rollback(r)
  \/ \E r \in RollbackFloor .. indexed : Heal(r)
  \/ ManifestBatch
  \/ ScanMetadata
  \/ \E k \in Keys : ScanKey(k)
  \/ SetIndexedHeight
  \/ HealPointers
  \/ RollbackWriteFails
  \/ Crash

Spec == Init /\ [][Next]_vars

-----------------------------------------------------------------------------
(***************************************************************************)
(* Properties.                                                             *)
(***************************************************************************)

(* After the one case in which the in-order check lets a stale batch       *)
(* through (StaleBatchRejected) nothing is said of the lists any more.     *)
Undamaged == doubt # "committed"

(* Every variable has its type. *)
TypeOK ==
  /\ indexed \in Heights /\ tip \in Heights /\ intact \in Heights
  /\ hash \in [Heights -> Blocks \cup {NoBlock}]
  /\ roots \subseteq Heights
  /\ Undamaged => /\ hist \in [Keys -> Seq(Entry)]
                  /\ staged \in [block : Blocks \cup {NoBlock}, len : [Keys -> Nat]]
  /\ manifest \in [Heights -> SUBSET Keys]
  /\ op \in [pc : {"idle", "manifest", "meta", "scan", "heal"}, target : Heights,
             at : Heights, todo : SUBSET Keys, heal : BOOLEAN]
  /\ doubt \in {"none", "staged", "committed"}

(* Slot order: by height, then by the order of the block's own updates. *)
Before(e, f) == e.h < f.h \/ (e.h = f.h /\ e.n < f.n)

SlotsOrdered ==
  \A k \in Keys : \A i, j \in 1 .. Len(hist[k]) :
     i < j => Before(hist[k][i], hist[k][j])

(* The assumption both rollback paths and get_at_height rest on ("entries  *)
(* are ordered by height, stop early"): no list ever has a missing slot, a *)
(* repeated update or two slots out of order, whatever is executed while a *)
(* rollback runs and wherever the process is killed or a write fails.      *)
ListsOrdered == Undamaged => SlotsOrdered

SlotsOwned ==
  \A k \in Keys : \A i \in 1 .. Len(hist[k]) :
     LET e == hist[k][i]
     IN  /\ e.b \in Blocks /\ e.h <= indexed
         /\ e.h = Height[e.b] /\ hash[e.h] = e.b
         /\ e.n \in 1 .. Updates[e.b][k]

(* Rollbacks leave nothing behind: every slot of every list was written by *)
(* the block whose hash record stands at the slot's height, at or below    *)
(* the indexed height.  Update number n of a block is one it really made.  *)
NoOrphanedUpdate == Undamaged => SlotsOwned

SlotsListed ==
  \A k \in Keys : \A i \in 1 .. Len(hist[k]) : k \in manifest[hist[k][i].h]

(* The fast path may trust the manifests: any height some list still has   *)
(* an update of is listed by a manifest that names the list.               *)
ManifestsCover == Undamaged => SlotsListed

RecordsStand ==
  \A h \in StartBlock .. intact : ~FreshDb => hash[h] # NoBlock /\ h \in roots

UpdatesStand ==
  \A h \in StartBlock .. intact : ~FreshDb =>
     \A k \in Keys : \A n \in 1 .. Updates[hash[h]][k] :
        \E i \in 1 .. Len(hist[k]) : hist[k][i] = [h |-> h, b |-> hash[h], n |-> n]

(* Nothing is lost below the lowest rollback ever cut off: every height    *)
(* from the start block to intact has its hash and root records, and every *)
(* update of those blocks is in its list.  When no rollback was            *)
(* interrupted, intact is the indexed height.                              *)
NoLostUpdate == RecordsStand /\ (Undamaged => UpdatesStand)

(* The in-order check of commit_atomic rejects every batch that was built  *)
(* on lists a rollback has changed since, through completed rollbacks and  *)
(* crashes in any number; what it accepts was built on the lists as they   *)
(* are now.  One case escapes it: the batch was in memory when a write of  *)
(* a rollback failed, which had trimmed lists but not yet lowered the      *)
(* indexed height.                                                         *)
StaleBatchRejected ==
  staged # NotStaged /\ op = Idle /\ Accepts(Height[staged.block]) =>
    doubt # "none" \/ \A k \in Keys : staged.len[k] = Len(hist[k])

(* What commit_atomic's comment calls the user-stated invariant, "we never *)
(* skip or rewrite a block outside of an explicit reorg rollback": the     *)
(* indexed height only grows by one, and an empty index begins with the    *)
(* start block.                                                            *)
NeverSkipsABlock ==
  [][indexed' > indexed => indexed' = (IF FreshDb THEN StartBlock ELSE indexed + 1)]_vars

(* The blocks whose updates are all there: what readers may rely on. *)
LogChain ==
  [h \in IF FreshDb THEN {} ELSE StartBlock .. intact |-> hash[h]]

Log == INSTANCE ChainLog WITH chain <- LogChain

(* The store, with its many writes per block and per rollback, its batches *)
(* built outside the lock and its crashes, implements a chain that grows   *)
(* block by block and is cut back in one step.                             *)
LogSpec == Log!Spec

-----------------------------------------------------------------------------
(***************************************************************************)
(* The inductive strengthening of the properties above.                    *)
(***************************************************************************)

(* The rollback in progress is headed below everything it may touch, and   *)
(* no lower than the lowest height a caller asks for. *)
OpInRange ==
  /\ intact <= indexed
  /\ op.pc = "idle" => op = Idle
  /\ op.pc # "idle" =>
       /\ op.target <= indexed /\ RollbackFloor <= op.target
       /\ intact <= op.target
  /\ op.pc = "manifest" => op.at \in op.target .. indexed
  /\ op.pc \in {"meta", "scan"} => op.target < indexed
  /\ op.pc = "heal" => op.target = indexed

(* Before the first commit there is nothing; after it, the start block is  *)
(* there to stay. *)
StartStays ==
  IF FreshDb THEN intact = 0 /\ \A k \in Keys : hist[k] = <<>>
  ELSE StartBlock <= intact

(* The block in memory is above the tip, or the start block once more.     *)
StagedAboveTip ==
  staged # NotStaged =>
    /\ staged.block \in Blocks
    /\ Height[staged.block] = StartBlock \/ (~FreshDb /\ Height[staged.block] > indexed)

(* How far the rollback in progress has got: the fast path has emptied the *)
(* heights above its cursor, the scan the lists it has done.               *)
RollbackProgress ==
  \A k \in Keys : \A i \in 1 .. Len(hist[k]) :
     /\ op.pc = "manifest" => hist[k][i].h <= op.at
     /\ op.pc = "scan" /\ k \notin op.todo => hist[k][i].h <= op.target

(* Its batch was built on the lists as they are, or will not be accepted   *)
(* for its height, or is in doubt.                                         *)
BatchFits ==
  staged # NotStaged /\ doubt = "none" =>
    (FreshDb \/ (Height[staged.block] = indexed + 1 /\
                 (op.pc = "idle" \/ op.target = indexed)) =>
       \A k \in Keys : staged.len[k] = Len(hist[k]))

(* What holds of the pointers and records, whatever became of the lists.   *)
PointerInv == TypeOK /\ OpInRange /\ StartStays /\ RecordsStand /\ StagedAboveTip

ListInv ==
  /\ SlotsOrdered /\ SlotsOwned /\ SlotsListed /\ UpdatesStand
  /\ RollbackProgress /\ BatchFits

(* The inductive invariant. *)
IInv == PointerInv /\ (Undamaged => ListInv)
=============================================================================
