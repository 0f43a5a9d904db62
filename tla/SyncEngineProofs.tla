-------------------------- MODULE SyncEngineProofs --------------------------
(***************************************************************************)
(* Proofs about SyncEngine, for every chain of blocks, every depth limit   *)
(* and any number of reorganisations, failures and crashes.                *)
(***************************************************************************)
EXTENDS SyncEngine, IndexStoreProofs

-----------------------------------------------------------------------------
(***************************************************************************)
(* The engine.                                                             *)
(***************************************************************************)

(* What the theorems assume of the constants: the start block is below     *)
(* every fork, the node does not return to a branch it has left, and some  *)
(* attempt at the first block of an empty database succeeds.  Of a run     *)
(* they assume WalksEndOnRecords, which the last theorem discharges. *)
Limits ==
  /\ RollbackFloor = StartBlock
  /\ \A b, c \in Blocks : Height[b] = StartBlock /\ Height[c] = StartBlock => b = c
  /\ FlipBack = FALSE /\ FirstBlockFails = FALSE

-----------------------------------------------------------------------------
(***************************************************************************)
(* The inductive invariant.                                                *)
(***************************************************************************)

EngineTypes ==
  /\ phase \in Phases
  /\ current \in 0 .. MaxHeight + 1 /\ sent \in -1 .. MaxHeight
  /\ walk \in [h : Heights, low : 0 .. MaxHeight + 1, detected : BOOLEAN, rewind : BOOLEAN]
  /\ fetched \in Blocks \cup {NoBlock} /\ attempt \in Nat

(* A branch is left for good. *)
NodeInv ==
  /\ best \in Blocks /\ left \subseteq Blocks
  /\ OnChain(best) \cap left = {}

(* The node has, or once had, block b on its best chain. *)
Known(b) == b \in OnChain(best) \cup left

(* What is recorded above height r is of branches the node has left. *)
AbandonedAbove(r) == \A h \in Heights : h > r /\ hash[h] # NoBlock => hash[h] \in left

RecordsInv ==
  /\ \A h \in Heights : hash[h] # NoBlock => Height[hash[h]] = h /\ Known(hash[h])
  /\ AbandonedAbove(indexed)
  /\ OneChain

(* A rollback is handle_reorg's or the heal's, and it is headed for a      *)
(* recorded height above which everything is abandoned. *)
RollbackInv ==
  /\ indexed <= tip
  /\ op.pc # "idle" =>
       /\ AbandonedAbove(op.target) /\ hash[op.target] # NoBlock
       /\ phase = IF op.heal THEN "healing" ELSE "undo"
       /\ ~op.heal => op.target = walk.h
  /\ phase = "undo" /\ op.pc = "idle" => indexed = walk.h /\ hash[indexed] # NoBlock
  /\ phase = "healing" /\ op.pc = "idle" => indexed = tip /\ hash[indexed] # NoBlock
  /\ phase \in {"undo", "healing"} => ~FreshDb

(* Either walk passes only abandoned records and never the start block's. *)
WalkInv ==
  phase \in {"reorg", "heal"} =>
    /\ AbandonedAbove(walk.h)
    /\ ~FreshDb => StartBlock <= walk.h
    /\ phase = "reorg" /\ walk.detected => ~FreshDb
    /\ phase = "heal" => ~FreshDb /\ walk.h <= Candidate

(* The next block is never at or below the tip, the block of height 0      *)
(* excepted. *)
CursorInv ==
  phase \in {"next", "reorg", "undo", "fetch", "apply"} =>
    current > indexed \/ (current = 0 /\ indexed = 0)

(* Before the first commit nothing is recorded and nothing was given up. *)
BeginInv ==
  FreshDb =>
    /\ tip = 0 /\ \A h \in Heights : hash[h] = NoBlock
    /\ phase \in {"next", "reorg", "undo", "fetch", "apply"} => current = StartBlock
    /\ phase # "apply" => sent = Unset
    /\ phase = "apply" => Height[fetched] = StartBlock
                          /\ (attempt = MaxAttempts => staged # NotStaged)

(* The block being processed is one the node served, and it connects from  *)
(* its first attempt to its commit. *)
ApplyInv ==
  /\ phase = "apply" =>
       /\ fetched \in Blocks /\ Known(fetched)
       /\ Height[fetched] > indexed \/ (Height[fetched] = 0 /\ indexed = 0)
       /\ attempt > 0 => Connects(fetched)
  /\ phase # "apply" => attempt = 0
  /\ staged # NotStaged => phase = "apply" /\ attempt > 0 /\ staged.block = fetched

(* Without failing writes the tip's own record is there whenever the       *)
(* engine runs. *)
TopInv ==
  ~WriteFaults /\ phase \in {"next", "reorg", "fetch", "apply"} =>
    FreshDb \/ hash[indexed] # NoBlock

EInv ==
  /\ EngineTypes /\ NodeInv /\ RecordsInv /\ RollbackInv /\ WalkInv
  /\ CursorInv /\ BeginInv /\ ApplyInv /\ TopInv

-----------------------------------------------------------------------------
(***************************************************************************)
(* Facts about one state.                                                  *)
(***************************************************************************)

(* The ranges of heights and of the walks' limits. *)
LEMMA LimitFacts ==
  ASSUME Limits
  PROVE  /\ StartBlock <= RollbackFloor /\ StartBlock \in Nat /\ MaxHeight \in Nat
         /\ StartBlock <= MaxHeight
         /\ \A c \in 0 .. MaxHeight + 1 :
              /\ SatSub(c, MaxReorgDepth) \in 0 .. MaxHeight + 1
              /\ SatSub(c, HashScanWindow) \in 0 .. c
         /\ \A h \in Heights : h \in Nat /\ h <= MaxHeight /\ h \in 0 .. MaxHeight + 1
         /\ \A b \in Blocks : Height[b] \in Heights
<1>1. /\ MaxHeight \in Nat /\ StartBlock \in Heights /\ MaxReorgDepth \in Nat
      /\ HashScanWindow \in Nat
  BY ChainAssumption, StoreAssumption, EngineAssumption
<1>2. RollbackFloor = StartBlock
  BY DEF Limits
<1>3. \A b \in Blocks : Height[b] \in Heights
  BY ChainAssumption
<1> QED
  BY <1>1, <1>2, <1>3 DEF SatSub, Heights

(* The node's best chain has one block per height up to its tip. *)
LEMMA OnChainFacts ==
  ASSUME NEW t \in Blocks
  PROVE  /\ OnChain(t) \subseteq Blocks
         /\ Height[t] \in Heights
         /\ \A h \in 0 .. Height[t] : Ancestry(t)[h] \in OnChain(t) /\ Height[Ancestry(t)[h]] = h
         /\ \A b \in OnChain(t) : Height[b] \in 0 .. Height[t] /\ b = Ancestry(t)[Height[b]]
<1>1. /\ Height[t] \in Heights
      /\ \A h \in 0 .. Height[t] : Ancestry(t)[h] \in Blocks /\ Height[Ancestry(t)[h]] = h
  BY AncestryFacts, ChainAssumption
<1> QED
  BY <1>1 DEF OnChain

(* A record that agrees with the node is on its chain; one that does not   *)
(* is abandoned. *)
LEMMA AgreeOrAbandoned ==
  ASSUME EInv, NEW h \in Heights, hash[h] # NoBlock
  PROVE  /\ Agree(h) => hash[h] \notin left
         /\ ~Agree(h) => hash[h] \in left
<1>1. /\ best \in Blocks /\ OnChain(best) \cap left = {}
      /\ Height[hash[h]] = h /\ hash[h] \in OnChain(best) \cup left
  BY DEF EInv, NodeInv, RecordsInv, Known
<1>2. ASSUME Agree(h) PROVE hash[h] \in OnChain(best)
  <2>1. hash[h] = Ancestry(best)[h]
    BY <1>2 DEF Agree
  <2>2. ~ (h > Height[best])
    BY <1>1, <2>1, AncestryFacts
  <2>3. h \in 0 .. Height[best]
    BY <1>1, <2>2, ChainAssumption DEF Heights
  <2> QED
    BY <1>1, <2>1, <2>3, OnChainFacts
<1>3. ASSUME hash[h] \in OnChain(best) PROVE Agree(h)
  BY <1>1, <1>3, OnChainFacts DEF Agree
<1> QED
  BY <1>1, <1>2, <1>3

(* Once a block is committed, the start block's record is there. *)
LEMMA StartRecorded ==
  ASSUME IInv, ~FreshDb
  PROVE  StartBlock <= indexed /\ hash[StartBlock] # NoBlock
<1>1. StartBlock <= intact /\ intact <= indexed
  BY DEF IInv, PointerInv, StartStays, OpInRange
<1>2. StartBlock \in Nat /\ intact \in Nat /\ indexed \in Nat
  BY HeightFacts DEF IInv, PointerInv
<1>3. StartBlock \in StartBlock .. intact
  BY <1>1, <1>2
<1> QED
  BY <1>1, <1>2, <1>3 DEF IInv, PointerInv, RecordsStand

(* The node agrees with it, if its chain is that long. *)
LEMMA StartAgrees ==
  ASSUME Limits, IInv, EInv, ~FreshDb, StartBlock <= Height[best]
  PROVE  Agree(StartBlock)
<1>1. hash[StartBlock] # NoBlock /\ StartBlock \in Heights
  BY StartRecorded, StoreAssumption
<1>2. hash[StartBlock] \in Blocks /\ Height[hash[StartBlock]] = StartBlock /\ best \in Blocks
  BY <1>1 DEF EInv, RecordsInv, NodeInv, IInv, PointerInv, TypeOK
<1>3. StartBlock \in 0 .. Height[best]
  BY <1>2, ChainAssumption, StoreAssumption DEF Heights
<1>4. Ancestry(best)[StartBlock] \in Blocks /\ Height[Ancestry(best)[StartBlock]] = StartBlock
  BY <1>2, <1>3, AncestryFacts
<1> QED
  BY <1>1, <1>2, <1>4 DEF Limits, Agree

(* The heal's scan finds the highest record at or below the tip. *)
LEMMA MaxHashFacts ==
  ASSUME Limits, WalksEndOnRecords, IInv
  PROVE  /\ MaxHashHeight \in 0 .. indexed
         /\ \A h \in 0 .. indexed : hash[h] # NoBlock =>
               h <= MaxHashHeight /\ hash[MaxHashHeight] # NoBlock
<1> DEFINE from  == SatSub(indexed, HashScanWindow)
           found == {h \in from .. indexed : hash[h] # NoBlock}
<1>1. indexed \in Nat /\ from \in 0 .. indexed
  BY LimitFacts DEF IInv, PointerInv, TypeOK
<1>2. MaxHashHeight = IF found = {} THEN 0 ELSE CHOOSE h \in found : \A x \in found : x <= h
  BY DEF MaxHashHeight
<1>3. (\E h \in 0 .. indexed : hash[h] # NoBlock) => found # {}
  BY DEF WalksEndOnRecords
<1> HIDE DEF from
<1>4. found \subseteq 0 .. indexed /\ \A h \in found : hash[h] # NoBlock /\ from <= h
  BY <1>1
<1>5. \A h \in 0 .. indexed : hash[h] # NoBlock => h \in found \/ h < from
  BY <1>1
<1> HIDE DEF found
<1>6. CASE found = {}
  BY <1>1, <1>2, <1>3, <1>6
<1>7. CASE found # {}
  <2>1. \E h \in found : \A x \in found : x <= h
    BY <1>1, <1>4, <1>7, GreatestExists
  <2>2. MaxHashHeight \in found /\ \A x \in found : x <= MaxHashHeight
    BY <1>2, <1>7, <2>1
  <2> QED
    BY <1>1, <1>4, <1>5, <2>2
<1> QED
  BY <1>6, <1>7

(* So it starts from a recorded height. *)
LEMMA CandidateFacts ==
  ASSUME Limits, WalksEndOnRecords, IInv, EInv
  PROVE  /\ Candidate \in Heights /\ Candidate <= indexed /\ Candidate <= tip
         /\ Candidate <= MaxHashHeight
         /\ ~FreshDb => /\ StartBlock <= Candidate /\ hash[Candidate] # NoBlock
                        /\ AbandonedAbove(Candidate)
<1>1. /\ indexed \in Nat /\ tip \in Nat /\ indexed <= tip /\ StartBlock \in Nat
      /\ indexed \in Heights
  BY HeightFacts DEF IInv, PointerInv, TypeOK, EInv, RollbackInv
<1>2. MaxHashHeight \in 0 .. indexed
  BY MaxHashFacts
<1>3. Candidate = MaxHashHeight
  BY <1>1, <1>2 DEF Candidate, Min
<1>4. Candidate \in Heights
  BY <1>1, <1>2, <1>3, ChainAssumption DEF Heights
<1>5. ASSUME ~FreshDb
      PROVE  StartBlock <= Candidate /\ hash[Candidate] # NoBlock /\ AbandonedAbove(Candidate)
  <2>1. StartBlock \in 0 .. indexed /\ hash[StartBlock] # NoBlock
    BY <1>1, <1>5, StartRecorded
  <2>2. StartBlock <= Candidate /\ hash[Candidate] # NoBlock
    BY <1>3, <2>1, MaxHashFacts
  <2>3. ASSUME NEW h \in Heights, h > Candidate, hash[h] # NoBlock PROVE hash[h] \in left
    <3>1. h \in Nat
      BY LimitFacts
    <3>2. ~ (h \in 0 .. indexed)
      BY <1>2, <1>3, <2>3, <3>1, MaxHashFacts
    <3>3. h > indexed
      BY <1>1, <3>1, <3>2
    <3> QED
      BY <2>3, <3>3 DEF EInv, RecordsInv, AbandonedAbove
  <2> QED
    BY <2>2, <2>3 DEF AbandonedAbove
<1> QED
  BY <1>1, <1>2, <1>3, <1>4, <1>5

-----------------------------------------------------------------------------
(***************************************************************************)
(* The invariant is kept: the node's steps, and those that leave the store *)
(* alone.                                                                  *)
(***************************************************************************)

LEMMA InitEInv == Limits /\ EngineInit => EInv
<1> SUFFICES ASSUME Limits, EngineInit PROVE EInv
  OBVIOUS
<1>1. /\ \A h \in Heights : hash[h] = NoBlock
      /\ indexed = 0 /\ tip = 0 /\ op = Idle /\ staged = NotStaged
      /\ best \in Blocks /\ left = {} /\ phase = "down" /\ current = 0 /\ sent = -1
      /\ walk = NoWalk /\ fetched = NoBlock /\ attempt = 0
  BY DEF EngineInit, Init, Unset
<1>2. MaxHeight \in Nat /\ 0 \in Heights
  BY ChainAssumption DEF Heights
<1>3. EngineTypes
  BY <1>1, <1>2 DEF EngineTypes, Phases, NoWalk
<1>4. NodeInv /\ RecordsInv
  <2>1. ASSUME NEW h \in StartBlock + 1 .. indexed PROVE FALSE
    BY <1>1, StoreAssumption, ChainAssumption, <2>1 DEF Heights
  <2> QED
    BY <1>1, <2>1 DEF NodeInv, RecordsInv, AbandonedAbove, OneChain
<1>5. RollbackInv /\ WalkInv /\ CursorInv /\ BeginInv /\ ApplyInv /\ TopInv
  BY <1>1 DEF RollbackInv, WalkInv, CursorInv, BeginInv, ApplyInv, TopInv, Idle, Unset
<1> QED
  BY <1>3, <1>4, <1>5 DEF EInv

(* A growing chain keeps its blocks, and a reorganisation that does not    *)
(* return to what was left moves all it drops to left. *)
LEMMA NodeMoves ==
  ASSUME Limits, NodeInv, NEW t \in Blocks, NodeGrows(t) \/ NodeReorganises(t)
  PROVE  /\ NodeInv' /\ left \subseteq left'
         /\ \A b : Known(b) => Known(b)'
<1>1. CASE NodeGrows(t)
  <2>1. best' = t /\ left' = left /\ Parent[t] = best /\ t \notin left /\ best \in Blocks
    BY <1>1 DEF NodeGrows, NodeInv
  <2>2. Height[t] # 0
    BY <2>1, ChainAssumption
  <2>3. /\ Height[best] = Height[t] - 1 /\ Height[t] \in Nat
        /\ \A h \in 0 .. Height[t] - 1 : Ancestry(t)[h] = Ancestry(best)[h]
    BY <2>1, <2>2, AncestryOfParent, ChainAssumption DEF Heights
  <2>4. Ancestry(t)[Height[t]] = t
    BY AncestryFacts
  <2>5. OnChain(t) = OnChain(best) \cup {t}
    <3>1. \A h \in 0 .. Height[t] : h = Height[t] \/ h \in 0 .. Height[best]
      BY <2>3
    <3>2. \A h \in 0 .. Height[best] : h \in 0 .. Height[t] /\ Ancestry(t)[h] = Ancestry(best)[h]
      BY <2>3
    <3>3. Height[t] \in 0 .. Height[t]
      BY <2>3
    <3> QED
      BY <2>4, <3>1, <3>2, <3>3 DEF OnChain
  <2>6. NodeInv'
    BY <2>1, <2>5 DEF NodeInv
  <2> QED
    BY <2>1, <2>5, <2>6 DEF Known
<1>2. CASE NodeReorganises(t)
  <2>1. /\ best' = t /\ OnChain(t) \cap left = {}
        /\ left' = (left \cup (OnChain(best) \ OnChain(t))) \ OnChain(t)
    BY <1>2 DEF NodeReorganises, Limits
  <2>2. OnChain(best) \subseteq Blocks /\ left \subseteq Blocks
    BY OnChainFacts DEF NodeInv
  <2>3. left' \subseteq Blocks /\ left \subseteq left' /\ OnChain(t) \cap left' = {}
    BY <2>1, <2>2
  <2>4. \A b : b \in OnChain(best) \cup left => b \in OnChain(t) \cup left'
    BY <2>1
  <2> QED
    BY <2>1, <2>3, <2>4 DEF NodeInv, Known
<1> QED
  BY <1>1, <1>2

LEMMA NodeKeeps ==
  ASSUME Limits, IInv, EInv, NEW t \in Blocks, NodeGrows(t) \/ NodeReorganises(t)
  PROVE  EInv'
<1>1. UNCHANGED <<indexed, tip, hash, op, staged, phase, current, sent, walk, fetched, attempt>>
  BY DEF NodeGrows, NodeReorganises, vars, engine
<1>2. NodeInv' /\ left \subseteq left' /\ \A b : Known(b) => Known(b)'
  BY NodeMoves DEF EInv
<1>3. (FreshDb' <=> FreshDb) /\ Candidate' = Candidate
  BY <1>1 DEF FreshDb, Candidate, MaxHashHeight
<1>4. \A r : AbandonedAbove(r) => AbandonedAbove(r)'
  BY <1>1, <1>2 DEF AbandonedAbove
<1>5. EngineTypes' /\ CursorInv' /\ BeginInv' /\ TopInv'
  BY <1>1, <1>3 DEF EInv, EngineTypes, CursorInv, BeginInv, TopInv
<1>6. RecordsInv'
  <2>1. OneChain'
    BY <1>1 DEF EInv, RecordsInv, OneChain
  <2>2. AbandonedAbove(indexed)'
    BY <1>1, <1>2 DEF EInv, RecordsInv, AbandonedAbove
  <2>3. \A h \in Heights : hash[h] # NoBlock => Height[hash[h]] = h /\ Known(hash[h])'
    BY <1>1, <1>2 DEF EInv, RecordsInv, Known
  <2> QED
    BY <1>1, <2>1, <2>2, <2>3 DEF RecordsInv, Known
<1>7. RollbackInv' /\ WalkInv'
  <2>1. op.pc # "idle" => AbandonedAbove(op.target)'
    BY <1>1, <1>2 DEF EInv, RollbackInv, AbandonedAbove
  <2>2. phase \in {"reorg", "heal"} => AbandonedAbove(walk.h)'
    BY <1>1, <1>2 DEF EInv, WalkInv, AbandonedAbove
  <2> QED
    BY <1>1, <1>3, <2>1, <2>2 DEF EInv, RollbackInv, WalkInv, AbandonedAbove
<1>8. ApplyInv'
  <2>1. phase = "apply" => Known(fetched)'
    BY <1>1, <1>2 DEF EInv, ApplyInv, Known
  <2> QED
    BY <1>1, <2>1 DEF EInv, ApplyInv, Connects, Known
<1> QED
  BY <1>2, <1>5, <1>6, <1>7, <1>8 DEF EInv

(* A step that leaves the records, the tip and the node alone. *)
LEMMA RecordsStay ==
  ASSUME EInv, UNCHANGED <<indexed, hash, best, left>>
  PROVE  /\ NodeInv' /\ RecordsInv'
         /\ FreshDb' <=> FreshDb
         /\ \A r : AbandonedAbove(r)' <=> AbandonedAbove(r)
         /\ \A b : (Known(b)' <=> Known(b)) /\ (Connects(b)' <=> Connects(b))
         /\ MaxHashHeight' = MaxHashHeight
<1>1. NodeInv' /\ (FreshDb' <=> FreshDb) /\ MaxHashHeight' = MaxHashHeight
  BY DEF EInv, NodeInv, FreshDb, MaxHashHeight
<1>2. /\ \A r : AbandonedAbove(r)' <=> AbandonedAbove(r)
      /\ \A b : (Known(b)' <=> Known(b)) /\ (Connects(b)' <=> Connects(b))
  BY DEF AbandonedAbove, Known, Connects
<1>3. RecordsInv'
  BY DEF EInv, RecordsInv, OneChain, AbandonedAbove, Known
<1> QED
  BY <1>1, <1>2, <1>3

(* Outside undo and healing no rollback is in progress, and outside apply  *)
(* no block is in memory. *)
LEMMA PhaseFacts ==
  ASSUME IInv, EInv
  PROVE  /\ phase \notin {"undo", "healing"} => op = Idle /\ op.pc = "idle"
         /\ phase # "apply" => staged = NotStaged /\ attempt = 0
         /\ op.pc = "idle" => op = Idle
<1>1. phase \notin {"undo", "healing"} => op.pc = "idle"
  BY DEF EInv, RollbackInv
<1>2. op.pc = "idle" => op = Idle
  BY DEF IInv, PointerInv, OpInRange
<1> QED
  BY <1>1, <1>2 DEF EInv, ApplyInv

(* A round that begins, goes on to its fetch or ends. *)
LEMMA RoundKeeps ==
  ASSUME Limits, IInv, EInv,
         UNCHANGED <<indexed, tip, hash, best, left>>,
         op'.pc = "idle", staged' = NotStaged, phase' \in {"next", "fetch"},
         EngineTypes', attempt' = 0,
         current' > indexed \/ (current' = 0 /\ indexed = 0),
         FreshDb => current' = StartBlock /\ sent' = Unset,
         ~WriteFaults => FreshDb \/ hash[indexed] # NoBlock
  PROVE  EInv'
<1>1. NodeInv' /\ RecordsInv' /\ (FreshDb' <=> FreshDb)
  BY RecordsStay
<1>2. RollbackInv' /\ WalkInv' /\ CursorInv'
  BY DEF EInv, RollbackInv, WalkInv, CursorInv
<1>3. BeginInv' /\ ApplyInv' /\ TopInv'
  BY <1>1 DEF EInv, BeginInv, ApplyInv, TopInv
<1> QED
  BY <1>1, <1>2, <1>3 DEF EInv

(* A turn of handle_reorg's loop, or its first. *)
LEMMA TurnKeeps ==
  ASSUME Limits, IInv, EInv,
         UNCHANGED <<indexed, tip, hash, op, staged, best, left, current, sent>>,
         phase \in {"next", "reorg", "apply"}, staged = NotStaged,
         phase' = "reorg", EngineTypes', attempt' = 0,
         AbandonedAbove(walk'.h),
         ~FreshDb => StartBlock <= walk'.h,
         walk'.detected => ~FreshDb,
         phase = "apply" => ~FreshDb
  PROVE  EInv'
<1>1. NodeInv' /\ RecordsInv' /\ (FreshDb' <=> FreshDb)
  BY RecordsStay
<1>2. op'.pc = "idle"
  BY PhaseFacts
<1>3. WalkInv'
  <2>1. AbandonedAbove(walk.h)'
    BY DEF AbandonedAbove
  <2> QED
    BY <1>1, <2>1 DEF WalkInv
<1>4. RollbackInv' /\ CursorInv'
  BY <1>2 DEF EInv, RollbackInv, CursorInv
<1>5. BeginInv' /\ ApplyInv' /\ TopInv'
  BY <1>1 DEF EInv, BeginInv, ApplyInv, TopInv
<1> QED
  BY <1>1, <1>3, <1>4, <1>5 DEF EInv

(* Above current_height, or any height above the tip, all is abandoned. *)
LEMMA WalkBegins ==
  ASSUME Limits, IInv, EInv, NEW c \in 0 .. MaxHeight + 1, c > indexed, NEW rewind \in BOOLEAN,
         StartWalk(c, rewind)
  PROVE  /\ phase' = "reorg"
         /\ walk' \in [h : Heights, low : 0 .. MaxHeight + 1, detected : BOOLEAN, rewind : BOOLEAN]
         /\ ~walk'.detected /\ AbandonedAbove(walk'.h)
         /\ ~FreshDb => StartBlock <= walk'.h
<1>1. indexed \in Nat /\ MaxHeight \in Nat /\ StartBlock \in Nat
  BY HeightFacts DEF IInv, PointerInv
<1>2. walk' = [h |-> c - 1, low |-> SatSub(c, MaxReorgDepth), detected |-> FALSE, rewind |-> rewind]
      /\ phase' = "reorg"
  BY DEF StartWalk
<1>3. c - 1 \in Heights /\ SatSub(c, MaxReorgDepth) \in 0 .. MaxHeight + 1
  BY <1>1, LimitFacts DEF Heights
<1>4. AbandonedAbove(c - 1)
  <2>1. \A h \in Heights : h > c - 1 => h > indexed
    BY <1>1 DEF Heights
  <2> QED
    BY <2>1 DEF EInv, RecordsInv, AbandonedAbove
<1>5. ~FreshDb => StartBlock <= c - 1
  BY <1>1, StartRecorded
<1> QED
  BY <1>2, <1>3, <1>4, <1>5

LEMMA NextBlockKeeps ==
  ASSUME Limits, IInv, EInv, NextBlock
  PROVE  EInv'
<1>1. /\ phase = "next"
      /\ UNCHANGED <<indexed, tip, hash, op, staged, best, left, current, sent, fetched, attempt>>
  BY DEF NextBlock, vars, node
<1>2. op = Idle /\ op.pc = "idle" /\ staged = NotStaged /\ attempt = 0
  BY <1>1, PhaseFacts
<1>3. /\ current \in 0 .. MaxHeight + 1 /\ (current > indexed \/ (current = 0 /\ indexed = 0))
      /\ FreshDb => current = StartBlock /\ sent = Unset
      /\ ~WriteFaults => FreshDb \/ hash[indexed] # NoBlock
  BY <1>1 DEF EInv, EngineTypes, CursorInv, BeginInv, TopInv
<1>4. CASE phase' = "fetch" /\ walk' = walk
  <2>1. EngineTypes'
    BY <1>1, <1>4 DEF EInv, EngineTypes, Phases
  <2> QED
    BY <1>1, <1>2, <1>3, <1>4, <2>1, RoundKeeps
<1>5. CASE StartWalk(current, TRUE) /\ current > 0
  <2>1. /\ phase' = "reorg"
        /\ walk' \in [h : Heights, low : 0 .. MaxHeight + 1, detected : BOOLEAN, rewind : BOOLEAN]
        /\ ~walk'.detected /\ AbandonedAbove(walk'.h)
        /\ ~FreshDb => StartBlock <= walk'.h
    BY <1>3, <1>5, WalkBegins
  <2>2. EngineTypes'
    BY <1>1, <2>1 DEF EInv, EngineTypes, Phases
  <2> QED
    BY <1>1, <1>2, <2>1, <2>2, TurnKeeps
<1> QED
  BY <1>4, <1>5 DEF NextBlock

LEMMA DiscontinuityKeeps ==
  ASSUME Limits, IInv, EInv, Discontinuity
  PROVE  EInv'
<1>1. /\ phase = "apply" /\ staged = NotStaged /\ ~Connects(fetched)
      /\ UNCHANGED <<indexed, tip, hash, op, staged, best, left, current, sent>>
      /\ StartWalk(Height[fetched], FALSE) /\ fetched' = NoBlock /\ attempt' = 0
  BY DEF Discontinuity, vars, node, Finish
<1>2. fetched \in Blocks /\ (Height[fetched] > indexed \/ Height[fetched] = 0)
  BY <1>1 DEF EInv, ApplyInv
<1>3. Height[fetched] \in Nat /\ Height[fetched] <= MaxHeight /\ MaxHeight \in Nat
  BY <1>2, ChainAssumption DEF Heights
<1>4. Height[fetched] > 0 /\ hash[Height[fetched] - 1] # NoBlock
  BY <1>1 DEF Connects
<1>5. Height[fetched] > indexed /\ Height[fetched] \in 0 .. MaxHeight + 1
      /\ Height[fetched] - 1 \in Heights
  BY <1>2, <1>3, <1>4 DEF Heights
<1>6. ~FreshDb
  BY <1>4, <1>5 DEF EInv, BeginInv
<1>7. /\ phase' = "reorg"
      /\ walk' \in [h : Heights, low : 0 .. MaxHeight + 1, detected : BOOLEAN, rewind : BOOLEAN]
      /\ ~walk'.detected /\ AbandonedAbove(walk'.h)
      /\ ~FreshDb => StartBlock <= walk'.h
  BY <1>1, <1>5, WalkBegins
<1>8. EngineTypes'
  BY <1>1, <1>7 DEF EInv, EngineTypes, Phases
<1> QED
  BY <1>1, <1>6, <1>7, <1>8, TurnKeeps

(* A walk that passes the height it looks at has found nothing of the      *)
(* node's chain there, and is above the start block. *)
LEMMA WalkPasses ==
  ASSUME Limits, IInv, EInv, phase \in {"reorg", "heal"}, walk.h > 0, ~Agree(walk.h),
         hash[walk.h] # NoBlock => walk.h <= Height[best]
  PROVE  AbandonedAbove(walk.h - 1) /\ (~FreshDb => StartBlock <= walk.h - 1)
<1>1. walk.h \in Heights /\ walk.h \in Nat
  BY LimitFacts DEF EInv, EngineTypes
<1>2. AbandonedAbove(walk.h) /\ (~FreshDb => StartBlock <= walk.h)
  BY DEF EInv, WalkInv
<1>3. ASSUME NEW h \in Heights, h > walk.h - 1, hash[h] # NoBlock PROVE hash[h] \in left
  <2>1. CASE h = walk.h
    BY <1>1, <1>3, <2>1, AgreeOrAbandoned
  <2>2. CASE h # walk.h
    <3>1. h \in Nat
      BY LimitFacts
    <3>2. h > walk.h
      BY <1>1, <1>3, <2>2, <3>1
    <3> QED
      BY <1>2, <1>3, <3>2 DEF AbandonedAbove
  <2> QED
    BY <2>1, <2>2
<1>4. ASSUME ~FreshDb PROVE StartBlock # walk.h
  BY <1>4, StartRecorded, StartAgrees
<1>5. ~FreshDb => StartBlock <= walk.h - 1
  BY <1>1, <1>2, <1>4, LimitFacts
<1> QED
  BY <1>3, <1>5 DEF AbandonedAbove

LEMMA ReorgStepKeeps ==
  ASSUME Limits, IInv, EInv, ReorgStep
  PROVE  EInv'
<1>1. /\ phase = "reorg" /\ phase' = "reorg" /\ walk.h > 0 /\ ~Agree(walk.h)
      /\ hash[walk.h] # NoBlock => walk.h <= Height[best]
      /\ UNCHANGED <<indexed, tip, hash, op, staged, best, left, current, sent, fetched, attempt>>
      /\ walk' = [walk EXCEPT !.h = walk.h - 1,
                              !.detected = walk.detected \/ hash[walk.h] # NoBlock]
  BY DEF ReorgStep, ReorgInRange, vars, node
<1>2. walk \in [h : Heights, low : 0 .. MaxHeight + 1, detected : BOOLEAN, rewind : BOOLEAN]
      /\ walk.h \in Nat /\ walk.h <= MaxHeight
  BY LimitFacts DEF EInv, EngineTypes
<1>3. /\ walk' \in [h : Heights, low : 0 .. MaxHeight + 1, detected : BOOLEAN, rewind : BOOLEAN]
      /\ walk'.h = walk.h - 1 /\ (walk'.detected <=> walk.detected \/ hash[walk.h] # NoBlock)
  <2>1. walk.h - 1 \in Heights
    BY <1>1, <1>2, ChainAssumption DEF Heights
  <2> QED
    BY <1>1, <1>2, <2>1
<1>4. AbandonedAbove(walk'.h) /\ (~FreshDb => StartBlock <= walk'.h)
  BY <1>1, <1>3, WalkPasses
<1>5. walk'.detected => ~FreshDb
  BY <1>1, <1>2, <1>3 DEF EInv, WalkInv, BeginInv
<1>6. EngineTypes'
  BY <1>1, <1>3 DEF EInv, EngineTypes
<1>7. staged = NotStaged /\ attempt' = 0
  BY <1>1, PhaseFacts
<1> QED
  BY <1>1, <1>4, <1>5, <1>6, <1>7, TurnKeeps

(* handle_reorg returns a height above the tip, or 0. *)
LEMMA ReturnKeeps ==
  ASSUME Limits, IInv, EInv, UNCHANGED vars, phase \in {"reorg", "undo"}, op.pc = "idle",
         NEW c \in 0 .. MaxHeight + 1, ReorgReturns(c),
         c > indexed \/ (c = 0 /\ indexed = 0),
         FreshDb => c = StartBlock
  PROVE  EInv'
<1>1. /\ UNCHANGED <<indexed, tip, hash, op, staged, best, left, fetched, attempt>>
      /\ walk' = NoWalk
      /\ \/ phase' = "fetch" /\ current' = c /\ sent' = sent
         \/ phase' = "next" /\ sent' = Unset /\ current' = current
  BY DEF ReorgReturns, vars, node
<1>2. staged = NotStaged /\ attempt = 0 /\ attempt' = 0 /\ op'.pc = "idle"
  BY <1>1, PhaseFacts
<1>3. NoWalk \in [h : Heights, low : 0 .. MaxHeight + 1, detected : BOOLEAN, rewind : BOOLEAN]
  BY ChainAssumption DEF NoWalk, Heights
<1>4. EngineTypes'
  BY <1>1, <1>3, ChainAssumption DEF EInv, EngineTypes, Phases, Unset
<1>5. current' > indexed \/ (current' = 0 /\ indexed = 0)
  BY <1>1 DEF EInv, CursorInv
<1>6. FreshDb => current' = StartBlock /\ sent' = Unset
  BY <1>1 DEF EInv, BeginInv
<1>7. ~WriteFaults => FreshDb \/ hash[indexed] # NoBlock
  BY DEF EInv, TopInv, RollbackInv
<1>8. phase' \in {"next", "fetch"} /\ staged' = NotStaged
  BY <1>1, <1>2
<1> QED
  BY <1>1, <1>2, <1>4, <1>5, <1>6, <1>7, <1>8, RoundKeeps

(* current_height is such a height. *)
LEMMA CurrentFacts ==
  ASSUME IInv, EInv, phase \in {"next", "reorg", "undo", "fetch", "apply"}
  PROVE  /\ current \in 0 .. MaxHeight + 1
         /\ current > indexed \/ (current = 0 /\ indexed = 0)
         /\ FreshDb => current = StartBlock
BY DEF EInv, EngineTypes, CursorInv, BeginInv

LEMMA ReorgGivesUpKeeps ==
  ASSUME Limits, IInv, EInv, ReorgGivesUp
  PROVE  EInv'
<1>1. phase = "reorg" /\ ReorgReturns(current) /\ UNCHANGED vars
  BY DEF ReorgGivesUp
<1>2. op.pc = "idle"
  BY <1>1, PhaseFacts
<1> QED
  BY <1>1, <1>2, CurrentFacts, ReturnKeeps

LEMMA ReorgDoneKeeps ==
  ASSUME Limits, IInv, EInv, ReorgDone
  PROVE  EInv'
<1>1. phase = "undo" /\ op.pc = "idle" /\ ReorgReturns(walk.h + 1) /\ UNCHANGED vars
  BY DEF ReorgDone, Idle
<1>2. walk.h \in Heights /\ walk.h = indexed /\ ~FreshDb
  BY <1>1 DEF EInv, EngineTypes, RollbackInv
<1>3. walk.h + 1 \in 0 .. MaxHeight + 1 /\ walk.h + 1 > indexed
  BY <1>2, LimitFacts
<1> QED
  BY <1>1, <1>2, <1>3, ReturnKeeps

(* Where handle_reorg rolls back to. *)
LEMMA ReorgTarget ==
  ASSUME Limits, WalksEndOnRecords, IInv, EInv, phase = "reorg", walk.detected, ReorgInRange => Agree(walk.h)
  PROVE  /\ ~FreshDb /\ walk.h \in StartBlock .. indexed /\ hash[walk.h] # NoBlock
         /\ AbandonedAbove(walk.h)
<1>1. ~FreshDb /\ StartBlock <= walk.h /\ AbandonedAbove(walk.h)
  BY DEF EInv, WalkInv
<1>2. /\ walk.h \in Heights /\ walk.h \in Nat /\ StartBlock \in Nat /\ indexed \in Nat
      /\ walk.low \in Nat
  BY LimitFacts, HeightFacts DEF EInv, EngineTypes, IInv, PointerInv
<1>3. CASE Agree(walk.h)
  <2>1. hash[walk.h] # NoBlock
    BY <1>3 DEF Agree
  <2>2. hash[walk.h] \notin left
    BY <1>2, <1>3, <2>1, AgreeOrAbandoned
  <2>3. ~ (walk.h > indexed)
    BY <1>2, <2>1, <2>2 DEF EInv, RecordsInv, AbandonedAbove
  <2> QED
    BY <1>1, <1>2, <2>1, <2>3
<1>4. CASE ~ReorgInRange
  <2>1. CASE walk.h = 0
    BY <1>1, <1>2, <2>1, StartRecorded
  <2>2. CASE walk.h > 0
    <3>1. walk.h <= indexed /\ hash[walk.h] # NoBlock
      BY <1>2, <1>4, <2>2 DEF ReorgInRange, WalksEndOnRecords
    <3> QED
      BY <1>1, <1>2, <3>1
  <2> QED
    BY <1>2, <2>1, <2>2
<1> QED
  BY <1>3, <1>4

LEMMA ReorgEndKeeps ==
  ASSUME Limits, WalksEndOnRecords, IInv, EInv, ReorgEnd
  PROVE  EInv'
<1>1. phase = "reorg" /\ (ReorgInRange => Agree(walk.h))
  BY DEF ReorgEnd
<1>2. op.pc = "idle" /\ staged = NotStaged /\ attempt = 0
  BY <1>1, PhaseFacts
<1>3. CASE ~walk.detected
  <2>1. ReorgReturns(current) /\ UNCHANGED vars
    BY <1>3 DEF ReorgEnd
  <2> QED
    BY <1>1, <1>2, <2>1, CurrentFacts, ReturnKeeps
<1>4. CASE walk.detected
  <2>1. /\ ~FreshDb /\ walk.h \in StartBlock .. indexed /\ hash[walk.h] # NoBlock
        /\ AbandonedAbove(walk.h)
    BY <1>1, <1>4, ReorgTarget
  <2>2. /\ UNCHANGED <<indexed, tip, hash, staged, best, left, current, sent, walk, fetched, attempt>>
        /\ phase' = "undo" /\ op'.pc # "idle" /\ op'.target = walk.h /\ op'.heal = FALSE
    BY <1>4 DEF ReorgEnd, Rollback, BeginRollback, store, node
  <2>3. NodeInv' /\ RecordsInv' /\ (FreshDb' <=> FreshDb)
    BY <2>2, RecordsStay
  <2>4. AbandonedAbove(op.target)'
    BY <2>1, <2>2 DEF AbandonedAbove
  <2>5. RollbackInv'
    BY <2>1, <2>2, <2>3, <2>4 DEF EInv, RollbackInv
  <2>6. EngineTypes' /\ WalkInv' /\ CursorInv' /\ BeginInv' /\ TopInv'
    BY <1>1, <2>1, <2>2, <2>3 DEF EInv, EngineTypes, Phases, WalkInv, CursorInv, BeginInv, TopInv
  <2>7. ApplyInv'
    BY <1>2, <2>2 DEF EInv, ApplyInv
  <2> QED
    BY <2>3, <2>5, <2>6, <2>7 DEF EInv
<1> QED
  BY <1>3, <1>4

LEMMA RollbackFailsKeeps ==
  ASSUME Limits, IInv, EInv, RollbackFails
  PROVE  EInv'
<1>1. /\ phase = "undo" /\ phase' = "next" /\ WriteFaults
      /\ UNCHANGED <<indexed, tip, hash, best, left, current, sent, fetched, attempt>>
      /\ op'.pc = "idle" /\ staged' = NotStaged /\ walk' = NoWalk
  BY DEF RollbackFails, RollbackWriteFails, vars, store, node, Idle, EInv, ApplyInv
<1>2. NoWalk \in [h : Heights, low : 0 .. MaxHeight + 1, detected : BOOLEAN, rewind : BOOLEAN]
  BY ChainAssumption DEF NoWalk, Heights
<1>3. EngineTypes'
  BY <1>1, <1>2 DEF EInv, EngineTypes, Phases
<1>4. attempt' = 0 /\ ~FreshDb
  BY <1>1, PhaseFacts DEF EInv, RollbackInv
<1> QED
  BY <1>1, <1>3, <1>4, CurrentFacts, RoundKeeps

-----------------------------------------------------------------------------
(***************************************************************************)
(* Fetching, executing and committing a block.                             *)
(***************************************************************************)

(* A block may be executed, or executed again. *)
LEMMA ApplyKeeps ==
  ASSUME Limits, IInv, EInv,
         UNCHANGED <<indexed, tip, hash, op, best, left, current, walk>>,
         phase \in {"fetch", "apply"}, phase' = "apply", EngineTypes',
         fetched' \in Blocks, Known(fetched'),
         Height[fetched'] > indexed \/ (Height[fetched'] = 0 /\ indexed = 0),
         FreshDb => Height[fetched'] = StartBlock
                    /\ (attempt' = MaxAttempts => staged' # NotStaged),
         attempt' > 0 => Connects(fetched'),
         staged' # NotStaged => attempt' > 0 /\ staged'.block = fetched'
  PROVE  EInv'
<1>1. NodeInv' /\ RecordsInv' /\ (FreshDb' <=> FreshDb)
  BY RecordsStay
<1>2. op'.pc = "idle"
  BY PhaseFacts
<1>3. RollbackInv' /\ WalkInv' /\ CursorInv'
  BY <1>2 DEF EInv, RollbackInv, WalkInv, CursorInv
<1>4. BeginInv' /\ TopInv'
  BY <1>1 DEF EInv, BeginInv, TopInv
<1>5. ApplyInv'
  BY DEF ApplyInv, Known, Connects
<1> QED
  BY <1>1, <1>3, <1>4, <1>5 DEF EInv

LEMMA FetchKeeps ==
  ASSUME Limits, IInv, EInv, Fetch \/ FetchFails
  PROVE  EInv'
<1>1. /\ phase = "fetch"
      /\ UNCHANGED <<indexed, tip, hash, op, staged, best, left, current, walk, attempt>>
  BY DEF Fetch, FetchFails, vars, node
<1>2. op.pc = "idle" /\ staged = NotStaged /\ attempt = 0
  BY <1>1, PhaseFacts
<1>3. /\ current \in 0 .. MaxHeight + 1 /\ (current > indexed \/ (current = 0 /\ indexed = 0))
      /\ FreshDb => current = StartBlock /\ sent = Unset
      /\ ~WriteFaults => FreshDb \/ hash[indexed] # NoBlock
      /\ sent \in -1 .. MaxHeight /\ indexed \in Nat /\ MaxHeight \in Nat /\ StartBlock \in Nat
  BY <1>1, HeightFacts DEF EInv, EngineTypes, CursorInv, BeginInv, TopInv, IInv, PointerInv
<1>4. CASE phase' = "next" /\ UNCHANGED <<fetched, sent>>
  <2>1. EngineTypes'
    BY <1>1, <1>4 DEF EInv, EngineTypes, Phases
  <2> QED
    BY <1>1, <1>2, <1>3, <1>4, <2>1, RoundKeeps
<1>5. CASE /\ FetchHeight <= Height[best] /\ phase' = "apply"
           /\ fetched' = Ancestry(best)[FetchHeight] /\ sent' = FetchHeight
  <2>1. FetchHeight \in Nat /\ (FetchHeight > indexed \/ (FetchHeight = 0 /\ indexed = 0))
        /\ (FreshDb => FetchHeight = StartBlock)
    BY <1>3 DEF FetchHeight, Unset
  <2>2. best \in Blocks /\ Height[best] \in Nat /\ Height[best] <= MaxHeight
    BY ChainAssumption DEF EInv, NodeInv, Heights
  <2>3. FetchHeight \in 0 .. Height[best] /\ sent' \in -1 .. MaxHeight
    BY <1>3, <1>5, <2>1, <2>2
  <2>4. fetched' \in Blocks /\ Known(fetched') /\ Height[fetched'] = FetchHeight
    BY <1>5, <2>2, <2>3, OnChainFacts DEF Known
  <2>5. EngineTypes'
    BY <1>1, <1>5, <2>3, <2>4 DEF EInv, EngineTypes, Phases
  <2>6. MaxAttempts # 0 /\ attempt' = 0 /\ staged' = NotStaged
    BY <1>1, <1>2, EngineAssumption
  <2> QED
    BY <1>1, <1>5, <2>1, <2>4, <2>5, <2>6, ApplyKeeps
<1> QED
  BY <1>4, <1>5 DEF Fetch, FetchFails

LEMMA ProcessBlockKeeps ==
  ASSUME Limits, IInv, EInv, ProcessBlock
  PROVE  EInv'
<1>1. /\ phase = "apply" /\ (attempt = 0 => Connects(fetched)) /\ attempt' = attempt + 1
      /\ UNCHANGED <<indexed, tip, hash, op, best, left, phase, current, sent, walk, fetched>>
      /\ staged'.block = fetched
  BY DEF ProcessBlock, RunBlock, BuildBatch, store, node
<1>2. /\ fetched \in Blocks /\ Known(fetched) /\ attempt \in Nat
      /\ Height[fetched] > indexed \/ (Height[fetched] = 0 /\ indexed = 0)
      /\ attempt > 0 => Connects(fetched)
      /\ FreshDb => Height[fetched] = StartBlock
  BY <1>1 DEF EInv, EngineTypes, ApplyInv, BeginInv
<1>3. staged' # NotStaged
  BY <1>1, <1>2, ChainAssumption DEF NotStaged
<1>4. attempt' > 0 /\ Connects(fetched) /\ EngineTypes'
  BY <1>1, <1>2 DEF EInv, EngineTypes
<1> QED
  BY <1>1, <1>2, <1>3, <1>4, ApplyKeeps

LEMMA AttemptFailsKeeps ==
  ASSUME Limits, IInv, EInv, AttemptFails
  PROVE  EInv'
<1>1. /\ phase = "apply" /\ staged' = NotStaged /\ op' = Idle
      /\ FreshDb => attempt # MaxAttempts
      /\ UNCHANGED <<indexed, tip, hash, best, left, phase, current, sent, walk, fetched, attempt>>
  BY DEF AttemptFails, Crash, Forget, store, node, engine, Limits
<1>2. op' = op
  BY <1>1, PhaseFacts
<1>3. /\ fetched \in Blocks /\ Known(fetched)
      /\ Height[fetched] > indexed \/ (Height[fetched] = 0 /\ indexed = 0)
      /\ attempt > 0 => Connects(fetched)
      /\ FreshDb => Height[fetched] = StartBlock
  BY <1>1 DEF EInv, ApplyInv, BeginInv
<1>4. EngineTypes'
  BY <1>1 DEF EInv, EngineTypes
<1> QED
  BY <1>1, <1>2, <1>3, <1>4, ApplyKeeps

(* The round ends without the block. *)
LEMMA DroppedKeeps ==
  ASSUME Limits, IInv, EInv, GiveUp \/ RejectBlock
  PROVE  EInv'
<1>1. /\ phase = "apply" /\ phase' = "next" /\ fetched' = NoBlock /\ attempt' = 0
      /\ staged' = NotStaged
      /\ UNCHANGED <<indexed, tip, hash, op, best, left, current, sent, walk>>
  BY DEF GiveUp, RejectBlock, CommitRejected, Finish, Forget, vars, store, node
<1>2. ~FreshDb
  <2>1. CASE GiveUp
    BY <2>1 DEF GiveUp, EInv, BeginInv
  <2>2. CASE RejectBlock
    BY <2>2 DEF RejectBlock, CommitRejected, Accepts
  <2> QED
    BY <2>1, <2>2
<1>3. op'.pc = "idle"
  BY <1>1, PhaseFacts
<1>4. EngineTypes'
  BY <1>1 DEF EInv, EngineTypes, Phases
<1>5. ~WriteFaults => FreshDb \/ hash[indexed] # NoBlock
  BY <1>1 DEF EInv, TopInv
<1> QED
  BY <1>1, <1>2, <1>3, <1>4, <1>5, CurrentFacts, RoundKeeps

LEMMA CommitBlockKeeps ==
  ASSUME Limits, IInv, EInv, CommitBlock
  PROVE  EInv'
<1> DEFINE b == fetched
           top == Height[fetched]
<1>1. /\ phase = "apply" /\ staged # NotStaged /\ (FreshDb \/ Height[staged.block] = indexed + 1)
      /\ phase' = "next" /\ current' = top + 1 /\ fetched' = NoBlock /\ attempt' = 0
      /\ staged' = NotStaged
      /\ UNCHANGED <<op, best, left, sent, walk>>
  BY DEF CommitBlock, CommitAtomic, Accepts, Finish, node
<1>2. /\ staged.block = b /\ b \in Blocks /\ Known(b) /\ Connects(b)
      /\ top > indexed \/ (top = 0 /\ indexed = 0)
      /\ FreshDb => top = StartBlock
  BY <1>1 DEF EInv, ApplyInv, BeginInv
<1>3. indexed' = top /\ tip' = top /\ hash' = [hash EXCEPT ![top] = b]
  BY <1>2 DEF CommitBlock, CommitAtomic, ApplyBatch
<1>4. /\ top \in Heights /\ top \in Nat /\ top <= MaxHeight /\ MaxHeight \in Nat
      /\ indexed \in Nat /\ StartBlock \in Nat /\ b # NoBlock
      /\ hash \in [Heights -> Blocks \cup {NoBlock}]
  BY <1>2, HeightFacts, ChainAssumption DEF IInv, PointerInv, TypeOK, Heights
<1>a. /\ FreshDb \/ top = indexed + 1
      /\ top > 0 => hash[top - 1] \in {NoBlock, Parent[b]}
  BY <1>1, <1>2 DEF Connects
<1>b. FreshDb => top = StartBlock
  BY <1>2
<1>c. Known(b) /\ Height[b] = top
  BY <1>2
<1> HIDE DEF b, top
<1>5. hash'[top] = b /\ \A h \in Heights : h # top => hash'[h] = hash[h]
  BY <1>3, <1>4
<1>6. ~FreshDb'
  BY <1>3, <1>4, <1>5 DEF FreshDb
<1>7. op'.pc = "idle"
  BY <1>1, PhaseFacts
<1>8. NodeInv' /\ EngineTypes'
  BY <1>1, <1>4 DEF EInv, NodeInv, EngineTypes, Phases
<1>9. RecordsInv'
  <2>1. ASSUME NEW h \in Heights, hash'[h] # NoBlock
        PROVE  Height[hash'[h]] = h /\ Known(hash'[h])
    <3>1. CASE h = top
      BY <1>5, <1>c, <3>1
    <3>2. CASE h # top
      BY <1>5, <2>1, <3>2 DEF EInv, RecordsInv
    <3> QED
      BY <3>1, <3>2
  <2>2. AbandonedAbove(indexed)'
    <3>1. ASSUME NEW h \in Heights, h > top PROVE h # top /\ h > indexed
      BY <1>2, <1>4, <3>1, LimitFacts
    <3> QED
      BY <1>1, <1>3, <1>5, <3>1 DEF EInv, RecordsInv, AbandonedAbove
  <2>3. OneChain'
    <3>1. SUFFICES ASSUME NEW h \in StartBlock + 1 .. top,
                          hash'[h] # NoBlock, hash'[h - 1] # NoBlock
                   PROVE  Parent[hash'[h]] = hash'[h - 1]
      BY <1>3 DEF OneChain
    <3>2. ~FreshDb /\ top = indexed + 1
      <4>1. StartBlock # top
        BY <1>4, <3>1
      <4> QED
        BY <1>a, <1>b, <4>1
    <3>3. h \in Heights /\ h - 1 \in Heights /\ h - 1 # top
      BY <1>4, <3>1 DEF Heights
    <3>4. CASE h = top
      <4>1. top > 0 /\ hash'[h] = b /\ hash'[h - 1] = hash[top - 1]
        BY <1>4, <1>5, <3>1, <3>3, <3>4
      <4> QED
        BY <1>a, <3>1, <4>1
    <3>5. CASE h # top
      <4>1. h \in StartBlock + 1 .. indexed
        BY <1>4, <3>1, <3>2, <3>5
      <4> QED
        BY <1>5, <3>1, <3>3, <3>5, <4>1 DEF EInv, RecordsInv, OneChain
    <3> QED
      BY <3>4, <3>5
  <2> QED
    BY <1>1, <2>1, <2>2, <2>3 DEF RecordsInv, Known
<1>10. RollbackInv' /\ WalkInv' /\ CursorInv'
  BY <1>1, <1>3, <1>4, <1>7 DEF RollbackInv, WalkInv, CursorInv, top
<1>11. BeginInv' /\ ApplyInv' /\ TopInv'
  BY <1>1, <1>3, <1>4, <1>5, <1>6 DEF BeginInv, ApplyInv, TopInv
<1> QED
  BY <1>8, <1>9, <1>10, <1>11 DEF EInv

-----------------------------------------------------------------------------
(***************************************************************************)
(* Dying, starting and healing.                                            *)
(***************************************************************************)

LEMMA DieKeeps ==
  ASSUME Limits, IInv, EInv, Die
  PROVE  EInv'
<1>1. /\ phase' = "down" /\ walk' = NoWalk /\ current' = 0 /\ sent' = Unset
      /\ fetched' = NoBlock /\ attempt' = 0 /\ staged' = NotStaged /\ op'.pc = "idle"
      /\ UNCHANGED <<indexed, tip, hash, best, left>>
  BY DEF Die, Crash, Forget, Finish, store, node, Idle
<1>2. NodeInv' /\ RecordsInv' /\ (FreshDb' <=> FreshDb)
  BY <1>1, RecordsStay
<1>3. EngineTypes'
  BY <1>1, ChainAssumption DEF EngineTypes, Phases, NoWalk, Heights, Unset
<1>4. RollbackInv' /\ WalkInv' /\ CursorInv'
  BY <1>1 DEF EInv, RollbackInv, WalkInv, CursorInv
<1>5. BeginInv' /\ ApplyInv' /\ TopInv'
  BY <1>1, <1>2 DEF EInv, BeginInv, ApplyInv, TopInv
<1> QED
  BY <1>2, <1>3, <1>4, <1>5 DEF EInv

(* init() returns. *)
LEMMA ReadyKeeps ==
  ASSUME Limits, IInv, EInv, Ready, UNCHANGED <<best, left, sent, fetched, attempt>>,
         phase \in {"down", "heal", "healing"}, op.pc = "idle",
         FreshDb \/ hash[indexed] # NoBlock
  PROVE  EInv'
<1>1. /\ UNCHANGED <<indexed, tip, hash, op, staged>>
      /\ phase' = "next" /\ current' = StartHeight /\ walk' = NoWalk
  BY DEF Ready, InitStateRoot, vars
<1>2. staged = NotStaged /\ attempt = 0
  BY PhaseFacts
<1>3. indexed \in Nat /\ indexed <= MaxHeight /\ MaxHeight \in Nat /\ StartBlock \in Nat
      /\ StartBlock <= MaxHeight
  BY HeightFacts, LimitFacts DEF IInv, PointerInv, TypeOK
<1>4. /\ StartHeight \in 0 .. MaxHeight + 1
      /\ StartHeight > indexed \/ (StartHeight = 0 /\ indexed = 0)
      /\ FreshDb => StartHeight = StartBlock
  BY <1>3 DEF StartHeight, FreshDb
<1>5. EngineTypes'
  BY <1>1, <1>3, <1>4 DEF EInv, EngineTypes, Phases, NoWalk, Heights
<1>6. FreshDb => sent' = Unset
  BY DEF EInv, BeginInv
<1> QED
  BY <1>1, <1>2, <1>4, <1>5, <1>6, RoundKeeps

-----------------------------------------------------------------------------
(***************************************************************************)
(* Rolling back.                                                           *)
(***************************************************************************)

(* A write of a rollback removes records, but not the target's, and may    *)
(* lower the tip to the target. *)
LEMMA Recedes ==
  ASSUME Limits, IInv, EInv, op.pc # "idle",
         UNCHANGED <<best, left, phase, current, sent, walk, fetched, attempt, staged>>,
         \A h \in Heights : hash'[h] \in {hash[h], NoBlock},
         hash'[op.target] = hash[op.target],
         indexed' \in {indexed, op.target}
  PROVE  /\ NodeInv' /\ RecordsInv' /\ EngineTypes' /\ WalkInv' /\ CursorInv' /\ BeginInv'
         /\ ApplyInv' /\ TopInv' /\ ~FreshDb'
         /\ phase \in {"undo", "healing"}
         /\ op.target <= indexed /\ hash'[op.target] # NoBlock
         /\ \A h \in Heights : h > op.target /\ hash'[h] # NoBlock => hash'[h] \in left'
<1>1. /\ op.target \in Heights /\ op.target \in Nat /\ indexed \in Nat /\ StartBlock \in Nat
      /\ op.target <= indexed /\ MaxHeight \in Nat /\ indexed <= MaxHeight
  BY HeightFacts, LimitFacts DEF IInv, PointerInv, TypeOK, OpInRange
<1>2. /\ phase \in {"undo", "healing"} /\ hash[op.target] # NoBlock
      /\ AbandonedAbove(op.target)
  BY DEF EInv, RollbackInv
<1>3. \A h \in Heights : h > op.target /\ hash'[h] # NoBlock => hash'[h] \in left'
  BY <1>2 DEF AbandonedAbove
<1>4. ~FreshDb'
  BY <1>1, <1>2 DEF FreshDb
<1>5. RecordsInv'
  <2>1. AbandonedAbove(indexed)'
    <3>1. CASE indexed' = op.target
      BY <1>3, <3>1 DEF AbandonedAbove
    <3>2. CASE indexed' = indexed
      <4>1. \A h \in Heights : h > indexed => h > op.target
        BY <1>1, LimitFacts
      <4> QED
        BY <1>3, <3>2, <4>1 DEF AbandonedAbove
    <3> QED
      BY <3>1, <3>2
  <2>2. \A h \in Heights : hash'[h] # NoBlock => Height[hash'[h]] = h /\ Known(hash'[h])
    BY DEF EInv, RecordsInv
  <2>3. OneChain'
    <3>1. SUFFICES ASSUME NEW h \in StartBlock + 1 .. indexed',
                          hash'[h] # NoBlock, hash'[h - 1] # NoBlock
                   PROVE  Parent[hash'[h]] = hash'[h - 1]
      BY DEF OneChain
    <3>2. h \in StartBlock + 1 .. indexed /\ h \in Heights /\ h - 1 \in Heights
      BY <1>1, <3>1 DEF Heights
    <3>3. hash'[h] = hash[h] /\ hash'[h - 1] = hash[h - 1]
      BY <3>1, <3>2
    <3> QED
      BY <3>1, <3>2, <3>3 DEF EInv, RecordsInv, OneChain
  <2> QED
    BY <2>1, <2>2, <2>3 DEF RecordsInv, Known
<1>6. NodeInv' /\ EngineTypes' /\ WalkInv' /\ BeginInv' /\ ApplyInv' /\ TopInv'
  BY <1>2, <1>4 DEF EInv, NodeInv, EngineTypes, WalkInv, BeginInv, ApplyInv, TopInv
<1>7. CursorInv'
  <2>1. phase = "undo" => current \in Nat /\ (current > indexed \/ (current = 0 /\ indexed = 0))
    BY <1>1 DEF EInv, EngineTypes, CursorInv
  <2> QED
    BY <1>1, <1>2, <2>1 DEF CursorInv
<1> QED
  BY <1>1, <1>2, <1>3, <1>4, <1>5, <1>6, <1>7

LEMMA RollbackStepKeeps ==
  ASSUME Limits, IInv, EInv, RollbackStep
  PROVE  EInv'
<1>0. UNCHANGED <<best, left, phase, current, sent, walk, fetched, attempt>>
  BY DEF RollbackStep, node, engine
<1>1. /\ op.target \in Heights /\ op.target \in Nat /\ indexed \in Nat /\ tip \in Nat
      /\ op.target <= indexed \/ op.pc = "idle"
      /\ indexed <= tip
      /\ hash \in [Heights -> Blocks \cup {NoBlock}]
      /\ op.pc = "heal" => op.target = indexed
  BY HeightFacts DEF IInv, PointerInv, TypeOK, OpInRange, EInv, RollbackInv
<1>2. op.pc # "idle" =>
         /\ phase = IF op.heal THEN "healing" ELSE "undo"
         /\ ~op.heal => op.target = walk.h
  BY DEF EInv, RollbackInv
<1> DEFINE Receding ==
      /\ op.pc # "idle" /\ UNCHANGED <<staged>>
      /\ \A h \in Heights : hash'[h] \in {hash[h], NoBlock}
      /\ hash'[op.target] = hash[op.target]
      /\ indexed' \in {indexed, op.target}
<1>3. ASSUME Receding, RollbackInv' PROVE EInv'
  BY <1>0, <1>3, Recedes DEF EInv
<1>4. ASSUME Receding
      PROVE  /\ ~FreshDb' /\ op.target <= indexed /\ hash'[op.target] # NoBlock
             /\ \A h \in Heights : h > op.target /\ hash'[h] # NoBlock => hash'[h] \in left'
  BY <1>0, <1>4, Recedes
<1>5. ASSUME Receding, op'.pc # "idle", op'.target = op.target, op'.heal = op.heal,
             indexed' <= tip'
      PROVE  EInv'
  <2>1. AbandonedAbove(op.target)'
    BY <1>4, <1>5 DEF AbandonedAbove
  <2>2. RollbackInv'
    BY <1>0, <1>2, <1>4, <1>5, <2>1 DEF RollbackInv
  <2> QED
    BY <1>3, <1>5, <2>2
<1>6. CASE ManifestBatch
  <2>1. /\ op.pc = "manifest" /\ op.at # op.target /\ op'.pc = "manifest"
        /\ op'.target = op.target /\ op'.heal = op.heal
        /\ hash' = [hash EXCEPT ![op.at] = NoBlock] /\ UNCHANGED <<indexed, tip, staged>>
    BY <1>1, <1>6 DEF ManifestBatch, IInv, PointerInv, TypeOK
  <2>2. Receding
    BY <1>1, <2>1
  <2> QED
    BY <1>1, <1>5, <2>1, <2>2
<1>7. CASE ScanMetadata \/ \E k \in Keys : ScanKey(k)
  <2>1. /\ op.pc \in {"meta", "scan"} /\ op'.pc = "scan"
        /\ op'.target = op.target /\ op'.heal = op.heal
        /\ UNCHANGED <<hash, indexed, tip, staged>>
    BY <1>7 DEF ScanMetadata, ScanKey, IInv, PointerInv, TypeOK
  <2>2. Receding
    BY <1>1, <2>1
  <2> QED
    BY <1>1, <1>5, <2>1, <2>2
<1>8. CASE SetIndexedHeight
  <2>1. /\ op.pc # "idle" /\ indexed' = op.target /\ UNCHANGED <<hash, tip, staged>>
        /\ op' = IF op.heal THEN [op EXCEPT !.pc = "heal"] ELSE Idle
    BY <1>8 DEF SetIndexedHeight
  <2>2. Receding /\ indexed' <= tip'
    BY <1>1, <2>1
  <2>3. CASE op.heal
    <3>1. op'.pc # "idle" /\ op'.target = op.target /\ op'.heal = op.heal
      BY <2>1, <2>3 DEF IInv, PointerInv, TypeOK
    <3> QED
      BY <1>5, <2>2, <3>1
  <2>4. CASE ~op.heal
    <3>1. op'.pc = "idle" /\ phase' = "undo" /\ indexed' = walk'.h /\ hash'[indexed'] # NoBlock
      BY <1>0, <1>2, <1>4, <2>1, <2>2, <2>4 DEF Idle
    <3>2. RollbackInv'
      BY <1>4, <2>2, <3>1 DEF RollbackInv
    <3> QED
      BY <1>3, <2>2, <3>2
  <2> QED
    BY <2>3, <2>4
<1>9. CASE HealPointers
  <2>1. /\ op.pc = "heal" /\ indexed' = op.target /\ tip' = op.target
        /\ UNCHANGED <<hash, staged>> /\ op'.pc = "idle"
    BY <1>9 DEF HealPointers, Idle
  <2>2. Receding
    BY <1>1, <2>1
  <2>3. phase' = "undo" => indexed' = walk'.h
    BY <1>0, <1>2, <2>1
  <2>4. RollbackInv'
    BY <1>1, <1>4, <2>1, <2>2, <2>3 DEF RollbackInv
  <2> QED
    BY <1>3, <2>2, <2>4
<1> QED
  BY <1>6, <1>7, <1>8, <1>9 DEF RollbackStep

-----------------------------------------------------------------------------
(***************************************************************************)
(* The heal.                                                               *)
(***************************************************************************)

(* Where the heal lowers the pointers to. *)
LEMMA HealTarget ==
  ASSUME Limits, WalksEndOnRecords, IInv, EInv, phase = "heal",
         \/ ~Agree(walk.h) => HealAtEnd
         \/ hash[walk.h] = NoBlock => walk.h = Candidate
  PROVE  /\ ~FreshDb /\ walk.h \in StartBlock .. indexed /\ hash[walk.h] # NoBlock
         /\ walk.h <= tip /\ walk.h <= MaxHashHeight /\ AbandonedAbove(walk.h)
<1>1. /\ ~FreshDb /\ StartBlock <= walk.h /\ walk.h <= Candidate
      /\ AbandonedAbove(walk.h)
  BY DEF EInv, WalkInv
<1>2. /\ walk.h \in Nat /\ StartBlock \in Nat /\ indexed \in Nat /\ tip \in Nat
      /\ Candidate \in Nat /\ Candidate <= indexed /\ Candidate <= tip
      /\ Candidate <= MaxHashHeight /\ hash[Candidate] # NoBlock /\ MaxHashHeight \in Nat
  BY <1>1, LimitFacts, HeightFacts, CandidateFacts, MaxHashFacts DEF EInv, EngineTypes, IInv, PointerInv
<1>3. hash[walk.h] # NoBlock
  <2>1. CASE Agree(walk.h)
    BY <2>1 DEF Agree
  <2>2. CASE HealAtEnd
    <3>1. CASE walk.h = 0
      BY <1>1, <1>2, <3>1, StartRecorded
    <3>2. CASE walk.h > 0
      BY <2>2, <3>2 DEF HealAtEnd, WalksEndOnRecords
    <3> QED
      BY <1>2, <3>1, <3>2
  <2>3. CASE hash[walk.h] = NoBlock => walk.h = Candidate
    BY <1>2, <2>3
  <2> QED
    BY <2>1, <2>2, <2>3
<1> QED
  BY <1>1, <1>2, <1>3

LEMMA HealToKeeps ==
  ASSUME Limits, WalksEndOnRecords, IInv, EInv, HealEnd \/ HealUnvalidated
  PROVE  EInv'
<1>1. /\ phase = "heal" /\ HealTo(walk.h)
      /\ \/ ~Agree(walk.h) => HealAtEnd
         \/ hash[walk.h] = NoBlock => walk.h = Candidate
  BY DEF HealEnd, HealUnvalidated
<1>2. /\ ~FreshDb /\ walk.h \in StartBlock .. indexed /\ hash[walk.h] # NoBlock
      /\ walk.h <= tip /\ walk.h <= MaxHashHeight /\ AbandonedAbove(walk.h)
  BY <1>1, HealTarget
<1>3. op.pc = "idle" /\ staged = NotStaged /\ attempt = 0
  BY <1>1, PhaseFacts
<1>4. UNCHANGED <<best, left, sent, fetched, attempt>>
  BY <1>1 DEF HealTo, node
<1>5. indexed \in Nat /\ walk.h \in Nat
  BY LimitFacts, HeightFacts DEF EInv, EngineTypes, IInv, PointerInv
<1>6. CASE Ready /\ ~(walk.h < indexed)
  <2>1. walk.h = indexed
    BY <1>2, <1>5, <1>6
  <2> QED
    BY <1>1, <1>2, <1>3, <1>4, <1>6, <2>1, ReadyKeeps
<1>7. CASE Heal(walk.h) /\ phase' = "healing" /\ walk' = NoWalk /\ current' = current
  <2>1. /\ op'.pc # "idle" /\ op'.target = walk.h /\ op'.heal = TRUE
        /\ UNCHANGED <<indexed, tip, hash, staged>>
    <3>1. CASE BeginRollback(walk.h, TRUE)
      BY <1>7, <3>1 DEF BeginRollback, store
    <3>2. CASE op' = [Idle EXCEPT !.pc = "heal", !.target = walk.h, !.heal = TRUE]
               /\ UNCHANGED <<store, staged, intact, doubt>>
      BY <3>2 DEF store, Idle
    <3> QED
      BY <1>7, <3>1, <3>2 DEF Heal, history
  <2>2. NodeInv' /\ RecordsInv' /\ (FreshDb' <=> FreshDb)
    BY <1>4, <2>1, RecordsStay
  <2>3. AbandonedAbove(op.target)'
    BY <1>2, <1>4, <2>1 DEF AbandonedAbove
  <2>4. RollbackInv'
    BY <1>2, <1>7, <2>1, <2>2, <2>3 DEF EInv, RollbackInv
  <2>5. EngineTypes'
    BY <1>4, <1>7, ChainAssumption DEF EInv, EngineTypes, Phases, NoWalk, Heights
  <2>6. WalkInv' /\ CursorInv' /\ BeginInv' /\ ApplyInv' /\ TopInv'
    BY <1>2, <1>3, <1>4, <1>7, <2>1, <2>2 DEF WalkInv, CursorInv, BeginInv, ApplyInv, TopInv
  <2> QED
    BY <2>2, <2>4, <2>5, <2>6 DEF EInv
<1> QED
  BY <1>1, <1>6, <1>7 DEF HealTo

LEMMA StartKeeps ==
  ASSUME Limits, WalksEndOnRecords, IInv, EInv, Start
  PROVE  EInv'
<1>1. phase = "down" /\ UNCHANGED <<best, left, sent, fetched, attempt>>
  BY DEF Start, node
<1>2. op.pc = "idle" /\ staged = NotStaged /\ attempt = 0
  BY <1>1, PhaseFacts
<1>3. CASE Ready /\ indexed = 0
  <2>1. FreshDb \/ hash[indexed] # NoBlock
    BY <1>3 DEF FreshDb
  <2> QED
    BY <1>1, <1>2, <1>3, <2>1, ReadyKeeps
<1>4. CASE /\ ~(indexed = 0 /\ tip = 0 /\ MaxHashHeight = 0) /\ phase' = "heal"
           /\ walk' = [NoWalk EXCEPT !.h = Candidate, !.low = SatSub(Candidate, MaxReorgDepth)]
           /\ UNCHANGED <<vars, current>>
  <2>1. ~FreshDb
    <3>1. SUFFICES ASSUME FreshDb PROVE MaxHashHeight = 0 /\ tip = 0 /\ indexed = 0
      BY <1>4
    <3>2. indexed = 0 /\ tip = 0
      BY <3>1 DEF FreshDb, EInv, BeginInv
    <3> QED
      BY <3>2, MaxHashFacts
  <2>2. /\ Candidate \in Heights /\ StartBlock <= Candidate /\ AbandonedAbove(Candidate)
        /\ SatSub(Candidate, MaxReorgDepth) \in 0 .. MaxHeight + 1
    BY <2>1, CandidateFacts, LimitFacts
  <2>3. /\ walk' \in [h : Heights, low : 0 .. MaxHeight + 1, detected : BOOLEAN, rewind : BOOLEAN]
        /\ walk'.h = Candidate
    <3>1. walk' = [h |-> Candidate, low |-> SatSub(Candidate, MaxReorgDepth),
                   detected |-> FALSE, rewind |-> FALSE]
      BY <1>4, <2>2 DEF NoWalk
    <3> QED
      BY <2>2, <3>1
  <2>4. UNCHANGED <<indexed, tip, hash, op, staged, current>>
    BY <1>4 DEF vars
  <2>5. NodeInv' /\ RecordsInv' /\ (FreshDb' <=> FreshDb) /\ Candidate' = Candidate
    BY <1>1, <2>4, RecordsStay DEF Candidate
  <2>6. EngineTypes'
    BY <1>1, <1>4, <2>3, <2>4 DEF EInv, EngineTypes, Phases
  <2>7. Candidate \in Int
    BY <2>2, LimitFacts
  <2>8. WalkInv'
    <3>1. AbandonedAbove(walk.h)'
      BY <1>1, <2>2, <2>3, <2>4 DEF AbandonedAbove
    <3> QED
      BY <1>4, <2>1, <2>2, <2>3, <2>5, <2>7, <3>1 DEF WalkInv
  <2>9. RollbackInv' /\ CursorInv' /\ BeginInv' /\ ApplyInv' /\ TopInv'
    BY <1>1, <1>2, <1>4, <2>1, <2>4, <2>5
    DEF EInv, RollbackInv, CursorInv, BeginInv, ApplyInv, TopInv
  <2> QED
    BY <2>5, <2>6, <2>8, <2>9 DEF EInv
<1> QED
  BY <1>3, <1>4 DEF Start

LEMMA HealStepKeeps ==
  ASSUME Limits, WalksEndOnRecords, IInv, EInv, HealStep
  PROVE  EInv'
<1>1. /\ phase = "heal" /\ phase' = "heal" /\ ~Agree(walk.h) /\ walk.h # 0
      /\ hash[walk.h] # NoBlock => walk.h <= Height[best]
      /\ UNCHANGED <<indexed, tip, hash, op, staged, best, left, current, sent, fetched, attempt>>
      /\ walk' = [walk EXCEPT !.h = walk.h - 1]
  BY DEF HealStep, HealAtEnd, vars, node
<1>2. /\ walk \in [h : Heights, low : 0 .. MaxHeight + 1, detected : BOOLEAN, rewind : BOOLEAN]
      /\ walk.h \in Nat /\ walk.h <= MaxHeight
      /\ ~FreshDb /\ walk.h <= Candidate /\ Candidate \in Nat
  BY <1>1, LimitFacts, CandidateFacts DEF EInv, EngineTypes, WalkInv
<1>3. /\ walk' \in [h : Heights, low : 0 .. MaxHeight + 1, detected : BOOLEAN, rewind : BOOLEAN]
      /\ walk'.h = walk.h - 1
  <2>1. walk.h - 1 \in Heights
    <3>1. walk.h > 0 /\ walk.h \in Nat /\ walk.h <= MaxHeight /\ MaxHeight \in Nat
      BY <1>1, <1>2, ChainAssumption
    <3> QED
      BY <3>1 DEF Heights
  <2> QED
    BY <1>1, <1>2, <2>1
<1>4. AbandonedAbove(walk'.h) /\ StartBlock <= walk'.h
  BY <1>1, <1>2, <1>3, WalkPasses
<1>5. NodeInv' /\ RecordsInv' /\ (FreshDb' <=> FreshDb) /\ Candidate' = Candidate
  BY <1>1, RecordsStay DEF Candidate
<1>6. EngineTypes'
  BY <1>1, <1>3 DEF EInv, EngineTypes
<1>7. WalkInv'
  <2>1. AbandonedAbove(walk.h)'
    BY <1>1, <1>4 DEF AbandonedAbove
  <2> QED
    BY <1>1, <1>2, <1>3, <1>4, <1>5, <2>1 DEF WalkInv
<1>8. RollbackInv' /\ CursorInv' /\ BeginInv' /\ ApplyInv' /\ TopInv'
  BY <1>1, <1>2, <1>5 DEF EInv, RollbackInv, CursorInv, BeginInv, ApplyInv, TopInv
<1> QED
  BY <1>5, <1>6, <1>7, <1>8 DEF EInv

LEMMA HealDoneKeeps ==
  ASSUME Limits, IInv, EInv, HealDone
  PROVE  EInv'
<1>1. /\ phase = "healing" /\ op.pc = "idle" /\ Ready
      /\ UNCHANGED <<best, left, sent, fetched, attempt>>
  BY DEF HealDone, Idle, node
<1>2. FreshDb \/ hash[indexed] # NoBlock
  BY <1>1 DEF EInv, RollbackInv
<1> QED
  BY <1>1, <1>2, ReadyKeeps

-----------------------------------------------------------------------------
(***************************************************************************)
(* The engine and its store.                                               *)
(***************************************************************************)

(* Whatever the engine does to the store is a step of the store. *)
LEMMA EngineStepsStore ==
  ASSUME Limits, WalksEndOnRecords, IInv, EInv, [EngineNext]_engineVars
  PROVE  [Next]_vars
<1>1. CASE UNCHANGED vars
  BY <1>1
<1>2. CASE ReorgEnd
  <2>1. CASE walk.detected
    <3>1. walk.h \in RollbackFloor .. indexed /\ Rollback(walk.h)
      BY <1>2, <2>1, ReorgTarget DEF ReorgEnd, Limits
    <3> QED
      BY <3>1 DEF Next
  <2>2. CASE ~walk.detected
    BY <1>2, <2>2 DEF ReorgEnd
  <2> QED
    BY <2>1, <2>2
<1>3. CASE RollbackStep
  BY <1>3 DEF RollbackStep, Next
<1>4. CASE RollbackFails \/ AttemptFails \/ Die
  BY <1>4 DEF RollbackFails, AttemptFails, Die, Next
<1>5. CASE ProcessBlock
  <2>1. /\ phase = "apply" /\ fetched \in Blocks /\ RunBlock(fetched)
        /\ Height[fetched] > indexed \/ (Height[fetched] = 0 /\ indexed = 0)
        /\ FreshDb => Height[fetched] = StartBlock
    BY <1>5 DEF ProcessBlock, EInv, ApplyInv, BeginInv
  <2>2. Height[fetched] = 0 /\ indexed = 0 /\ ~FreshDb => StartBlock = 0
    BY StartRecorded, LimitFacts
  <2>3. Execute(fetched)
    BY <2>1, <2>2 DEF Execute
  <2> QED
    BY <2>1, <2>3 DEF Next
<1>6. CASE CommitBlock \/ RejectBlock
  BY <1>6 DEF CommitBlock, RejectBlock, Next
<1>7. CASE Ready
  BY <1>7 DEF Ready, Next
<1>8. CASE HealEnd \/ HealUnvalidated
  <2>1. phase = "heal" /\ HealTo(walk.h) /\ walk.h \in RollbackFloor .. indexed
    BY <1>8, HealTarget DEF HealEnd, HealUnvalidated, Limits
  <2>2. CASE Heal(walk.h)
    BY <2>1, <2>2 DEF Next
  <2> QED
    BY <1>7, <2>1, <2>2 DEF HealTo
<1> QED
  BY <1>1, <1>2, <1>3, <1>4, <1>5, <1>6, <1>7, <1>8
  DEF EngineNext, EngineStep, engineVars, vars, NodeGrows, NodeReorganises, NextBlock, ReorgStep,
      ReorgDone, ReorgGivesUp, Fetch, FetchFails, Discontinuity, GiveUp, Start, HealStep, HealDone

LEMMA NextKeepsEInv ==
  ASSUME Limits, WalksEndOnRecords, IInv, EInv, [EngineNext]_engineVars
  PROVE  EInv'
<1>1. ASSUME NEW t \in Blocks, NodeGrows(t) \/ NodeReorganises(t) PROVE EInv'
  BY <1>1, NodeKeeps
<1>2. CASE NextBlock \/ Discontinuity \/ ReorgStep \/ ReorgGivesUp \/ ReorgEnd
  BY <1>2, NextBlockKeeps, DiscontinuityKeeps, ReorgStepKeeps, ReorgGivesUpKeeps, ReorgEndKeeps
<1>3. CASE RollbackStep \/ ReorgDone \/ RollbackFails
  BY <1>3, RollbackStepKeeps, ReorgDoneKeeps, RollbackFailsKeeps
<1>4. CASE Fetch \/ FetchFails \/ ProcessBlock \/ AttemptFails
  BY <1>4, FetchKeeps, ProcessBlockKeeps, AttemptFailsKeeps
<1>5. CASE GiveUp \/ RejectBlock \/ CommitBlock \/ Die
  BY <1>5, DroppedKeeps, CommitBlockKeeps, DieKeeps
<1>6. CASE Start \/ HealStep \/ HealEnd \/ HealUnvalidated \/ HealDone
  BY <1>6, StartKeeps, HealStepKeeps, HealToKeeps, HealDoneKeeps
<1>7. CASE UNCHANGED engineVars
  <2>1. UNCHANGED <<indexed, tip, hash, op, staged, best, left, phase, current, sent, walk,
                    fetched, attempt>>
    BY <1>7 DEF engineVars
  <2>2. NodeInv' /\ RecordsInv' /\ (FreshDb' <=> FreshDb) /\ Candidate' = Candidate
    BY <2>1, RecordsStay DEF Candidate
  <2>3. EngineTypes' /\ CursorInv' /\ BeginInv' /\ TopInv'
    BY <2>1, <2>2 DEF EInv, EngineTypes, CursorInv, BeginInv, TopInv
  <2>4. RollbackInv' /\ WalkInv'
    BY <2>1, <2>2 DEF EInv, RollbackInv, WalkInv, AbandonedAbove
  <2>5. ApplyInv'
    BY <2>1 DEF EInv, ApplyInv, Known, Connects
  <2> QED
    BY <2>2, <2>3, <2>4, <2>5 DEF EInv
<1> QED
  BY <1>1, <1>2, <1>3, <1>4, <1>5, <1>6, <1>7 DEF EngineNext, EngineStep

LEMMA NextKeepsBoth ==
  ASSUME Limits, WalksEndOnRecords, IInv, EInv, [EngineNext]_engineVars
  PROVE  (IInv /\ EInv)'
<1>1. StartBlock <= RollbackFloor
  BY LimitFacts
<1>2. [Next]_vars
  BY EngineStepsStore
<1> QED
  BY <1>1, <1>2, NextKeepsIInv, NextKeepsEInv

(* The inductive invariant of the store and that of the engine hold in     *)
(* every reachable state. *)
THEOREM EngineInvariant ==
  ASSUME Limits
  PROVE  EngineSpec /\ []WalksEndOnRecords => [](IInv /\ EInv)
<1>1. EngineInit => IInv /\ EInv
  BY InitIInv, InitEInv DEF EngineInit
<1>2. WalksEndOnRecords /\ IInv /\ EInv /\ [EngineNext]_engineVars => (IInv /\ EInv)'
  BY NextKeepsBoth
<1> QED
  BY <1>1, <1>2, PTL DEF EngineSpec

(* With one block in flight no block is in memory while a rollback runs:   *)
(* the one case in which a stale batch is accepted does not arise.         *)
NoDoubt == doubt = "none"

LEMMA NextKeepsNoDoubt ==
  ASSUME EInv, NoDoubt, [EngineNext]_engineVars
  PROVE  NoDoubt'
<1> USE DEF NoDoubt
<1>1. CASE UNCHANGED engineVars
  BY <1>1 DEF engineVars
<1>2. CASE \E t \in Blocks : NodeGrows(t) \/ NodeReorganises(t)
  BY <1>2 DEF NodeGrows, NodeReorganises, vars
<1>3. CASE RollbackFails
  <2>1. staged = NotStaged
    BY <1>3 DEF RollbackFails, EInv, ApplyInv
  <2> QED
    BY <1>3, <2>1 DEF RollbackFails, RollbackWriteFails, vars
<1>4. CASE AttemptFails \/ Die \/ RejectBlock
  BY <1>4 DEF AttemptFails, Die, Crash, Forget, RejectBlock, CommitRejected
<1>5. CASE CommitBlock
  BY <1>5 DEF CommitBlock, CommitAtomic
<1>6. CASE RollbackStep
  BY <1>6 DEF RollbackStep, ManifestBatch, ScanMetadata, ScanKey, SetIndexedHeight, HealPointers,
              history
<1>7. CASE FetchFails \/ NextBlock \/ ReorgStep \/ ReorgDone \/ ReorgGivesUp \/ Fetch
           \/ Discontinuity \/ GiveUp \/ HealStep
  BY <1>7 DEF FetchFails, NextBlock, ReorgStep, ReorgDone, ReorgGivesUp, Fetch, Discontinuity,
              GiveUp, HealStep, vars
<1>8. CASE ReorgEnd \/ ProcessBlock
  BY <1>8 DEF ReorgEnd, ProcessBlock, Rollback, BeginRollback, RunBlock, history, vars
<1>9. CASE Start \/ HealEnd \/ HealUnvalidated \/ HealDone
  BY <1>9 DEF Start, HealEnd, HealUnvalidated, HealDone, HealTo, Ready, InitStateRoot, Heal,
              BeginRollback, history, vars
<1> QED
  BY <1>1, <1>2, <1>3, <1>4, <1>5, <1>6, <1>7, <1>8, <1>9 DEF EngineNext, EngineStep

(* No block is ever in memory when a rollback of the engine fails, so the  *)
(* lists are sure in every reachable state.                                *)
THEOREM EngineNeverInDoubt ==
  ASSUME Limits
  PROVE  EngineSpec /\ []WalksEndOnRecords => []NoDoubt
<1>1. EngineInit => NoDoubt
  BY DEF EngineInit, Init, NoDoubt
<1>2. EInv /\ NoDoubt /\ [EngineNext]_engineVars => NoDoubt'
  BY NextKeepsNoDoubt
<1> QED
  BY <1>1, <1>2, EngineInvariant, PTL DEF EngineSpec

(* The engine implements the specification of its store: neither walk asks *)
(* for a rollback above the tip or below the start block, and no block at  *)
(* or below the tip is executed, so every theorem about IndexStore holds   *)
(* of the running engine. *)
THEOREM EngineImplementsStore ==
  ASSUME Limits
  PROVE  EngineSpec /\ []WalksEndOnRecords => StoreSpec
<1>1. EngineInit => Init
  BY DEF EngineInit
<1>2. WalksEndOnRecords /\ IInv /\ EInv /\ [EngineNext]_engineVars => [Next]_vars
  BY EngineStepsStore
<1> QED
  BY <1>1, <1>2, EngineInvariant, PTL DEF EngineSpec, StoreSpec

(* What the store promises to a caller that keeps to its specification is  *)
(* therefore true of the running engine: what is recorded up to the last   *)
(* intact height is a chain that grows by one block and is cut in one      *)
(* step, and every slot of every list belongs to the block that is         *)
(* recorded. *)
THEOREM EngineKeepsStorePromises ==
  ASSUME Limits
  PROVE  EngineSpec /\ []WalksEndOnRecords => LogSpec /\ []SlotsOwned
<1>1. StartBlock <= RollbackFloor
  BY LimitFacts
<1>2. Spec => LogSpec /\ []NoOrphanedUpdate
  BY <1>1, StoreImplementsChainLog, StoreExact, PTL
<1>3. StoreSpec => Spec
  BY PTL DEF StoreSpec, Spec
<1>4. NoOrphanedUpdate /\ NoDoubt => SlotsOwned
  BY DEF NoOrphanedUpdate, NoDoubt, Undamaged
<1> QED
  BY <1>2, <1>3, <1>4, EngineImplementsStore, EngineNeverInDoubt, PTL

(* No block is indexed on top of a block that is not its parent, whatever  *)
(* the node does between reorg check, fetch, validation and commit. *)
THEOREM EngineOneChain ==
  ASSUME Limits
  PROVE  EngineSpec /\ []WalksEndOnRecords => []OneChain
<1>1. EInv => OneChain
  BY DEF EInv, RecordsInv
<1> QED
  BY <1>1, EngineInvariant, PTL

(* When init returns the pointers agree on a recorded height. *)
THEOREM EngineHealReconciles ==
  ASSUME Limits
  PROVE  EngineSpec /\ []WalksEndOnRecords => HealReconciles
<1> DEFINE Reconciled == phase' = "next" /\ phase \in {"down", "heal", "healing"} =>
                           indexed = tip /\ MaxHashHeight = indexed
<1>1. WalksEndOnRecords /\ IInv /\ EInv /\ [EngineNext]_engineVars => [Reconciled]_engineVars
  <2> SUFFICES ASSUME WalksEndOnRecords, IInv, EInv, EngineNext, phase' = "next", phase \in {"down", "heal", "healing"}
               PROVE  indexed = tip /\ MaxHashHeight = indexed
    OBVIOUS
  <2>1. /\ indexed \in Nat /\ tip \in Nat /\ indexed <= tip
        /\ MaxHashHeight \in Nat /\ MaxHashHeight <= indexed
        /\ hash[indexed] # NoBlock => indexed <= MaxHashHeight
    <3>1. indexed \in Nat /\ tip \in Nat /\ indexed <= tip
      BY HeightFacts DEF IInv, PointerInv, EInv, RollbackInv
    <3> QED
      BY <3>1, MaxHashFacts
  <2>2. CASE Start
    BY <2>2 DEF Start
  <2>3. CASE HealEnd \/ HealUnvalidated
    <3>1. phase = "heal" /\ HealTo(walk.h) /\ walk.h \in StartBlock .. indexed
          /\ walk.h <= tip /\ walk.h <= MaxHashHeight
      BY <2>3, HealTarget DEF HealEnd, HealUnvalidated
    <3>2. ~ (walk.h < indexed \/ walk.h < tip \/ walk.h < MaxHashHeight)
      BY <3>1 DEF HealTo
    <3>3. walk.h \in Nat
      BY LimitFacts DEF EInv, EngineTypes
    <3> QED
      BY <2>1, <3>1, <3>2, <3>3
  <2>4. CASE HealDone
    <3>1. phase = "healing" /\ op.pc = "idle"
      BY <2>4 DEF HealDone, Idle
    <3>2. indexed = tip /\ hash[indexed] # NoBlock
      BY <3>1 DEF EInv, RollbackInv
    <3> QED
      BY <2>1, <3>2
  <2> QED
    BY <2>2, <2>3, <2>4
    DEF EngineNext, EngineStep, engine, NodeGrows, NodeReorganises, NextBlock, ReorgStep, ReorgEnd,
        ReorgDone, ReorgGivesUp, RollbackStep, RollbackFails, Fetch, FetchFails, Discontinuity,
        ProcessBlock, AttemptFails, GiveUp, CommitBlock, RejectBlock, Die, HealStep
<1>2. EngineSpec /\ []WalksEndOnRecords => [](IInv /\ EInv)
  BY EngineInvariant
<1> QED
  BY <1>1, <1>2, PTL DEF EngineSpec, HealReconciles

(* On an index that is not empty a block is only committed on top of its   *)
(* recorded parent, unless the write of a rollback failed without a crash. *)
THEOREM EngineCommitsOntoParent ==
  ASSUME Limits, WriteFaults = FALSE
  PROVE  EngineSpec /\ []WalksEndOnRecords => CommitsOntoParent
<1> DEFINE OntoParent == indexed' > indexed /\ ~FreshDb => Parent[hash'[indexed']] = hash[indexed]
<1>1. WalksEndOnRecords /\ IInv /\ EInv /\ [EngineNext]_engineVars => [OntoParent]_engineVars
  <2> SUFFICES ASSUME WalksEndOnRecords, IInv, EInv, EngineNext, indexed' > indexed, ~FreshDb
               PROVE  Parent[hash'[indexed']] = hash[indexed]
    OBVIOUS
  <2>1. indexed \in Nat /\ op.target \in Nat
    BY HeightFacts DEF IInv, PointerInv
  <2>2. indexed' # indexed
    BY <2>1
  <2>3. CASE CommitBlock
    <3>1. /\ phase = "apply" /\ staged # NotStaged /\ staged.block = fetched
          /\ Height[fetched] = indexed + 1 /\ Connects(fetched) /\ hash[indexed] # NoBlock
          /\ indexed' = Height[fetched] /\ hash' = [hash EXCEPT ![Height[fetched]] = fetched]
          /\ fetched \in Blocks
      BY <2>3 DEF CommitBlock, CommitAtomic, Accepts, ApplyBatch, EInv, ApplyInv, TopInv
    <3>2. hash'[indexed'] = fetched
      BY <3>1, LimitFacts DEF IInv, PointerInv, TypeOK
    <3>3. Height[fetched] > 0 /\ Height[fetched] - 1 = indexed
      BY <2>1, <3>1
    <3> QED
      BY <3>1, <3>2, <3>3 DEF Connects
  <2>4. CASE RollbackStep
    BY <2>1, <2>2, <2>4
    DEF RollbackStep, ManifestBatch, ScanMetadata, ScanKey, SetIndexedHeight, HealPointers,
        IInv, PointerInv, OpInRange
  <2> QED
    BY <2>2, <2>3, <2>4
    DEF EngineNext, EngineStep, vars, store, NodeGrows, NodeReorganises, NextBlock, ReorgStep,
        ReorgEnd, ReorgDone, ReorgGivesUp, RollbackFails, Fetch, FetchFails, Discontinuity,
        ProcessBlock, AttemptFails, GiveUp, RejectBlock, Die, Start, HealStep, HealEnd,
        HealUnvalidated, HealDone, HealTo, Heal, Ready, InitStateRoot, Rollback, BeginRollback,
        RunBlock, CommitRejected, RollbackWriteFails, Forget, Crash
<1>2. EngineSpec /\ []WalksEndOnRecords => [](IInv /\ EInv)
  BY EngineInvariant
<1> QED
  BY <1>1, <1>2, PTL DEF EngineSpec, CommitsOntoParent

-----------------------------------------------------------------------------
(***************************************************************************)
(* Nothing of the node's chain is lost.                                    *)
(***************************************************************************)

(* A recorded block at or below the tip that the node has not left has all *)
(* its updates in the lists, also while a rollback is half done or cut     *)
(* off: what a rollback may have destroyed is abandoned.                   *)
NothingLost ==
  \A h \in 0 .. indexed : hash[h] # NoBlock /\ hash[h] \notin left => Complete(h)

(* A step that leaves lists, records and tip alone, when the node may have *)
(* left more blocks. *)
LEMMA LossStays ==
  ASSUME NothingLost, UNCHANGED <<indexed, hash, hist>>, left \subseteq left'
  PROVE  NothingLost'
BY DEF NothingLost, Complete

(* A commit appends all updates of its block and keeps the rest. *)
LEMMA CommitLosesNothing ==
  ASSUME Limits, IInv, EInv, NoDoubt, NothingLost, CommitBlock
  PROVE  NothingLost'
<1> DEFINE b == staged.block
           top == Height[b]
<1>1. /\ CommitAtomic /\ left' = left /\ staged.block = fetched /\ b \in Blocks
      /\ indexed' = top /\ hash' = [hash EXCEPT ![top] = b]
  BY DEF CommitBlock, CommitAtomic, ApplyBatch, node, EInv, ApplyInv
<1>2. /\ top \in Heights /\ top \in Nat /\ top <= MaxHeight /\ MaxHeight \in Nat /\ indexed \in Nat
      /\ hash \in [Heights -> Blocks \cup {NoBlock}]
      /\ \A k \in Keys : Updates[b][k] \in Nat /\ Len(hist[k]) \in Nat
  <2>1. \A k \in Keys : Len(hist[k]) \in Nat
    BY ListsAreOrdered, OrderedFacts DEF NoDoubt, Undamaged
  <2> QED
    BY <1>1, <2>1, HeightFacts, ChainAssumption DEF IInv, PointerInv, TypeOK, Heights
<1>3. \A k \in Keys :
        /\ Len(hist'[k]) = Len(hist[k]) + Updates[b][k]
        /\ \A i \in 1 .. Len(hist[k]) : hist'[k][i] = hist[k][i]
        /\ \A i \in Len(hist[k]) + 1 .. Len(hist'[k]) :
             hist'[k][i] = [h |-> top, b |-> b, n |-> i - Len(hist[k])]
  BY <1>1, CommitLists DEF NoDoubt
<1> HIDE DEF b, top
<1>4. hash'[top] = b /\ \A h \in Heights : h # top => hash'[h] = hash[h]
  BY <1>1, <1>2
<1>5. SUFFICES ASSUME NEW h \in 0 .. top, hash'[h] # NoBlock, hash'[h] \notin left,
                      NEW k \in Keys, NEW n \in 1 .. Updates[hash'[h]][k]
               PROVE  \E i \in 1 .. Len(hist'[k]) : hist'[k][i] = [h |-> h, b |-> hash'[h], n |-> n]
  BY <1>1 DEF NothingLost, Complete
<1>6. CASE h = top
  <2>1. n \in 1 .. Updates[b][k]
    BY <1>4, <1>5, <1>6
  <2> DEFINE i == Len(hist[k]) + n
  <2>2. i \in Len(hist[k]) + 1 .. Len(hist'[k]) /\ i \in 1 .. Len(hist'[k])
        /\ i - Len(hist[k]) = n
    BY <1>2, <1>3, <2>1
  <2> QED
    BY <1>3, <1>4, <1>6, <2>2
<1>7. CASE h # top
  <2>1. h \in Heights /\ h \in Nat /\ hash'[h] = hash[h]
    BY <1>2, <1>4, <1>5, <1>7 DEF Heights
  <2>2. h \in 0 .. indexed
    <3>1. ~ (h > indexed)
      BY <1>5, <2>1 DEF EInv, RecordsInv, AbandonedAbove
    <3> QED
      BY <1>2, <2>1, <3>1
  <2>3. PICK i \in 1 .. Len(hist[k]) : hist[k][i] = [h |-> h, b |-> hash[h], n |-> n]
    BY <1>5, <2>1, <2>2 DEF NothingLost, Complete
  <2>4. i \in 1 .. Len(hist'[k]) /\ hist'[k][i] = hist[k][i]
    BY <1>2, <1>3
  <2> QED
    BY <2>1, <2>3, <2>4
<1> QED
  BY <1>6, <1>7

(* A write of a rollback destroys only abandoned blocks. *)
LEMMA RecedingLosesNothing ==
  ASSUME Limits, IInv, EInv, NothingLost, op.pc # "idle", left' = left,
         \A h \in Heights : hash'[h] \in {hash[h], NoBlock},
         indexed' \in {indexed, op.target},
         \A k \in Keys : \A i \in 1 .. Len(hist[k]) :
            hist[k][i].h <= op.target => i \in 1 .. Len(hist'[k]) /\ hist'[k][i] = hist[k][i]
  PROVE  NothingLost'
<1>1. /\ op.target \in Nat /\ op.target <= indexed /\ indexed \in Nat /\ indexed <= MaxHeight
      /\ MaxHeight \in Nat /\ AbandonedAbove(op.target)
  BY HeightFacts, LimitFacts DEF IInv, PointerInv, TypeOK, OpInRange, EInv, RollbackInv
<1>2. SUFFICES ASSUME NEW h \in 0 .. indexed', hash'[h] # NoBlock, hash'[h] \notin left,
                      NEW k \in Keys, NEW n \in 1 .. Updates[hash'[h]][k]
               PROVE  \E i \in 1 .. Len(hist'[k]) : hist'[k][i] = [h |-> h, b |-> hash'[h], n |-> n]
  BY DEF NothingLost, Complete
<1>3. h \in Heights /\ h \in Nat /\ h \in 0 .. indexed /\ hash'[h] = hash[h]
  BY <1>1, <1>2 DEF Heights
<1>4. h <= op.target
  BY <1>1, <1>2, <1>3 DEF AbandonedAbove
<1>5. PICK i \in 1 .. Len(hist[k]) : hist[k][i] = [h |-> h, b |-> hash[h], n |-> n]
  BY <1>2, <1>3 DEF NothingLost, Complete
<1>6. hist[k][i].h <= op.target
  BY <1>4, <1>5
<1>7. i \in 1 .. Len(hist'[k]) /\ hist'[k][i] = hist[k][i]
  BY <1>6
<1> QED
  BY <1>3, <1>5, <1>7

LEMMA RollbackStepLosesNothing ==
  ASSUME Limits, IInv, EInv, NoDoubt, NothingLost, RollbackStep
  PROVE  NothingLost'
<1>1. /\ op.target \in Heights /\ hash \in [Heights -> Blocks \cup {NoBlock}]
      /\ left' = left /\ hist \in [Keys -> Seq(Entry)]
      /\ Undamaged
  BY DEF IInv, PointerInv, TypeOK, RollbackStep, node, NoDoubt, Undamaged
<1>2. CASE ManifestBatch \/ \E k \in Keys : ScanKey(k)
  <2>1. /\ op.pc # "idle" /\ indexed' = indexed
        /\ \A h \in Heights : hash'[h] \in {hash[h], NoBlock}
        /\ hist' = [k \in Keys |-> hist'[k]]
        /\ \A k \in Keys : hist'[k] = hist[k] \/ hist'[k] = Trim(hist[k], op.target)
                            \/ hist'[k] = Survivors(hist[k], op.target)
    <3>1. CASE ManifestBatch
      BY <1>1, <3>1 DEF ManifestBatch
    <3>2. ASSUME NEW k \in Keys, ScanKey(k)
          PROVE  /\ op.pc # "idle" /\ indexed' = indexed /\ hash' = hash
                 /\ hist' = [hist EXCEPT ![k] = Survivors(hist[k], op.target)]
      BY <3>2 DEF ScanKey
    <3> QED
      BY <1>1, <1>2, <3>1, <3>2
  <2>2. \A k \in Keys : hist'[k] = hist[k] \/ Cut(hist[k], op.target, hist'[k])
    BY <1>1, <2>1, ListsAreOrdered, RollbackCuts
  <2>3. \A k \in Keys : \A i \in 1 .. Len(hist[k]) :
           hist[k][i].h <= op.target => i \in 1 .. Len(hist'[k]) /\ hist'[k][i] = hist[k][i]
    BY <1>1, <2>1, <2>2, CutLists
  <2> QED
    BY <1>1, <2>1, <2>3, RecedingLosesNothing
<1>3. CASE SetIndexedHeight \/ HealPointers
  <2>1. op.pc # "idle" /\ indexed' = op.target /\ UNCHANGED <<hash, hist>>
    BY <1>3 DEF SetIndexedHeight, HealPointers
  <2> QED
    BY <1>1, <2>1, RecedingLosesNothing
<1>4. CASE ScanMetadata
  <2>1. UNCHANGED <<indexed, hash, hist>>
    BY <1>4 DEF ScanMetadata
  <2> QED
    BY <1>1, <2>1, LossStays
<1> QED
  BY <1>2, <1>3, <1>4 DEF RollbackStep

LEMMA NextLosesNothing ==
  ASSUME Limits, IInv, EInv, NoDoubt, NothingLost, [EngineNext]_engineVars
  PROVE  NothingLost'
<1>1. ASSUME NEW t \in Blocks, NodeGrows(t) \/ NodeReorganises(t) PROVE NothingLost'
  <2>1. left \subseteq left'
    BY <1>1, NodeMoves DEF EInv
  <2>2. UNCHANGED <<indexed, hash, hist>>
    BY <1>1 DEF NodeGrows, NodeReorganises, vars
  <2> QED
    BY <2>1, <2>2, LossStays
<1>2. CASE CommitBlock
  BY <1>2, CommitLosesNothing
<1>3. CASE RollbackStep
  BY <1>3, RollbackStepLosesNothing
<1>4. CASE UNCHANGED <<indexed, hash, hist, left>>
  BY <1>4, LossStays
<1> QED
  BY <1>1, <1>2, <1>3, <1>4
  DEF EngineNext, EngineStep, engineVars, vars, store, node, NextBlock, ReorgStep,
      ReorgEnd, ReorgReturns, ReorgDone, ReorgGivesUp, RollbackFails, Fetch, FetchFails,
      Discontinuity, ProcessBlock, AttemptFails, GiveUp, RejectBlock, Die, Start, HealStep,
      HealEnd, HealUnvalidated, HealDone, HealTo, Heal, Ready, InitStateRoot, Rollback,
      BeginRollback, RunBlock, CommitRejected, RollbackWriteFails, Forget, Crash

(* A recorded block of the node's best chain has all its updates in the    *)
(* lists, whatever was rolled back, cut off or reorganised before: the     *)
(* engine re-applies blocks, it does not skip any. *)
THEOREM EngineLosesNothing ==
  ASSUME Limits
  PROVE  EngineSpec /\ []WalksEndOnRecords => []BestChainComplete
<1>1. EngineInit => NothingLost
  <2> SUFFICES ASSUME EngineInit PROVE \A h \in 0 .. indexed : hash[h] = NoBlock
    BY DEF NothingLost
  <2> QED
    BY ChainAssumption DEF EngineInit, Init, Heights
<1>2. NothingLost /\ (IInv /\ EInv) /\ NoDoubt /\ [EngineNext]_engineVars => NothingLost'
  BY NextLosesNothing
<1>3. NothingLost /\ (IInv /\ EInv) => BestChainComplete
  <2> SUFFICES ASSUME NothingLost, IInv, EInv, NEW h \in 0 .. indexed, hash[h] \in OnChain(best)
               PROVE  Complete(h)
    BY DEF BestChainComplete
  <2>1. hash[h] \notin left /\ hash[h] # NoBlock
    BY OnChainFacts, ChainAssumption DEF EInv, NodeInv
  <2> QED
    BY <2>1 DEF NothingLost
<1>4. EngineSpec /\ []WalksEndOnRecords => [](IInv /\ EInv) /\ []NoDoubt
  BY EngineInvariant, EngineNeverInDoubt, PTL
<1> QED
  BY <1>1, <1>2, <1>3, <1>4, PTL DEF EngineSpec

-----------------------------------------------------------------------------
(***************************************************************************)
(* Why walks end on records: every fork is within --max-reorg-depth of the *)
(* highest block.  Then no rollback goes below the forks, however many are *)
(* cut off.                                                                *)
(***************************************************************************)

(* All branches share their blocks up to height f. *)
ForksAbove(f) ==
  /\ StartBlock <= f /\ MaxHeight - f < MaxReorgDepth
  /\ \A b, c \in Blocks :
        Height[b] = Height[c] /\ Height[b] \in StartBlock .. f => b = c

(* Up to height f the index only grows. *)
FloorInv(f) ==
  /\ ~FreshDb => Min(f, indexed) <= intact
  /\ indexed < f => /\ \A h \in Heights : h > indexed => hash[h] = NoBlock
                    /\ ~FreshDb => current <= indexed + 1
  /\ op.pc # "idle" => Min(f, indexed) <= op.target
  /\ phase \in {"reorg", "heal"} /\ ~FreshDb => Min(f, indexed) <= walk.h
  /\ phase = "reorg" /\ ~FreshDb => walk.low <= Min(f, indexed)
  /\ phase = "heal" => walk.low = 0 \/ walk.low < Min(f, indexed)

(* The heights up to f that are indexed are recorded, whatever was cut off. *)
LEMMA FloorRecorded ==
  ASSUME Limits, NEW f \in Heights, ForksAbove(f), IInv, EInv, FloorInv(f), ~FreshDb
  PROVE  /\ Min(f, indexed) \in StartBlock .. indexed /\ Min(f, indexed) \in Heights
         /\ hash[Min(f, indexed)] # NoBlock
<1>1. /\ indexed \in Nat /\ intact \in Nat /\ StartBlock \in Nat /\ f \in Nat
      /\ indexed \in Heights /\ StartBlock <= indexed /\ StartBlock <= f
      /\ Min(f, indexed) <= intact
  BY HeightFacts, StartRecorded, LimitFacts DEF IInv, PointerInv, TypeOK, ForksAbove, FloorInv
<1>2. /\ Min(f, indexed) \in StartBlock .. indexed /\ Min(f, indexed) \in Heights
      /\ Min(f, indexed) \in StartBlock .. intact
  BY <1>1 DEF Min
<1> QED
  BY <1>2 DEF IInv, PointerInv, RecordsStand

LEMMA FloorEndsOnRecords ==
  ASSUME Limits, NEW f \in Heights, ForksAbove(f), IInv, EInv, FloorInv(f)
  PROVE  WalksEndOnRecords
<1>1. /\ walk.h \in Nat /\ walk.low \in Nat /\ indexed \in Nat /\ indexed <= MaxHeight
      /\ f \in Nat /\ MaxHeight \in Nat
      /\ MaxHeight - f < MaxReorgDepth /\ MaxReorgDepth \in Nat /\ HashScanWindow \in Nat
      /\ MaxReorgDepth <= HashScanWindow
  BY LimitFacts, HeightFacts, EngineAssumption
  DEF EInv, EngineTypes, IInv, PointerInv, TypeOK, ForksAbove
<1>2. Min(f, indexed) \in Nat
  BY <1>1 DEF Min
<1>3. phase = "reorg" /\ walk.detected => walk.h = 0 \/ walk.h >= walk.low
  BY <1>1, <1>2 DEF FloorInv, EInv, WalkInv
<1>4. phase = "heal" => walk.h = 0 \/ walk.h > walk.low
  BY <1>1, <1>2 DEF FloorInv, EInv, WalkInv
<1>5. ASSUME NEW h \in 0 .. indexed, hash[h] # NoBlock
      PROVE  \E x \in SatSub(indexed, HashScanWindow) .. indexed : hash[x] # NoBlock
  <2>1. ~FreshDb
    BY <1>1, <1>5 DEF EInv, BeginInv, Heights
  <2>2. Min(f, indexed) \in 0 .. indexed /\ hash[Min(f, indexed)] # NoBlock
    BY <1>1, <1>2, <2>1, FloorRecorded, LimitFacts
  <2>3. SatSub(indexed, HashScanWindow) <= Min(f, indexed)
        /\ SatSub(indexed, HashScanWindow) \in Nat
    BY <1>1 DEF SatSub, Min
  <2>4. Min(f, indexed) \in SatSub(indexed, HashScanWindow) .. indexed
    BY <1>1, <1>2, <2>2, <2>3
  <2> QED
    BY <2>2, <2>4
<1> QED
  BY <1>1, <1>3, <1>4, <1>5 DEF WalksEndOnRecords

(* No walk passes the height of the floor. *)
LEMMA FloorNotPassed ==
  ASSUME Limits, NEW f \in Heights, ForksAbove(f), IInv, EInv, FloorInv(f), ~FreshDb,
         phase \in {"reorg", "heal"}, ~Agree(walk.h),
         hash[walk.h] # NoBlock => walk.h <= Height[best]
  PROVE  Min(f, indexed) <= walk.h - 1
<1> DEFINE m == Min(f, indexed)
<1>1. /\ m \in StartBlock .. indexed /\ m \in Heights /\ hash[m] # NoBlock
      /\ m <= walk.h /\ walk.h \in Nat /\ StartBlock \in Nat /\ indexed \in Nat
      /\ f \in Nat
  BY FloorRecorded, LimitFacts, HeightFacts DEF FloorInv, EInv, EngineTypes, IInv, PointerInv
<1>2. m <= f
  BY <1>1 DEF Min
<1> HIDE DEF m
<1>3. SUFFICES ASSUME walk.h = m PROVE FALSE
  BY <1>1 DEF m
<1>4. /\ hash[m] \in Blocks /\ Height[hash[m]] = m /\ best \in Blocks /\ m <= Height[best]
      /\ ~Agree(m)
  BY <1>1, <1>3 DEF EInv, RecordsInv, NodeInv, IInv, PointerInv, TypeOK
<1>5. m \in 0 .. Height[best] /\ m \in StartBlock .. f
  BY <1>1, <1>2, <1>4, LimitFacts
<1>6. Ancestry(best)[m] \in Blocks /\ Height[Ancestry(best)[m]] = m
  BY <1>4, <1>5, AncestryFacts
<1> QED
  BY <1>1, <1>4, <1>5, <1>6 DEF ForksAbove, Agree

LEMMA FloorInit ==
  ASSUME Limits, NEW f \in Heights, ForksAbove(f), EngineInit
  PROVE  FloorInv(f)
<1>1. /\ indexed = 0 /\ hash = [h \in Heights |-> NoBlock] /\ op.pc = "idle" /\ phase = "down"
      /\ 0 \in Heights
  BY ChainAssumption DEF EngineInit, Init, Idle, Heights
<1> QED
  BY <1>1 DEF FloorInv, FreshDb

(* A step that leaves the store alone or ends a rollback, and walks        *)
(* nowhere. *)
LEMMA FloorQuiet ==
  ASSUME NEW f \in Heights, FloorInv(f),
         UNCHANGED <<indexed, hash, intact>>, op' = op \/ op'.pc = "idle",
         phase' \notin {"reorg", "heal"},
         indexed < f /\ ~FreshDb => current' <= indexed + 1
  PROVE  FloorInv(f)'
BY DEF FloorInv, FreshDb

(* A walk begins: near enough, and at or above the floor. *)
LEMMA FloorWalk ==
  ASSUME NEW f \in Heights, FloorInv(f),
         UNCHANGED <<indexed, hash, intact, op, current>>,
         ~FreshDb => Min(f, indexed) <= walk'.h,
         phase' = "reorg" /\ ~FreshDb => walk'.low <= Min(f, indexed),
         phase' = "heal" => walk'.low = 0 \/ walk'.low < Min(f, indexed)
  PROVE  FloorInv(f)'
BY DEF FloorInv, FreshDb

LEMMA FloorWalkBegins ==
  ASSUME Limits, NEW f \in Heights, ForksAbove(f), IInv, EInv, FloorInv(f),
         UNCHANGED <<indexed, hash, intact, op, current>>,
         NEW c \in 0 .. MaxHeight + 1, c > indexed, NEW rewind \in BOOLEAN, StartWalk(c, rewind),
         indexed < f /\ ~FreshDb => c <= indexed + 1
  PROVE  FloorInv(f)'
<1>1. /\ walk' = [h |-> c - 1, low |-> SatSub(c, MaxReorgDepth), detected |-> FALSE, rewind |-> rewind]
      /\ phase' = "reorg"
  BY DEF StartWalk
<1>2. /\ indexed \in Nat /\ f \in Nat /\ c \in Nat /\ c <= MaxHeight + 1 /\ MaxHeight \in Nat
      /\ MaxHeight - f < MaxReorgDepth /\ MaxReorgDepth \in Nat /\ f <= MaxHeight
  BY LimitFacts, HeightFacts, EngineAssumption DEF IInv, PointerInv, ForksAbove
<1>3. Min(f, indexed) <= c - 1
  BY <1>2 DEF Min
<1>4. ~FreshDb => SatSub(c, MaxReorgDepth) <= Min(f, indexed)
  BY <1>2 DEF Min, SatSub
<1> QED
  BY <1>1, <1>3, <1>4, FloorWalk

LEMMA FloorStart ==
  ASSUME Limits, NEW f \in Heights, ForksAbove(f), IInv, EInv, FloorInv(f), Start
  PROVE  FloorInv(f)'
<1>1. CASE Ready /\ indexed = 0
  <2>1. UNCHANGED <<indexed, hash, intact, op>> /\ phase' = "next" /\ current' = StartHeight
    BY <1>1 DEF Ready, InitStateRoot, vars, history
  <2>2. ~FreshDb => StartHeight <= indexed + 1
    <3>1. ~FreshDb => StartBlock = 0
      BY <1>1, StartRecorded, LimitFacts
    <3> QED
      BY <1>1, <3>1 DEF StartHeight
  <2> QED
    BY <2>1, <2>2, FloorQuiet
<1>2. CASE /\ ~(indexed = 0 /\ tip = 0 /\ MaxHashHeight = 0) /\ phase' = "heal"
           /\ walk' = [NoWalk EXCEPT !.h = Candidate, !.low = SatSub(Candidate, MaxReorgDepth)]
           /\ UNCHANGED <<vars, current>>
  <2>1. /\ indexed \in Nat /\ indexed <= MaxHeight /\ f \in Nat /\ MaxHeight \in Nat
        /\ MaxHeight - f < MaxReorgDepth /\ MaxReorgDepth \in Nat /\ Candidate \in Nat
        /\ Candidate <= indexed /\ f <= MaxHeight
    BY LimitFacts, HeightFacts, EngineAssumption, CandidateFacts, FloorEndsOnRecords
    DEF IInv, PointerInv, TypeOK, ForksAbove
  <2>2. walk'.h = Candidate /\ walk'.low = SatSub(Candidate, MaxReorgDepth)
    BY <1>2 DEF NoWalk
  <2>3. ASSUME ~FreshDb PROVE Min(f, indexed) <= Candidate
    <3>1. Min(f, indexed) \in 0 .. indexed /\ hash[Min(f, indexed)] # NoBlock
      BY <2>3, FloorRecorded, LimitFacts
    <3>2. Min(f, indexed) <= MaxHashHeight
      BY <3>1, MaxHashFacts, FloorEndsOnRecords
    <3>3. indexed <= tip /\ tip \in Nat /\ MaxHashHeight \in 0 .. indexed
      BY HeightFacts, MaxHashFacts, FloorEndsOnRecords DEF IInv, PointerInv, EInv, RollbackInv
    <3>4. Candidate = MaxHashHeight
      BY <2>1, <3>3 DEF Candidate, Min
    <3> QED
      BY <3>2, <3>4
  <2>4. SatSub(Candidate, MaxReorgDepth) = 0 \/ SatSub(Candidate, MaxReorgDepth) < Min(f, indexed)
    BY <2>1 DEF Min, SatSub
  <2>5. UNCHANGED <<indexed, hash, intact, op, current>>
    BY <1>2 DEF vars
  <2> QED
    BY <1>2, <2>2, <2>3, <2>4, <2>5, FloorWalk
<1> QED
  BY <1>1, <1>2 DEF Start

LEMMA FloorWalkStep ==
  ASSUME Limits, NEW f \in Heights, ForksAbove(f), IInv, EInv, FloorInv(f), ReorgStep \/ HealStep
  PROVE  FloorInv(f)'
<1>1. /\ UNCHANGED <<indexed, hash, intact, op, current, phase>>
      /\ phase \in {"reorg", "heal"} /\ ~Agree(walk.h)
      /\ hash[walk.h] # NoBlock => walk.h <= Height[best]
      /\ walk \in [h : Heights, low : 0 .. MaxHeight + 1, detected : BOOLEAN, rewind : BOOLEAN]
  BY DEF ReorgStep, HealStep, vars, EInv, EngineTypes
<1>2. walk'.h = walk.h - 1 /\ walk'.low = walk.low
  BY <1>1 DEF ReorgStep, HealStep
<1>3. ~FreshDb => Min(f, indexed) <= walk'.h
  BY <1>1, <1>2, FloorNotPassed
<1> QED
  BY <1>1, <1>2, <1>3, FloorWalk DEF FloorInv

(* A rollback begins at the height a walk has reached. *)
LEMMA FloorRollback ==
  ASSUME Limits, NEW f \in Heights, ForksAbove(f), IInv, EInv, FloorInv(f),
         phase \in {"reorg", "heal"}, ~FreshDb, phase' \notin {"reorg", "heal"}, current' = current,
         (\E heal \in BOOLEAN : BeginRollback(walk.h, heal)) \/ Heal(walk.h)
  PROVE  FloorInv(f)'
<1>1. /\ intact \in Nat /\ walk.h \in Nat /\ Min(f, indexed) <= walk.h
      /\ Min(f, indexed) <= intact
  BY LimitFacts, HeightFacts DEF EInv, EngineTypes, IInv, PointerInv, FloorInv
<1>2. /\ UNCHANGED <<indexed, hash>> /\ op'.target = walk.h
      /\ intact' = intact \/ intact' = Min(intact, walk.h)
  <2>1. CASE \E heal \in BOOLEAN : BeginRollback(walk.h, heal)
    BY <2>1 DEF BeginRollback, store
  <2>2. CASE op' = [Idle EXCEPT !.pc = "heal", !.target = walk.h, !.heal = TRUE]
             /\ UNCHANGED <<store, staged, intact, doubt>>
    BY <2>2 DEF store, Idle
  <2> QED
    BY <2>1, <2>2 DEF Heal, history
<1>3. Min(f, indexed) <= intact'
  BY <1>1, <1>2 DEF Min
<1> QED
  BY <1>1, <1>2, <1>3 DEF FloorInv, FreshDb

LEMMA FloorReady ==
  ASSUME Limits, NEW f \in Heights, IInv, EInv, FloorInv(f), Ready
  PROVE  FloorInv(f)'
<1>1. UNCHANGED <<indexed, hash, intact, op>> /\ phase' = "next" /\ current' = StartHeight
  BY DEF Ready, InitStateRoot, vars, history
<1>2. ~FreshDb => StartHeight <= indexed + 1
  <2>1. ~FreshDb => StartBlock <= indexed
    BY StartRecorded
  <2>2. indexed \in Nat /\ StartBlock \in Nat
    BY HeightFacts DEF IInv, PointerInv
  <2> QED
    BY <2>1, <2>2 DEF StartHeight
<1> QED
  BY <1>1, <1>2, FloorQuiet

LEMMA FloorRollbackStep ==
  ASSUME Limits, NEW f \in Heights, ForksAbove(f), IInv, EInv, FloorInv(f), RollbackStep
  PROVE  FloorInv(f)'
<1>1. /\ indexed \in Nat /\ op.target \in Nat /\ f \in Nat /\ intact \in Nat
      /\ op.pc # "idle" => op.target <= indexed
      /\ hash \in [Heights -> Blocks \cup {NoBlock}]
      /\ UNCHANGED <<phase, walk, current>>
  BY HeightFacts, LimitFacts DEF IInv, PointerInv, TypeOK, OpInRange, RollbackStep, engine
<1>2. /\ op.pc # "idle" /\ intact' = intact /\ indexed' \in {indexed, op.target}
      /\ \A h \in Heights : hash'[h] \in {hash[h], NoBlock}
      /\ op'.pc = "idle" \/ op'.target = op.target
      /\ hash'[op.target] = hash[op.target]
  <2>1. CASE ManifestBatch
    BY <1>1, <2>1 DEF ManifestBatch, history, IInv, PointerInv, TypeOK
  <2>2. CASE ScanMetadata \/ \E k \in Keys : ScanKey(k)
    BY <2>2 DEF ScanMetadata, ScanKey, history, IInv, PointerInv, TypeOK
  <2>3. CASE SetIndexedHeight \/ HealPointers
    BY <2>3 DEF SetIndexedHeight, HealPointers, history, IInv, PointerInv, TypeOK, Idle
  <2> QED
    BY <2>1, <2>2, <2>3 DEF RollbackStep
<1>3. phase \notin {"reorg", "heal"} /\ ~FreshDb
  BY <1>2 DEF EInv, RollbackInv
<1>4. Min(f, indexed) <= op.target /\ Min(f, indexed) <= intact
  BY <1>2, <1>3 DEF FloorInv
<1>5. Min(f, indexed') <= Min(f, indexed) /\ (indexed' < f => indexed' = indexed)
  BY <1>1, <1>2, <1>4 DEF Min
<1>6. Min(f, indexed') <= op.target /\ Min(f, indexed') <= intact
  <2>1. Min(f, indexed') \in Nat /\ Min(f, indexed) \in Nat
    BY <1>1, <1>2 DEF Min
  <2> QED
    BY <1>1, <1>4, <1>5, <2>1
<1>7. indexed' < f => \A h \in Heights : h > indexed' => hash'[h] = NoBlock
  BY <1>2, <1>5 DEF FloorInv
<1> QED
  BY <1>1, <1>2, <1>3, <1>5, <1>6, <1>7 DEF FloorInv

LEMMA FloorCommit ==
  ASSUME Limits, NEW f \in Heights, ForksAbove(f), IInv, EInv, FloorInv(f), CommitBlock
  PROVE  FloorInv(f)'
<1> DEFINE b == staged.block
           top == Height[b]
<1>1. /\ FreshDb \/ top = indexed + 1
      /\ op' = op /\ op = Idle /\ phase' = "next" /\ current' = top + 1
      /\ intact' = IF intact = indexed THEN top ELSE intact
      /\ indexed' = top /\ hash' = [hash EXCEPT ![top] = b] /\ b \in Blocks
  BY DEF CommitBlock, CommitAtomic, ApplyBatch, Accepts, EInv, ApplyInv
<1>2. /\ top \in Nat /\ indexed \in Nat /\ intact \in Nat /\ f \in Nat /\ intact <= indexed
      /\ hash \in [Heights -> Blocks \cup {NoBlock}] /\ top \in Heights
      /\ FreshDb => indexed = 0 /\ intact = 0
  BY <1>1, HeightFacts, LimitFacts DEF IInv, PointerInv, TypeOK, OpInRange, FreshDb, StartStays
<1> HIDE DEF b, top
<1>3. Min(f, top) <= intact'
  <2>1. CASE intact = indexed
    BY <1>1, <1>2, <2>1 DEF Min
  <2>2. CASE intact # indexed
    <3>1. ~FreshDb /\ Min(f, indexed) <= intact
      BY <1>2, <2>2 DEF FloorInv
    <3>2. f <= intact
      BY <1>2, <2>2, <3>1 DEF Min
    <3> QED
      BY <1>1, <1>2, <2>2, <3>2 DEF Min
  <2> QED
    BY <2>1, <2>2
<1>4. ASSUME top < f, NEW h \in Heights, h > top PROVE hash'[h] = NoBlock
  <2>1. h \in Nat /\ h # top /\ hash'[h] = hash[h]
    BY <1>1, <1>2, <1>4, LimitFacts
  <2>2. CASE FreshDb
    BY <2>1, <2>2 DEF EInv, BeginInv
  <2>3. CASE ~FreshDb
    <3>1. indexed < f /\ h > indexed
      BY <1>1, <1>2, <1>4, <2>1, <2>3
    <3> QED
      BY <2>1, <3>1 DEF FloorInv
  <2> QED
    BY <2>2, <2>3
<1> QED
  BY <1>1, <1>2, <1>3, <1>4 DEF FloorInv, Idle

LEMMA FloorNext ==
  ASSUME Limits, NEW f \in Heights, ForksAbove(f), IInv, EInv, FloorInv(f),
         [EngineNext]_engineVars
  PROVE  FloorInv(f)'
<1>1. CASE UNCHANGED <<indexed, hash, intact, op, phase, walk, current>>
  BY <1>1 DEF FloorInv, FreshDb
<1>2. CASE Start
  BY <1>2, FloorStart
<1>3. CASE ReorgStep \/ HealStep
  BY <1>3, FloorWalkStep
<1>4. CASE HealEnd \/ HealUnvalidated
  <2>1. phase = "heal" /\ HealTo(walk.h) /\ ~FreshDb
    BY <1>4 DEF HealEnd, HealUnvalidated, EInv, WalkInv
  <2>2. CASE Heal(walk.h) /\ phase' = "healing" /\ current' = current
    BY <2>1, <2>2, FloorRollback
  <2> QED
    BY <2>1, <2>2, FloorReady DEF HealTo
<1>5. CASE HealDone
  BY <1>5, FloorReady DEF HealDone
<1>6. CASE ReorgEnd /\ walk.detected
  <2>1. phase = "reorg" /\ ~FreshDb /\ phase' = "undo" /\ current' = current
        /\ BeginRollback(walk.h, FALSE)
    BY <1>6 DEF ReorgEnd, Rollback, EInv, WalkInv
  <2> QED
    BY <2>1, FloorRollback
<1>7. CASE \/ (ReorgEnd /\ ~walk.detected) \/ ReorgGivesUp
           \/ (NextBlock /\ phase' = "fetch")
           \/ Fetch \/ FetchFails \/ ProcessBlock \/ AttemptFails \/ GiveUp \/ RejectBlock
           \/ RollbackFails \/ Die
  <2>1. /\ UNCHANGED <<indexed, hash, intact>> /\ (op' = op \/ op'.pc = "idle")
        /\ phase' \notin {"reorg", "heal"}
        /\ current' \in {current, 0}
    <3>1. CASE (ReorgEnd /\ ~walk.detected) \/ ReorgGivesUp
      <4>1. UNCHANGED vars /\ ReorgReturns(current)
        BY <3>1 DEF ReorgEnd, ReorgGivesUp
      <4> QED
        BY <4>1 DEF ReorgReturns, vars
    <3>2. CASE NextBlock /\ phase' = "fetch"
      BY <3>2 DEF NextBlock, vars
    <3>3. CASE Fetch \/ FetchFails \/ GiveUp \/ ProcessBlock
      BY <3>3 DEF Fetch, FetchFails, GiveUp, ProcessBlock, RunBlock, vars, history, store
    <3>4. CASE AttemptFails \/ RejectBlock
      BY <3>4 DEF AttemptFails, RejectBlock, CommitRejected, Crash, Forget, history, Idle, store, engine
    <3>5. CASE RollbackFails \/ Die
      BY <3>5 DEF RollbackFails, Die, RollbackWriteFails, Crash, Forget, vars, history, Idle, store
    <3> QED
      BY <1>7, <3>1, <3>2, <3>3, <3>4, <3>5
  <2>2. indexed \in Nat
    BY HeightFacts DEF IInv, PointerInv
  <2>3. indexed < f /\ ~FreshDb => current' <= indexed + 1
    BY <2>1, <2>2 DEF FloorInv
  <2> QED
    BY <2>1, <2>3, FloorQuiet
<1>8. CASE ReorgDone
  <2>1. /\ UNCHANGED <<indexed, hash, intact, op>> /\ phase' \notin {"reorg", "heal"}
        /\ walk.h = indexed /\ current' \in {current, walk.h + 1}
    BY <1>8 DEF ReorgDone, ReorgReturns, Idle, vars, EInv, RollbackInv
  <2>2. indexed \in Nat
    BY HeightFacts DEF IInv, PointerInv
  <2>3. indexed < f /\ ~FreshDb => current' <= indexed + 1
    BY <2>1, <2>2 DEF FloorInv
  <2> QED
    BY <2>1, <2>3, FloorQuiet
<1>9. CASE NextBlock /\ StartWalk(current, TRUE) /\ current > 0
  <2>1. UNCHANGED <<indexed, hash, intact, op, current>> /\ phase = "next"
    BY <1>9 DEF NextBlock, vars
  <2>2. current \in 0 .. MaxHeight + 1 /\ current > indexed
    BY <1>9, <2>1, CurrentFacts
  <2>3. indexed < f /\ ~FreshDb => current <= indexed + 1
    BY DEF FloorInv
  <2> QED
    BY <1>9, <2>1, <2>2, <2>3, FloorWalkBegins
<1>10. CASE Discontinuity
  <2>1. /\ UNCHANGED <<indexed, hash, intact, op, current>> /\ phase = "apply"
        /\ ~Connects(fetched) /\ StartWalk(Height[fetched], FALSE)
    BY <1>10 DEF Discontinuity, vars
  <2>2. /\ Height[fetched] \in Nat /\ Height[fetched] <= MaxHeight /\ MaxHeight \in Nat
        /\ indexed \in Nat
        /\ Height[fetched] > indexed \/ Height[fetched] = 0
        /\ Height[fetched] > 0 /\ hash[Height[fetched] - 1] # NoBlock
    BY <2>1, HeightFacts, LimitFacts DEF EInv, ApplyInv, Connects, IInv, PointerInv
  <2>3. indexed < f => Height[fetched] <= indexed + 1
    <3>1. Height[fetched] - 1 \in Heights
      BY <2>2 DEF Heights
    <3> QED
      BY <2>2, <3>1 DEF FloorInv
  <2>4. Height[fetched] \in 0 .. MaxHeight + 1 /\ Height[fetched] > indexed
    BY <2>2
  <2> QED
    BY <2>1, <2>3, <2>4, FloorWalkBegins
<1>11. CASE RollbackStep
  BY <1>11, FloorRollbackStep
<1>12. CASE CommitBlock
  BY <1>12, FloorCommit
<1> QED
  BY <1>1, <1>2, <1>3, <1>4, <1>5, <1>6, <1>7, <1>8, <1>9, <1>10, <1>11, <1>12
  DEF EngineNext, EngineStep, engineVars, vars, engine, NodeGrows, NodeReorganises, NextBlock

(* When all forks are near the highest block, no walk of handle_reorg or   *)
(* of the heal uses up its depth, whatever is cut off or fails: what the   *)
(* other theorems assume of a run holds of every run. *)
THEOREM EngineWalksEndOnRecords ==
  ASSUME Limits, NEW CONSTANT f \in Heights, ForksAbove(f)
  PROVE  EngineSpec => []WalksEndOnRecords
<1> DEFINE Inv == IInv /\ EInv /\ FloorInv(f)
<1>1. EngineInit => Inv
  BY InitIInv, InitEInv, FloorInit DEF EngineInit
<1>2. Inv /\ [EngineNext]_engineVars => Inv'
  <2> SUFFICES ASSUME IInv, EInv, FloorInv(f), [EngineNext]_engineVars
               PROVE  (IInv /\ EInv)' /\ FloorInv(f)'
    OBVIOUS
  <2>1. (IInv /\ EInv)'
    BY FloorEndsOnRecords, NextKeepsBoth
  <2> QED
    BY <2>1, FloorNext
<1>3. Inv => WalksEndOnRecords
  BY FloorEndsOnRecords
<1> HIDE DEF Inv
<1> QED
  BY <1>1, <1>2, <1>3, PTL DEF EngineSpec
=============================================================================
