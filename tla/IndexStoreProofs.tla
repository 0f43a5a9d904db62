-------------------------- MODULE IndexStoreProofs --------------------------
(***************************************************************************)
(* Proofs about IndexStore and StoreReader, for any blocks, keys and       *)
(* updates, any number of commits, rollbacks, failed writes and crashes    *)
(* and any number of lookups between them: on an ordered list both         *)
(* rollback paths keep exactly the prefix at or below the target, and a    *)
(* lookup below that prefix's end does not notice.                         *)
(***************************************************************************)
EXTENDS StoreReader, FiniteSetTheorems, ChainProofs

(* What the rollback code may assume of a list: slots present and ordered. *)
Ordered(s) ==
  /\ s \in Seq(Entry)
  /\ \A i \in 1 .. Len(s) : s[i].b \in Blocks
  /\ \A i, j \in 1 .. Len(s) : i < j => Before(s[i], s[j])

(* n slots of s are at or below r, and they come first. *)
PrefixAt(s, r, n) ==
  /\ n \in 0 .. Len(s)
  /\ \A i \in 1 .. n : s[i].h <= r
  /\ \A i \in n + 1 .. Len(s) : s[i].h > r

(* An ordered list is a list of present slots with natural heights. *)
LEMMA OrderedFacts ==
  ASSUME NEW s, Ordered(s)
  PROVE  /\ s \in Seq(Entry) /\ Len(s) \in Nat /\ DOMAIN s = 1 .. Len(s)
         /\ \A i \in 1 .. Len(s) : s[i] \in Entry /\ s[i].h \in Nat /\ s[i].n \in Nat
         /\ \A i \in 1 .. Len(s) : s[i] # Hole
<1>1. s \in Seq(Entry) /\ Len(s) \in Nat /\ DOMAIN s = 1 .. Len(s)
  BY DEF Ordered
<1>2. \A i \in 1 .. Len(s) : s[i] \in Entry
  BY <1>1
<1>3. \A e \in Entry : e.h \in Nat /\ e.n \in Nat
  BY ChainAssumption DEF Entry, Heights
<1>4. \A i \in 1 .. Len(s) : s[i] # Hole
  <2>1. Hole.b = NoBlock BY DEF Hole
  <2>2. \A i \in 1 .. Len(s) : s[i].b # NoBlock BY ChainAssumption DEF Ordered
  <2> QED BY <2>1, <2>2
<1> QED BY <1>1, <1>2, <1>3, <1>4

(* An ordered list splits at r: some prefix is at or below r, and the rest *)
(* is above.                                                               *)
LEMMA PrefixExists ==
  ASSUME NEW s, Ordered(s), NEW r \in Heights
  PROVE  \E n \in 0 .. Len(s) : PrefixAt(s, r, n)
<1> DEFINE A == {i \in 1 .. Len(s) : s[i].h > r}
<1>0. Len(s) \in Nat /\ \A i \in 1 .. Len(s) : s[i].h \in Nat
  BY OrderedFacts
<1>1. CASE A = {}
  <2>1. PrefixAt(s, r, Len(s))
    BY <1>0, <1>1 DEF PrefixAt, Heights
  <2> QED BY <2>1, <1>0
<1>2. CASE A # {}
  <2>1. PICK d \in A : \A j \in A : d <= j
    <3>1. A \subseteq Nat BY <1>0
    <3> HIDE DEF A
    <3> QED BY <1>2, <3>1, LeastExists
  <2>2. \A i \in d .. Len(s) : s[i].h > r
    BY <2>1, <1>0 DEF Ordered, Before, Heights
  <2>3. \A i \in 1 .. d - 1 : s[i].h <= r
    BY <2>1, <1>0 DEF Heights
  <2>4. PrefixAt(s, r, d - 1)
    BY <2>1, <2>2, <2>3, <1>0 DEF PrefixAt
  <2> QED BY <2>4, <2>1, <1>0
<1> QED BY <1>1, <1>2

(* The fast path (rollback_with_manifests) keeps exactly that prefix. *)
LEMMA TrimPrefix ==
  ASSUME NEW s, Ordered(s), NEW r \in Heights, NEW n, PrefixAt(s, r, n)
  PROVE  Trim(s, r) = SubSeq(s, 1, n)
<1>0. /\ Len(s) \in Nat /\ DOMAIN s = 1 .. Len(s) /\ n \in 0 .. Len(s)
      /\ \A i \in 1 .. Len(s) : s[i].h \in Nat /\ s[i] # Hole
  BY OrderedFacts DEF PrefixAt
<1>1. Dropped(s, r) = n + 1 .. Len(s)
  <2>1. ASSUME NEW i \in 1 .. n PROVE ~ (s[i].h > r)
    BY <1>0 DEF PrefixAt, Heights
  <2>2. ASSUME NEW i \in n + 1 .. Len(s)
        PROVE  i \in 1 .. Len(s) /\ s[i].h > r /\ \A j \in i .. Len(s) : s[j].h > r
    BY <1>0 DEF PrefixAt
  <2> QED
    BY <1>0, <2>1, <2>2 DEF Dropped
<1>2. CASE n = Len(s)
  <2>1. n + 1 .. Len(s) = {} BY <1>0, <1>2
  <2>2. SubSeq(s, 1, n) = s BY <1>2, OrderedFacts
  <2> QED BY <1>1, <2>1, <2>2 DEF Trim
<1>3. CASE n # Len(s)
  <2>a. n \in Nat /\ Len(s) \in Nat /\ n <= Len(s) BY <1>0
  <2>b. n + 1 <= Len(s) BY <2>a, <1>3
  <2>0. n + 1 \in n + 1 .. Len(s) /\ \A j \in n + 1 .. Len(s) : n + 1 <= j
    BY <2>a, <2>b
  <2>1. n + 1 \in Dropped(s, r) /\ \A j \in Dropped(s, r) : n + 1 <= j
    BY <1>1, <2>0
  <2>2. (CHOOSE i \in Dropped(s, r) : \A j \in Dropped(s, r) : i <= j) = n + 1
    BY <1>0, <1>1, <2>1
  <2>3. Dropped(s, r) # {} /\ (n + 1) - 1 = n BY <2>1, <1>0
  <2>4. Trim(s, r) = SubSeq(s, 1, (n + 1) - 1) BY <2>2, <2>3 DEF Trim
  <2> QED BY <2>3, <2>4
<1> QED BY <1>2, <1>3

(* The full scan (rollback_smt_data) keeps the same prefix. *)
LEMMA SurvivorsPrefix ==
  ASSUME NEW s, Ordered(s), NEW r \in Heights, NEW n, PrefixAt(s, r, n)
  PROVE  Survivors(s, r) = SubSeq(s, 1, n)
<1> DEFINE kept == {i \in DOMAIN s : s[i] # Hole /\ s[i].h <= r}
<1>0. /\ Len(s) \in Nat /\ DOMAIN s = 1 .. Len(s) /\ n \in 0 .. Len(s)
      /\ \A i \in 1 .. Len(s) : s[i].h \in Nat /\ s[i] # Hole
  BY OrderedFacts DEF PrefixAt
<1>1. kept = 1 .. n
  BY <1>0 DEF PrefixAt, Heights
<1>2. Cardinality(kept) = n
  <2>1. Cardinality(1 .. n) = n BY <1>0, FS_Interval
  <2> QED BY <1>1, <2>1
<1>3. ASSUME NEW j \in 1 .. n
      PROVE  (CHOOSE i \in kept : Cardinality({x \in kept : x <= i}) = j) = j
  <2>1. \A i \in 1 .. n : {x \in kept : x <= i} = 1 .. i
    BY <1>0, <1>1
  <2>2. \A i \in 1 .. n : Cardinality({x \in kept : x <= i}) = i
    <3> TAKE i \in 1 .. n
    <3>0. i \in Int /\ 1 \in Int /\ ~ (1 > i) /\ i - 1 + 1 = i BY <1>0
    <3>1. Cardinality(1 .. i) = i BY <3>0, FS_Interval
    <3> QED BY <2>1, <3>1
  <2> HIDE DEF kept
  <2> QED BY <1>1, <2>2, <1>3
<1>4. Survivors(s, r) = [j \in 1 .. n |-> s[j]]
  <2>1. Survivors(s, r) = [j \in 1 .. Cardinality(kept) |->
            s[CHOOSE i \in kept : Cardinality({x \in kept : x <= i}) = j]]
    BY DEF Survivors
  <2> HIDE DEF kept
  <2> QED BY <1>2, <1>3, <2>1
<1>5. SubSeq(s, 1, n) = [j \in 1 .. n |-> s[j]]
  BY <1>0
<1> QED BY <1>4, <1>5

(* t is what a rollback to r should leave of list s. *)
Cut(s, r, t) ==
  /\ Ordered(t) /\ Len(t) <= Len(s)
  /\ \A i \in 1 .. Len(t) : t[i] = s[i] /\ t[i].h <= r
  /\ \A i \in 1 .. Len(s) : s[i].h <= r => i <= Len(t)

(* The prefix at or below r is such a cut. *)
LEMMA PrefixIsCut ==
  ASSUME NEW s, Ordered(s), NEW r \in Heights, NEW n, PrefixAt(s, r, n)
  PROVE  Cut(s, r, SubSeq(s, 1, n))
<1> DEFINE t == SubSeq(s, 1, n)
<1>0. s \in Seq(Entry) /\ Len(s) \in Nat /\ n \in 0 .. Len(s)
  BY OrderedFacts DEF PrefixAt
<1>1. t \in Seq(Entry) /\ Len(t) = n /\ \A i \in 1 .. n : t[i] = s[i]
  BY <1>0
<1> HIDE DEF t
<1>2. Ordered(t)
  BY <1>0, <1>1 DEF Ordered
<1>3. \A i \in 1 .. Len(s) : s[i].h <= r => i <= n
  <2> SUFFICES ASSUME NEW i \in 1 .. Len(s), i > n PROVE ~(s[i].h <= r)
    BY <1>0
  <2>1. s[i].h > r BY <1>0 DEF PrefixAt
  <2>2. s[i].h \in Nat /\ r \in Int BY OrderedFacts DEF Heights
  <2> QED BY <2>1, <2>2
<1>4. Cut(s, r, t)
  BY <1>0, <1>1, <1>2, <1>3 DEF Cut, PrefixAt
<1> QED BY <1>4 DEF t

(* Both rollback paths cut an ordered list, and cut it the same way. *)
LEMMA RollbackCuts ==
  ASSUME NEW s, Ordered(s), NEW r \in Heights
  PROVE  Cut(s, r, Trim(s, r)) /\ Cut(s, r, Survivors(s, r))
<1>1. PICK n \in 0 .. Len(s) : PrefixAt(s, r, n) BY PrefixExists
<1>2. Trim(s, r) = SubSeq(s, 1, n) BY <1>1, TrimPrefix
<1>3. Survivors(s, r) = SubSeq(s, 1, n) BY <1>1, SurvivorsPrefix
<1> QED BY <1>1, <1>2, <1>3, PrefixIsCut

(* The batch of a block above every slot of the list, built on the list's  *)
(* present length, appends the block's updates and keeps the list ordered. *)
LEMMA AppendFacts ==
  ASSUME NEW s, Ordered(s), NEW b \in Blocks, NEW k \in Keys,
         \A i \in 1 .. Len(s) : s[i].h < Height[b],
         NEW t, t = WriteAt(s, Len(s), UpdatesOf(b, k))
  PROVE  /\ Ordered(t) /\ Len(t) = Len(s) + Updates[b][k]
         /\ \A i \in 1 .. Len(s) : t[i] = s[i]
         /\ \A i \in Len(s) + 1 .. Len(t) :
              t[i] = [h |-> Height[b], b |-> b, n |-> i - Len(s)]
<1> DEFINE new == UpdatesOf(b, k)
<1>0. /\ Len(s) \in Nat /\ Updates[b][k] \in Nat /\ Height[b] \in Heights /\ Height[b] \in Nat
      /\ \A i \in 1 .. Len(s) : s[i] \in Entry /\ s[i].h \in Nat /\ s[i].n \in Nat
  BY ChainAssumption, OrderedFacts DEF Heights
<1>1. /\ Len(new) = Updates[b][k]
      /\ \A i \in 1 .. Updates[b][k] : new[i] = [h |-> Height[b], b |-> b, n |-> i]
  BY <1>0 DEF UpdatesOf
<1>2. t = [i \in 1 .. (Len(s) + Updates[b][k]) |->
             IF i > Len(s) THEN new[i - Len(s)] ELSE IF i <= Len(s) THEN s[i] ELSE Hole]
  BY <1>1 DEF WriteAt
<1> HIDE DEF new
<1>3. \A i \in 1 .. Len(s) : t[i] = s[i]
  BY <1>0, <1>2
<1>4. \A i \in Len(s) + 1 .. Len(s) + Updates[b][k] :
        t[i] = [h |-> Height[b], b |-> b, n |-> i - Len(s)]
  BY <1>0, <1>1, <1>2
<1>5. \A i \in 1 .. Len(s) + Updates[b][k] : t[i] \in Entry /\ t[i].b \in Blocks
  <2> TAKE i \in 1 .. Len(s) + Updates[b][k]
  <2>1. CASE i <= Len(s) BY <2>1, <1>0, <1>3 DEF Ordered
  <2>2. CASE i > Len(s)
    <3>1. t[i] = [h |-> Height[b], b |-> b, n |-> i - Len(s)] /\ i - Len(s) \in Nat
      BY <2>2, <1>0, <1>4
    <3> QED BY <3>1, <1>0 DEF Entry
  <2> QED BY <2>1, <2>2, <1>0
<1>6. t \in Seq(Entry) /\ Len(t) = Len(s) + Updates[b][k]
  <2> DEFINE m == Len(s) + Updates[b][k]
  <2>1. m \in Nat BY <1>0
  <2>2. t \in [1 .. m -> Entry] BY <1>2, <1>5
  <2> HIDE DEF m
  <2>3. t \in Seq(Entry) /\ Len(t) = m BY <2>1, <2>2
  <2> QED BY <2>3 DEF m
<1>7. ASSUME NEW i \in 1 .. Len(t), NEW j \in 1 .. Len(t), i < j
      PROVE  Before(t[i], t[j])
  <2>1. CASE j <= Len(s)
    <3>1. i \in 1 .. Len(s) /\ j \in 1 .. Len(s) BY <2>1, <1>0, <1>6, <1>7
    <3>2. t[i] = s[i] /\ t[j] = s[j] BY <3>1, <1>3
    <3> QED BY <3>1, <3>2, <1>7 DEF Ordered
  <2>2. CASE j > Len(s)
    <3>0. t[j] = [h |-> Height[b], b |-> b, n |-> j - Len(s)]
      <4>1. j \in Len(s) + 1 .. Len(s) + Updates[b][k] BY <2>2, <1>0, <1>6
      <4> QED BY <4>1, <1>4
    <3>1. t[j].h = Height[b] /\ t[j].n = j - Len(s)
      BY <3>0
    <3>2. CASE i <= Len(s)
      <4>1. i \in 1 .. Len(s) BY <3>2, <1>0, <1>6
      <4>2. t[i] = s[i] /\ s[i].h < Height[b] BY <4>1, <1>3
      <4> QED BY <3>1, <4>2 DEF Before
    <3>3. CASE i > Len(s)
      <4>0. i \in Len(s) + 1 .. Len(s) + Updates[b][k] BY <3>3, <1>0, <1>6
      <4>a. t[i] = [h |-> Height[b], b |-> b, n |-> i - Len(s)] BY <4>0, <1>4
      <4>1. t[i].h = Height[b] /\ t[i].n = i - Len(s) BY <4>a
      <4> QED BY <3>1, <4>1, <1>0, <1>6, <1>7 DEF Before
    <3> QED BY <3>2, <3>3, <1>0
  <2> QED BY <2>1, <2>2, <1>0
<1>8. Ordered(t)
  BY <1>5, <1>6, <1>7 DEF Ordered
<1> QED BY <1>3, <1>4, <1>6, <1>8

-----------------------------------------------------------------------------
(***************************************************************************)
(* The inductive invariant, one lemma per action.  Its first part speaks   *)
(* of the pointers and records and holds in every state; its second part,  *)
(* of the lists, until a batch in doubt is committed.                      *)
(***************************************************************************)

(* The lists of a state that satisfies the invariant are ordered lists. *)
LEMMA ListsAreOrdered ==
  ASSUME IInv, Undamaged
  PROVE  \A k \in Keys : Ordered(hist[k])
BY DEF IInv, PointerInv, ListInv, TypeOK, SlotsOrdered, SlotsOwned, Ordered

(* The heights and pointers are natural numbers. *)
LEMMA HeightFacts ==
  ASSUME TypeOK
  PROVE  /\ MaxHeight \in Nat /\ StartBlock \in Nat /\ RollbackFloor \in Nat
         /\ indexed \in Nat /\ intact \in Nat /\ tip \in Nat
         /\ op.target \in Nat /\ op.at \in Nat
         /\ \A b \in Blocks : Height[b] \in Nat /\ Height[b] \in Heights
         /\ \A h \in Heights : h \in Nat
BY ChainAssumption, StoreAssumption DEF TypeOK, Heights

(* The cursor and the batch that stand for nothing have their types. *)
LEMMA NothingTypes ==
  /\ Idle \in [pc : {"idle", "manifest", "meta", "scan", "heal"}, target : Heights,
               at : Heights, todo : SUBSET Keys, heal : BOOLEAN]
  /\ NotStaged \in [block : Blocks \cup {NoBlock}, len : [Keys -> Nat]]
<1>1. 0 \in Heights BY ChainAssumption DEF Heights
<1> QED BY <1>1 DEF Idle, NotStaged

(* Initially the index is empty. *)
LEMMA InitIInv == Init => IInv
<1> SUFFICES ASSUME Init PROVE IInv OBVIOUS
<1>0. 0 \in Heights /\ NoBlock \notin Blocks /\ StartBlock \in Heights
  BY ChainAssumption, StoreAssumption DEF Heights
<1>1. TypeOK
  BY <1>0, NothingTypes DEF Init, TypeOK, NoManifest
<1>2. FreshDb
  BY <1>0 DEF Init, FreshDb
<1>3. OpInRange /\ StartStays
  BY <1>0, <1>2 DEF Init, OpInRange, StartStays, Idle
<1>4. SlotsOrdered /\ SlotsOwned /\ SlotsListed /\ RollbackProgress
  BY DEF Init, SlotsOrdered, SlotsOwned, SlotsListed, RollbackProgress
<1>5. RecordsStand /\ UpdatesStand /\ StagedAboveTip /\ BatchFits
  BY <1>2 DEF Init, RecordsStand, UpdatesStand, StagedAboveTip, BatchFits
<1> QED BY <1>1, <1>3, <1>4, <1>5 DEF IInv, PointerInv, ListInv

(* A write that leaves the lists, their records and the rollback alone     *)
(* keeps what is said of them.                                             *)
LEMMA ListsUntouched ==
  ASSUME ListInv, UNCHANGED <<indexed, hash, hist, manifest, intact>>
  PROVE  SlotsOrdered' /\ SlotsOwned' /\ SlotsListed' /\ UpdatesStand' /\ (FreshDb' <=> FreshDb)
BY DEF ListInv, SlotsOrdered, SlotsOwned, SlotsListed, UpdatesStand, FreshDb

(* The empty state root of init() adds a root and nothing else. *)
LEMMA InitStateRootKeeps ==
  ASSUME IInv, InitStateRoot
  PROVE  IInv'
<1> USE DEF IInv, PointerInv
<1>0. UNCHANGED <<indexed, tip, hash, hist, manifest, op, staged, intact, doubt>>
  BY DEF InitStateRoot, history
<1>1. FreshDb' <=> FreshDb BY <1>0 DEF FreshDb
<1>2. TypeOK'
  <2>1. StartBlock - 1 \in Heights
    BY ChainAssumption, StoreAssumption DEF InitStateRoot, NeedsStateRoot, Heights
  <2> QED BY <1>0, <2>1 DEF TypeOK, InitStateRoot, Undamaged
<1>3. RecordsStand'
  BY <1>0, <1>1 DEF RecordsStand, InitStateRoot
<1>4. OpInRange' /\ StartStays' /\ StagedAboveTip'
  BY <1>0, <1>1 DEF OpInRange, StartStays, StagedAboveTip
<1>5. ASSUME Undamaged' PROVE ListInv'
  <2>1. ListInv BY <1>0, <1>5 DEF Undamaged
  <2>2. RollbackProgress' /\ BatchFits'
    BY <1>0, <1>1, <2>1 DEF ListInv, RollbackProgress, BatchFits
  <2> QED BY <1>0, <2>1, <2>2, ListsUntouched DEF ListInv
<1> QED BY <1>2, <1>3, <1>4, <1>5

(* Executing a block only reads the lists. *)
LEMMA ExecuteKeeps ==
  ASSUME IInv, NEW b \in Blocks, Execute(b)
  PROVE  IInv'
<1> USE DEF IInv, PointerInv
<1>0. UNCHANGED <<indexed, tip, hash, roots, hist, manifest, op, intact, doubt>>
  BY DEF Execute, RunBlock, BuildBatch, store, history
<1>1. FreshDb' <=> FreshDb BY <1>0 DEF FreshDb
<1>2. /\ staged' = [block |-> b, len |-> [k \in Keys |-> Len(hist[k])]]
      /\ staged'.block = b /\ \A k \in Keys : staged'.len[k] = Len(hist[k])
  BY DEF Execute, RunBlock, BuildBatch
<1>3. TypeOK'
  <2>1. ASSUME Undamaged PROVE staged' \in [block : Blocks \cup {NoBlock}, len : [Keys -> Nat]]
    <3>1. \A k \in Keys : Len(hist[k]) \in Nat BY <2>1 DEF TypeOK
    <3> QED BY <1>2, <3>1
  <2> QED BY <1>0, <2>1 DEF TypeOK, Undamaged
<1>4. StagedAboveTip'
  BY <1>0, <1>1, <1>2 DEF Execute, StagedAboveTip
<1>5. OpInRange' /\ StartStays' /\ RecordsStand'
  BY <1>0, <1>1 DEF OpInRange, StartStays, RecordsStand
<1>6. ASSUME Undamaged' PROVE ListInv'
  <2>1. ListInv BY <1>0, <1>6 DEF Undamaged
  <2>2. RollbackProgress' /\ BatchFits'
    BY <1>0, <1>2, <2>1 DEF ListInv, RollbackProgress, BatchFits
  <2> QED BY <1>0, <2>1, <2>2, ListsUntouched DEF ListInv
<1> QED BY <1>3, <1>4, <1>5, <1>6

(* A rejected batch and a crash forget what is in memory; a failed write   *)
(* ends the rollback, and leaves in doubt a batch that is in memory.       *)
LEMMA ForgetKeeps ==
  ASSUME IInv, CommitRejected \/ Crash \/ RollbackWriteFails
  PROVE  IInv'
<1> USE DEF IInv, PointerInv
<1>0. /\ UNCHANGED <<indexed, tip, hash, roots, hist, manifest, intact>>
      /\ op' = op \/ op' = Idle
      /\ staged' = NotStaged \/ staged' = staged
      /\ doubt' \in {doubt, "none", "staged"}
      /\ doubt = "committed" => doubt' = "committed"
  BY DEF CommitRejected, Crash, RollbackWriteFails, Forget, store, TypeOK
<1>1. FreshDb' <=> FreshDb BY <1>0 DEF FreshDb
<1>2. TypeOK'
  BY <1>0, NothingTypes DEF TypeOK, Undamaged
<1>3. OpInRange'
  BY <1>0 DEF OpInRange, Idle
<1>4. StartStays' /\ RecordsStand'
  BY <1>0, <1>1 DEF StartStays, RecordsStand
<1>5. StagedAboveTip'
  BY <1>0, <1>1 DEF StagedAboveTip, NotStaged
<1>6. ASSUME Undamaged' PROVE ListInv'
  <2>1. ListInv BY <1>0, <1>6 DEF Undamaged
  <2>2. RollbackProgress'
    BY <1>0, <2>1 DEF ListInv, RollbackProgress, Idle
  <2>3. BatchFits'
    <3>1. CASE staged' = NotStaged
      BY <3>1 DEF BatchFits
    <3>2. CASE RollbackWriteFails
      <4> SUFFICES ASSUME staged # NotStaged, doubt = "none", ~(op.target < indexed),
                          FreshDb \/ Height[staged.block] = indexed + 1
                   PROVE  \A k \in Keys : staged.len[k] = Len(hist[k])
        BY <1>0, <1>1, <3>2 DEF RollbackWriteFails, BatchFits
      <4>1. op.pc = "idle" \/ op.target = indexed
        BY HeightFacts DEF OpInRange
      <4> QED BY <2>1, <4>1 DEF ListInv, BatchFits
    <3> QED BY <3>1, <3>2 DEF CommitRejected, Crash, Forget
  <2> QED BY <1>0, <2>1, <2>2, <2>3, ListsUntouched DEF ListInv
<1> QED BY <1>2, <1>3, <1>4, <1>5, <1>6

(* What the callers roll back to is a height. *)
LEMMA RollbackTargets ==
  ASSUME IInv PROVE \A r \in RollbackFloor .. indexed : r \in Heights
BY StoreAssumption, ChainAssumption DEF IInv, PointerInv, TypeOK, Heights

(* Starting a rollback or a heal writes nothing; it only lowers intact. *)
LEMMA BeginKeeps ==
  ASSUME IInv, StartBlock <= RollbackFloor, NEW r \in Heights, NEW heal \in BOOLEAN,
         r \in RollbackFloor .. indexed, BeginRollback(r, heal)
  PROVE  IInv'
<1> USE DEF IInv, PointerInv
<1>0. UNCHANGED <<indexed, tip, hash, roots, hist, manifest, staged, doubt>>
  BY DEF BeginRollback, store
<1>a. /\ op.pc = "idle" /\ op'.pc \in {"manifest", "meta"} /\ op'.target = r
      /\ op'.at = indexed /\ op'.todo = {} /\ op'.heal = heal
      /\ op'.pc = "meta" => ~ManifestsExist(r)
      /\ op' = [pc |-> op'.pc, target |-> r, at |-> indexed, todo |-> {}, heal |-> heal]
  BY DEF BeginRollback, Idle
<1>b. /\ indexed \in Nat /\ intact \in Nat /\ r \in Nat /\ StartBlock \in Nat
      /\ RollbackFloor \in Nat /\ r <= indexed /\ RollbackFloor <= r /\ intact <= indexed
  BY HeightFacts DEF OpInRange, Heights
<1>c. intact' \in Nat /\ intact' <= r /\ intact' <= intact
      /\ (intact' = intact \/ intact' = r) /\ intact' <= indexed
  BY <1>b DEF BeginRollback, Min
<1>1. FreshDb' <=> FreshDb BY <1>0 DEF FreshDb
<1>2. op'.pc = "meta" => r < indexed
  BY <1>a, <1>b DEF ManifestsExist
<1>3. TypeOK'
  <2>1. intact' \in Heights BY <1>c DEF TypeOK
  <2>2. op' \in [pc : {"idle", "manifest", "meta", "scan", "heal"}, target : Heights,
                 at : Heights, todo : SUBSET Keys, heal : BOOLEAN]
    BY <1>a DEF TypeOK
  <2> QED BY <1>0, <2>1, <2>2 DEF TypeOK, Undamaged
<1>4. OpInRange'
  BY <1>0, <1>a, <1>b, <1>c, <1>2 DEF OpInRange
<1>5. StartStays'
  BY <1>0, <1>1, <1>b, <1>c DEF StartStays
<1>6. \A h \in StartBlock .. intact' : h \in StartBlock .. intact BY <1>b, <1>c
<1>7. RecordsStand' /\ StagedAboveTip'
  BY <1>0, <1>1, <1>6 DEF RecordsStand, StagedAboveTip
<1>8. ASSUME Undamaged' PROVE ListInv'
  <2>1. ListInv BY <1>0, <1>8 DEF Undamaged
  <2>2. SlotsOrdered' /\ SlotsOwned' /\ SlotsListed'
    BY <1>0, <2>1 DEF ListInv, SlotsOrdered, SlotsOwned, SlotsListed
  <2>3. RollbackProgress'
    BY <1>0, <1>a, <2>1 DEF ListInv, RollbackProgress, SlotsOwned
  <2>4. UpdatesStand'
    BY <1>0, <1>1, <1>6, <2>1 DEF ListInv, UpdatesStand
  <2>5. BatchFits'
    BY <1>0, <1>1, <1>a, <2>1 DEF ListInv, BatchFits
  <2> QED BY <2>2, <2>3, <2>4, <2>5 DEF ListInv
<1> QED BY <1>3, <1>4, <1>5, <1>7, <1>8

(* A batch that cuts some lists to the rollback target keeps the lists     *)
(* ordered, invents nothing and keeps everything at or below the target.   *)
LEMMA CutLists ==
  ASSUME IInv, Undamaged, hist' = [k \in Keys |-> hist'[k]],
         \A k \in Keys : hist'[k] = hist[k] \/ Cut(hist[k], op.target, hist'[k])
  PROVE  /\ hist' \in [Keys -> Seq(Entry)] /\ SlotsOrdered'
         /\ \A k \in Keys : \A i \in 1 .. Len(hist'[k]) :
              i \in 1 .. Len(hist[k]) /\ hist'[k][i] = hist[k][i]
         /\ \A k \in Keys : \A i \in 1 .. Len(hist[k]) :
              hist[k][i].h <= op.target => i \in 1 .. Len(hist'[k]) /\ hist'[k][i] = hist[k][i]
<1>1. \A k \in Keys : Ordered(hist[k]) /\ Ordered(hist'[k])
  BY ListsAreOrdered DEF Cut
<1>2. \A k \in Keys : Len(hist[k]) \in Nat /\ Len(hist'[k]) \in Nat /\ hist'[k] \in Seq(Entry)
  BY <1>1, OrderedFacts
<1>3. hist' \in [Keys -> Seq(Entry)]
  BY <1>2
<1>4. SlotsOrdered'
  BY <1>1 DEF SlotsOrdered, Ordered
<1>5. \A k \in Keys : \A i \in 1 .. Len(hist'[k]) :
        i \in 1 .. Len(hist[k]) /\ hist'[k][i] = hist[k][i]
  BY <1>2 DEF Cut
<1>6. \A k \in Keys : \A i \in 1 .. Len(hist[k]) :
        hist[k][i].h <= op.target => i \in 1 .. Len(hist'[k]) /\ hist'[k][i] = hist[k][i]
  BY <1>2 DEF Cut
<1> QED BY <1>3, <1>4, <1>5, <1>6

(* Such a batch loses no update of a height that is still intact, if it    *)
(* leaves the records at or below the target alone.                        *)
LEMMA CutKeepsUpdates ==
  ASSUME IInv, Undamaged, intact' = intact, intact <= op.target, FreshDb' <=> FreshDb,
         \A h \in Heights : h <= op.target => hash'[h] = hash[h],
         \A k \in Keys : \A i \in 1 .. Len(hist[k]) :
            hist[k][i].h <= op.target => i \in 1 .. Len(hist'[k]) /\ hist'[k][i] = hist[k][i]
  PROVE  UpdatesStand'
<1> SUFFICES ASSUME NEW h \in StartBlock .. intact, ~FreshDb
             PROVE  \A k \in Keys : \A n \in 1 .. Updates[hash'[h]][k] :
                       \E i \in 1 .. Len(hist'[k]) :
                          hist'[k][i] = [h |-> h, b |-> hash'[h], n |-> n]
  BY DEF UpdatesStand
<1>1. h \in Heights /\ h <= op.target
  <2>1. intact \in Nat /\ op.target \in Nat /\ StartBlock \in Nat /\ intact <= MaxHeight
    BY HeightFacts DEF IInv, PointerInv, TypeOK, Heights
  <2> QED BY <2>1, ChainAssumption DEF Heights
<1>2. ASSUME NEW k \in Keys, NEW n \in 1 .. Updates[hash[h]][k]
      PROVE  \E i \in 1 .. Len(hist'[k]) : hist'[k][i] = [h |-> h, b |-> hash[h], n |-> n]
  <2>1. PICK i \in 1 .. Len(hist[k]) : hist[k][i] = [h |-> h, b |-> hash[h], n |-> n]
    BY <1>2 DEF IInv, ListInv, UpdatesStand
  <2>2. hist[k][i].h <= op.target BY <2>1, <1>1
  <2>3. i \in 1 .. Len(hist'[k]) /\ hist'[k][i] = hist[k][i] BY <2>2
  <2> QED BY <2>1, <2>3
<1> QED BY <1>1, <1>2

(* Records at or below the target stay. *)
LEMMA RecordsKept ==
  ASSUME PointerInv, intact' = intact, intact <= op.target, FreshDb' <=> FreshDb,
         \A h \in Heights : h <= op.target =>
            hash'[h] = hash[h] /\ (h \in roots => h \in roots')
  PROVE  RecordsStand'
<1>1. \A h \in StartBlock .. intact : h \in Heights /\ h <= op.target
  <2>1. intact \in Nat /\ op.target \in Nat /\ StartBlock \in Nat /\ intact <= MaxHeight
    BY HeightFacts DEF PointerInv, TypeOK, Heights
  <2> QED BY <2>1, ChainAssumption DEF Heights
<1> QED BY <1>1 DEF PointerInv, RecordsStand

(* Nothing in memory fits while the lists are being cut. *)
LEMMA NothingFits ==
  ASSUME ~FreshDb, staged' = staged, FreshDb' <=> FreshDb, op'.pc # "idle", op'.target # indexed'
  PROVE  BatchFits'
BY DEF BatchFits

(* One height of the fast path. *)
LEMMA ManifestBatchKeeps ==
  ASSUME IInv, ManifestBatch
  PROVE  IInv'
<1> USE DEF IInv, PointerInv
<1>0. UNCHANGED <<indexed, tip, staged, intact, doubt>>
  BY DEF ManifestBatch, history
<1>a. /\ op.pc = "manifest" /\ op' = [op EXCEPT !.at = op.at - 1]
      /\ op'.pc = "manifest" /\ op'.target = op.target /\ op'.at = op.at - 1
      /\ op'.todo = op.todo /\ op'.heal = op.heal
  BY DEF ManifestBatch, TypeOK
<1>b. /\ op.at \in Heights /\ op.at \in Nat /\ op.target \in Nat /\ op.target \in Heights
      /\ op.target < op.at /\ op.at <= indexed /\ intact <= op.target
      /\ indexed \in Nat /\ intact \in Nat /\ op.at # 0 /\ op.at - 1 \in Heights
      /\ StartBlock \in Nat
  BY HeightFacts DEF ManifestBatch, OpInRange, TypeOK, Heights
<1>h. \A h \in Heights : h # op.at => hash'[h] = hash[h] /\ manifest'[h] = manifest[h]
                                       /\ (h \in roots' <=> h \in roots)
  BY DEF ManifestBatch, TypeOK
<1>1. (FreshDb' <=> FreshDb) /\ ~FreshDb
  <2>1. 0 \in Heights BY ChainAssumption DEF Heights
  <2> QED BY <2>1, <1>0, <1>b, <1>h DEF FreshDb
<1>2. ASSUME Undamaged
      PROVE  /\ hist' \in [Keys -> Seq(Entry)] /\ SlotsOrdered'
             /\ \A k \in Keys : k \in manifest[op.at] => Cut(hist[k], op.target, hist'[k])
             /\ \A k \in Keys : \A i \in 1 .. Len(hist'[k]) :
                  i \in 1 .. Len(hist[k]) /\ hist'[k][i] = hist[k][i]
             /\ \A k \in Keys : \A i \in 1 .. Len(hist[k]) :
                  hist[k][i].h <= op.target => i \in 1 .. Len(hist'[k]) /\ hist'[k][i] = hist[k][i]
  <2>1. /\ hist' = [k \in Keys |-> hist'[k]]
        /\ \A k \in Keys : hist'[k] = IF k \in manifest[op.at] THEN Trim(hist[k], op.target)
                                      ELSE hist[k]
    BY DEF ManifestBatch
  <2>2. \A k \in Keys : k \in manifest[op.at] => Cut(hist[k], op.target, hist'[k])
    BY <1>2, <1>b, <2>1, ListsAreOrdered, RollbackCuts
  <2>3. \A k \in Keys : hist'[k] = hist[k] \/ Cut(hist[k], op.target, hist'[k])
    BY <2>1, <2>2
  <2> QED BY <1>2, <2>1, <2>2, <2>3, CutLists
<1>3. TypeOK'
  <2>1. op' \in [pc : {"idle", "manifest", "meta", "scan", "heal"}, target : Heights,
                 at : Heights, todo : SUBSET Keys, heal : BOOLEAN]
    BY <1>a, <1>b DEF TypeOK
  <2>2. /\ hash' \in [Heights -> Blocks \cup {NoBlock}] /\ roots' \subseteq Heights
        /\ manifest' \in [Heights -> SUBSET Keys]
    BY DEF ManifestBatch, TypeOK, NoManifest
  <2> QED BY <1>0, <1>2, <2>1, <2>2 DEF TypeOK, Undamaged
<1>4. OpInRange' /\ StartStays' /\ StagedAboveTip'
  BY <1>0, <1>1, <1>a, <1>b DEF OpInRange, StartStays, StagedAboveTip
<1>5. RecordsStand'
  BY <1>0, <1>1, <1>b, <1>h, RecordsKept DEF Heights
<1>6. ASSUME Undamaged' PROVE ListInv'
  <2>0. Undamaged /\ ListInv BY <1>0, <1>6 DEF Undamaged
  <2>1. \A k \in Keys : \A i \in 1 .. Len(hist'[k]) :
          hist'[k][i].h \in Heights /\ hist'[k][i].h < op.at
    <3> TAKE k \in Keys
    <3> TAKE i \in 1 .. Len(hist'[k])
    <3>1. i \in 1 .. Len(hist[k]) /\ hist'[k][i] = hist[k][i] BY <1>2, <2>0
    <3>2. hist[k][i].h \in Heights /\ hist[k][i].h \in Nat
      BY <2>0, <3>1, ListsAreOrdered, OrderedFacts DEF Entry
    <3>3. hist[k][i].h <= op.at BY <2>0, <3>1, <1>a DEF ListInv, RollbackProgress
    <3>4. hist[k][i].h # op.at
      <4>1. CASE k \in manifest[op.at]
        <5>1. Cut(hist[k], op.target, hist'[k])
          BY <1>2, <2>0, <4>1
        <5>2. hist'[k][i].h <= op.target
          BY <5>1 DEF Cut
        <5> QED
          BY <5>2, <3>1, <3>2, <1>b
      <4>2. CASE k \notin manifest[op.at]
        BY <2>0, <4>2, <3>1 DEF ListInv, SlotsListed
      <4> QED BY <4>1, <4>2
    <3> QED BY <3>1, <3>2, <3>3, <3>4, <1>b
  <2>2. SlotsOwned'
    <3> SUFFICES ASSUME NEW k \in Keys, NEW i \in 1 .. Len(hist'[k])
                 PROVE  LET e == hist'[k][i]
                        IN  /\ e.b \in Blocks /\ e.h <= indexed' /\ e.h = Height[e.b]
                            /\ hash'[e.h] = e.b /\ e.n \in 1 .. Updates[e.b][k]
      BY DEF SlotsOwned
    <3>1. i \in 1 .. Len(hist[k]) /\ hist'[k][i] = hist[k][i] BY <1>2, <2>0
    <3>2. hist[k][i].h \in Heights /\ hist[k][i].h # op.at BY <3>1, <1>b, <2>1 DEF Heights
    <3>3. hash'[hist[k][i].h] = hash[hist[k][i].h] BY <3>2, <1>h
    <3>4. indexed' = indexed BY <1>0
    <3> QED BY <2>0, <3>1, <3>3, <3>4 DEF ListInv, SlotsOwned
  <2>3. SlotsListed'
    BY <1>b, <1>2, <1>h, <2>0, <2>1 DEF ListInv, SlotsListed
  <2>4. RollbackProgress'
    BY <1>a, <1>b, <2>1 DEF RollbackProgress, Heights
  <2>5. UpdatesStand'
    <3>1. \A h \in Heights : h <= op.target => hash'[h] = hash[h]
      BY <1>b, <1>h DEF Heights
    <3> QED BY <3>1, <1>0, <1>1, <1>b, <1>2, <2>0, CutKeepsUpdates
  <2>6. BatchFits'
    BY <1>0, <1>1, <1>a, <1>b, NothingFits
  <2> QED BY <1>2, <2>0, <2>2, <2>3, <2>4, <2>5, <2>6 DEF ListInv
<1> QED BY <1>3, <1>4, <1>5, <1>6

(* The metadata batch of the full scan. *)
LEMMA ScanMetadataKeeps ==
  ASSUME IInv, ScanMetadata
  PROVE  IInv'
<1> USE DEF IInv, PointerInv
<1>0. UNCHANGED <<indexed, tip, hash, hist, manifest, staged, intact, doubt>>
  BY DEF ScanMetadata, history
<1>a. /\ op.pc = "meta" /\ op'.pc = "scan" /\ op'.target = op.target /\ op'.at = op.at
      /\ op'.heal = op.heal /\ op'.todo = {k \in Keys : hist[k] # <<>>}
      /\ op' = [op EXCEPT !.pc = "scan", !.todo = {k \in Keys : hist[k] # <<>>}]
  BY DEF ScanMetadata, TypeOK
<1>b. /\ op.target \in Nat /\ indexed \in Nat /\ intact \in Nat
      /\ op.target < indexed /\ intact <= op.target
  BY <1>a, HeightFacts DEF OpInRange
<1>1. (FreshDb' <=> FreshDb) /\ ~FreshDb BY <1>0, <1>b DEF FreshDb
<1>2. TypeOK'
  <2>1. op' \in [pc : {"idle", "manifest", "meta", "scan", "heal"}, target : Heights,
                 at : Heights, todo : SUBSET Keys, heal : BOOLEAN]
    BY <1>a DEF TypeOK
  <2>2. roots' \subseteq Heights BY DEF ScanMetadata, TypeOK
  <2> QED BY <1>0, <2>1, <2>2 DEF TypeOK, Undamaged
<1>3. OpInRange' /\ StartStays' /\ StagedAboveTip'
  BY <1>0, <1>a, <1>b, <1>1 DEF OpInRange, StartStays, StagedAboveTip
<1>4. RecordsStand'
  <2>1. \A h \in Heights : h <= op.target =>
          hash'[h] = hash[h] /\ (h \in roots => h \in roots')
    BY <1>0 DEF ScanMetadata
  <2> QED BY <2>1, <1>0, <1>1, <1>b, RecordsKept
<1>5. ASSUME Undamaged' PROVE ListInv'
  <2>1. ListInv BY <1>0, <1>5 DEF Undamaged
  <2>2. RollbackProgress'
    <3>1. \A k \in Keys : k \notin op'.todo => 1 .. Len(hist[k]) = {}
      BY <1>a
    <3> QED BY <1>0, <1>a, <3>1 DEF RollbackProgress
  <2>3. BatchFits'
    BY <1>0, <1>1, <1>a, <1>b, NothingFits
  <2> QED BY <1>0, <2>1, <2>2, <2>3, ListsUntouched DEF ListInv
<1> QED BY <1>2, <1>3, <1>4, <1>5

(* One list of the full scan. *)
LEMMA ScanKeyKeeps ==
  ASSUME IInv, NEW x \in Keys, ScanKey(x)
  PROVE  IInv'
<1> USE DEF IInv, PointerInv
<1>0. UNCHANGED <<indexed, tip, hash, roots, manifest, staged, intact, doubt>>
  BY DEF ScanKey, history
<1>a. /\ op.pc = "scan" /\ op'.pc = "scan" /\ op'.target = op.target /\ op'.at = op.at
      /\ op'.heal = op.heal /\ op'.todo = op.todo \ {x}
      /\ op' = [op EXCEPT !.todo = op.todo \ {x}]
  BY DEF ScanKey, TypeOK
<1>b. /\ op.target \in Nat /\ op.target \in Heights /\ indexed \in Nat /\ intact \in Nat
      /\ op.target < indexed /\ intact <= op.target
  BY <1>a, HeightFacts DEF OpInRange, TypeOK
<1>1. (FreshDb' <=> FreshDb) /\ ~FreshDb BY <1>0, <1>b DEF FreshDb
<1>2. ASSUME Undamaged
      PROVE  /\ Cut(hist[x], op.target, hist'[x]) /\ \A k \in Keys : k # x => hist'[k] = hist[k]
             /\ hist' \in [Keys -> Seq(Entry)] /\ SlotsOrdered'
             /\ \A k \in Keys : \A i \in 1 .. Len(hist'[k]) :
                  i \in 1 .. Len(hist[k]) /\ hist'[k][i] = hist[k][i]
             /\ \A k \in Keys : \A i \in 1 .. Len(hist[k]) :
                  hist[k][i].h <= op.target => i \in 1 .. Len(hist'[k]) /\ hist'[k][i] = hist[k][i]
  <2>1. hist'[x] = Survivors(hist[x], op.target) /\ \A k \in Keys : k # x => hist'[k] = hist[k]
    BY <1>2 DEF ScanKey, TypeOK
  <2>2. Cut(hist[x], op.target, hist'[x])
    BY <1>2, <1>b, <2>1, ListsAreOrdered, RollbackCuts
  <2>3. hist' = [k \in Keys |-> hist'[k]]
    BY <1>2 DEF ScanKey, TypeOK
  <2> QED BY <1>2, <2>1, <2>2, <2>3, CutLists
<1>3. TypeOK'
  <2>1. op' \in [pc : {"idle", "manifest", "meta", "scan", "heal"}, target : Heights,
                 at : Heights, todo : SUBSET Keys, heal : BOOLEAN]
    BY <1>a DEF TypeOK
  <2> QED BY <1>0, <1>2, <2>1 DEF TypeOK, Undamaged
<1>4. OpInRange' /\ StartStays' /\ RecordsStand' /\ StagedAboveTip'
  BY <1>0, <1>a, <1>b, <1>1 DEF OpInRange, StartStays, RecordsStand, StagedAboveTip
<1>5. ASSUME Undamaged' PROVE ListInv'
  <2>0. Undamaged /\ ListInv BY <1>0, <1>5 DEF Undamaged
  <2>1. SlotsOwned'
    <3> SUFFICES ASSUME NEW k \in Keys, NEW i \in 1 .. Len(hist'[k])
                 PROVE  LET e == hist'[k][i]
                        IN  /\ e.b \in Blocks /\ e.h <= indexed' /\ e.h = Height[e.b]
                            /\ hash'[e.h] = e.b /\ e.n \in 1 .. Updates[e.b][k]
      BY DEF SlotsOwned
    <3>1. i \in 1 .. Len(hist[k]) /\ hist'[k][i] = hist[k][i]
      BY <1>2, <2>0
    <3> QED
      BY <1>0, <2>0, <3>1 DEF ListInv, SlotsOwned
  <2>2. SlotsListed'
    BY <1>0, <1>2, <2>0 DEF ListInv, SlotsListed
  <2>3. RollbackProgress'
    <3>1. \A i \in 1 .. Len(hist'[x]) : hist'[x][i].h <= op.target BY <1>2, <2>0 DEF Cut
    <3>2. \A k \in Keys \ {x} : hist'[k] = hist[k] /\ (k \notin op'.todo => k \notin op.todo)
      BY <1>a, <1>2, <2>0
    <3> QED BY <1>a, <2>0, <3>1, <3>2 DEF ListInv, RollbackProgress
  <2>4. UpdatesStand'
    BY <1>0, <1>1, <1>b, <1>2, <2>0, CutKeepsUpdates
  <2>5. BatchFits'
    BY <1>0, <1>1, <1>a, <1>b, NothingFits
  <2> QED BY <1>2, <2>0, <2>1, <2>2, <2>3, <2>4, <2>5 DEF ListInv
<1> QED BY <1>3, <1>4, <1>5

(* The end of a rollback: every list has been cut to the target, so the    *)
(* indexed height may come down to it.                                     *)
LEMMA SetIndexedHeightKeeps ==
  ASSUME IInv, StartBlock <= RollbackFloor, SetIndexedHeight
  PROVE  IInv'
<1> USE DEF IInv, PointerInv
<1>0. UNCHANGED <<tip, hash, roots, hist, manifest, staged, intact, doubt>> /\ indexed' = op.target
  BY DEF SetIndexedHeight, history
<1>a. /\ op' = Idle \/ op' = [op EXCEPT !.pc = "heal"]
      /\ op.pc \in {"manifest", "scan"}
      /\ op.pc = "manifest" => op.at <= op.target
      /\ op.pc = "scan" => op.todo = {}
  BY DEF SetIndexedHeight
<1>b. /\ op.target \in Nat /\ op.target \in Heights /\ indexed \in Nat /\ intact \in Nat
      /\ op.at \in Nat /\ op.target <= indexed /\ intact <= op.target
      /\ StartBlock \in Nat /\ RollbackFloor \in Nat /\ RollbackFloor <= op.target
  BY <1>a, HeightFacts DEF OpInRange, TypeOK
<1>c. /\ op'.pc \in {"idle", "heal"} /\ (op'.pc = "idle" => op' = Idle)
      /\ op'.pc = "heal" => op'.target = op.target
  BY <1>a DEF Idle, TypeOK
<1>1. FreshDb' <=> FreshDb
  <2>1. FreshDb => FreshDb' BY <1>0, <1>b DEF FreshDb
  <2>2. ASSUME FreshDb', ~FreshDb PROVE FALSE
    <3>1. op.target = 0 /\ hash[0] = NoBlock /\ StartBlock = 0
      BY <2>2, <1>0, <1>b DEF FreshDb
    <3>2. 0 \in StartBlock .. intact BY <3>1, <1>b, <2>2
    <3> QED BY <3>1, <3>2, <2>2 DEF RecordsStand
  <2> QED BY <2>1, <2>2
<1>2. TypeOK'
  <2>1. op' \in [pc : {"idle", "manifest", "meta", "scan", "heal"}, target : Heights,
                 at : Heights, todo : SUBSET Keys, heal : BOOLEAN]
    <3>1. CASE op' = Idle BY <3>1, NothingTypes
    <3>2. CASE op' = [op EXCEPT !.pc = "heal"] BY <3>2 DEF TypeOK
    <3> QED BY <1>a, <3>1, <3>2
  <2> QED BY <1>0, <1>b, <2>1 DEF TypeOK, Undamaged
<1>3. OpInRange'
  BY <1>0, <1>b, <1>c DEF OpInRange
<1>4. StartStays' /\ RecordsStand'
  BY <1>0, <1>1 DEF StartStays, RecordsStand
<1>5. ASSUME NEW x \in Nat, x > indexed PROVE x > indexed'
  BY <1>0, <1>b, <1>5
<1>6. StagedAboveTip'
  <2> SUFFICES ASSUME staged # NotStaged PROVE StagedAboveTip'
    BY <1>0 DEF StagedAboveTip
  <2>1. staged.block \in Blocks /\ Height[staged.block] \in Nat
    BY HeightFacts DEF StagedAboveTip
  <2> QED BY <2>1, <1>0, <1>1, <1>5 DEF StagedAboveTip
<1>7. ASSUME Undamaged' PROVE ListInv'
  <2>0. Undamaged /\ ListInv BY <1>0, <1>7 DEF Undamaged
  <2>1. \A k \in Keys : \A i \in 1 .. Len(hist[k]) : hist[k][i].h <= op.target
    <3> TAKE k \in Keys
    <3> TAKE i \in 1 .. Len(hist[k])
    <3>1. hist[k][i].h \in Nat BY <2>0, ListsAreOrdered, OrderedFacts
    <3> QED BY <1>a, <1>b, <2>0, <3>1 DEF ListInv, RollbackProgress
  <2>2. SlotsOrdered' /\ SlotsListed' /\ UpdatesStand'
    BY <1>0, <1>1, <2>0 DEF ListInv, SlotsOrdered, SlotsListed, UpdatesStand
  <2>3. SlotsOwned'
    BY <1>0, <2>0, <2>1 DEF ListInv, SlotsOwned
  <2>4. RollbackProgress'
    BY <1>c DEF RollbackProgress
  <2>5. BatchFits'
    <3> SUFFICES ASSUME staged # NotStaged, doubt = "none",
                        FreshDb \/ Height[staged.block] = op.target + 1
                 PROVE  \A k \in Keys : staged.len[k] = Len(hist[k])
      BY <1>0, <1>1 DEF BatchFits
    <3>1. staged.block \in Blocks /\ Height[staged.block] \in Nat
      BY HeightFacts DEF StagedAboveTip
    <3>2. FreshDb \/ op.target = indexed
      BY <3>1, <1>b DEF StagedAboveTip
    <3> QED BY <2>0, <3>2 DEF ListInv, BatchFits
  <2> QED BY <2>2, <2>3, <2>4, <2>5 DEF ListInv
<1> QED BY <1>2, <1>3, <1>4, <1>6, <1>7

(* The pointer batch of the startup heal changes no height a list or a     *)
(* record depends on: the rollback before it already moved the tip.        *)
LEMMA HealPointersKeeps ==
  ASSUME IInv, HealPointers
  PROVE  IInv'
<1> USE DEF IInv, PointerInv
<1>0. UNCHANGED <<indexed, hash, roots, hist, manifest, staged, intact, doubt>> /\ tip' = op.target
  BY DEF HealPointers, OpInRange, history
<1>a. op' = Idle /\ op'.pc = "idle" /\ op.pc = "heal" BY DEF HealPointers, Idle
<1>1. FreshDb' <=> FreshDb BY <1>0 DEF FreshDb
<1>2. TypeOK'
  <2>1. op.target \in Heights BY DEF TypeOK
  <2> QED BY <1>0, <1>a, <2>1, NothingTypes DEF TypeOK, Undamaged
<1>3. OpInRange' /\ StartStays' /\ RecordsStand' /\ StagedAboveTip'
  BY <1>0, <1>a, <1>1 DEF OpInRange, StartStays, RecordsStand, StagedAboveTip
<1>4. ASSUME Undamaged' PROVE ListInv'
  <2>1. ListInv BY <1>0, <1>4 DEF Undamaged
  <2>2. RollbackProgress'
    BY <1>a DEF RollbackProgress
  <2>3. BatchFits'
    BY <1>0, <1>1, <1>a, <2>1 DEF ListInv, BatchFits, OpInRange
  <2> QED BY <1>0, <2>1, <2>2, <2>3, ListsUntouched DEF ListInv
<1> QED BY <1>2, <1>3, <1>4

(* Starting a heal that has nothing to roll back. *)
LEMMA HealKeeps ==
  ASSUME IInv, StartBlock <= RollbackFloor, NEW r \in RollbackFloor .. indexed, Heal(r)
  PROVE  IInv'
<1>0. r \in Heights BY RollbackTargets
<1>1. CASE indexed > r
  BY <1>0, <1>1, BeginKeeps DEF Heal
<1>2. CASE ~(indexed > r)
  <2> USE DEF IInv, PointerInv
  <2>0. UNCHANGED <<indexed, tip, hash, roots, hist, manifest, staged, intact, doubt>>
        /\ staged = NotStaged
    BY <1>2 DEF Heal, store, history
  <2>b. indexed \in Nat /\ intact \in Nat /\ r \in Nat /\ RollbackFloor \in Nat
        /\ r = indexed /\ RollbackFloor <= r /\ intact <= indexed
    BY <1>2, HeightFacts DEF Heal, OpInRange
  <2>a. /\ op' = [Idle EXCEPT !.pc = "heal", !.target = r, !.heal = TRUE]
        /\ op'.pc = "heal" /\ op'.target = r
    BY <1>2 DEF Heal, Idle
  <2>1. FreshDb' <=> FreshDb BY <2>0 DEF FreshDb
  <2>2. TypeOK'
    <3>1. 0 \in Heights BY ChainAssumption DEF Heights
    <3>2. op' \in [pc : {"idle", "manifest", "meta", "scan", "heal"}, target : Heights,
                   at : Heights, todo : SUBSET Keys, heal : BOOLEAN]
      BY <1>0, <2>a, <3>1 DEF Idle
    <3> QED BY <2>0, <3>2 DEF TypeOK, Undamaged
  <2>3. OpInRange'
    BY <2>0, <2>a, <2>b DEF OpInRange
  <2>4. StartStays' /\ RecordsStand' /\ StagedAboveTip'
    BY <2>0, <2>1 DEF StartStays, RecordsStand, StagedAboveTip
  <2>5. ASSUME Undamaged' PROVE ListInv'
    <3>1. ListInv BY <2>0, <2>5 DEF Undamaged
    <3>2. RollbackProgress'
      BY <2>a DEF RollbackProgress
    <3>3. BatchFits'
      BY <2>0 DEF BatchFits
    <3> QED BY <2>0, <3>1, <3>2, <3>3, ListsUntouched DEF ListInv
  <2> QED BY <2>2, <2>3, <2>4, <2>5
<1> QED BY <1>1, <1>2

(* Committing a block that is not in doubt: the in-order check leaves only *)
(* batches built on the lists as they are, for a block above all of them,  *)
(* so it appends.                                                          *)
LEMMA CommitLists ==
  ASSUME IInv, CommitAtomic, doubt = "none", NEW k \in Keys
  PROVE  LET b == staged.block
         IN  /\ Ordered(hist'[k]) /\ Len(hist'[k]) = Len(hist[k]) + Updates[b][k]
             /\ \A i \in 1 .. Len(hist[k]) : hist[k][i].h < Height[b] /\ hist'[k][i] = hist[k][i]
             /\ \A i \in Len(hist[k]) + 1 .. Len(hist'[k]) :
                  hist'[k][i] = [h |-> Height[b], b |-> b, n |-> i - Len(hist[k])]
<1> USE DEF IInv, PointerInv
<1> DEFINE b == staged.block
<1>0. ListInv /\ Undamaged
  BY DEF Undamaged
<1>1. op.pc = "idle" /\ staged # NotStaged
  BY DEF CommitAtomic, Idle
<1>2. b \in Blocks /\ Height[b] \in Nat /\ indexed \in Nat
  BY <1>1, HeightFacts DEF StagedAboveTip
<1>3. FreshDb => hist[k] = <<>>
  BY DEF StartStays
<1>4. ~FreshDb => Height[b] = indexed + 1
  BY DEF CommitAtomic, Accepts
<1>5. staged.len[k] = Len(hist[k])
  BY <1>0, <1>1, <1>4 DEF ListInv, BatchFits
<1>6. Ordered(hist[k]) /\ Len(hist[k]) \in Nat /\ Updates[b][k] \in Nat
  BY <1>0, <1>2, ListsAreOrdered, OrderedFacts, ChainAssumption
<1>7. \A i \in 1 .. Len(hist[k]) : hist[k][i].h < Height[b]
  <2> TAKE i \in 1 .. Len(hist[k])
  <2>1. ~FreshDb BY <1>3
  <2>2. hist[k][i].h <= indexed BY <1>0 DEF ListInv, SlotsOwned
  <2>3. hist[k][i].h \in Nat BY <1>6, OrderedFacts
  <2> QED BY <1>2, <1>4, <2>1, <2>2, <2>3
<1>8. hist'[k] = IF Updates[b][k] = 0 THEN hist[k]
                 ELSE WriteAt(hist[k], Len(hist[k]), UpdatesOf(b, k))
  BY <1>5 DEF CommitAtomic, ApplyBatch
<1>9. CASE Updates[b][k] = 0
  <2>1. hist'[k] = hist[k] BY <1>8, <1>9
  <2> QED BY <1>6, <1>7, <1>9, <2>1
<1>10. CASE Updates[b][k] # 0
  <2>1. hist'[k] = WriteAt(hist[k], Len(hist[k]), UpdatesOf(b, k)) BY <1>8, <1>10
  <2> DEFINE s == hist[k]
             t == hist'[k]
  <2>2. Ordered(s) /\ t = WriteAt(s, Len(s), UpdatesOf(b, k)) /\ b \in Blocks
        /\ \A i \in 1 .. Len(s) : s[i].h < Height[b]
    BY <1>2, <1>6, <1>7, <2>1
  <2> HIDE DEF s, t
  <2>3. /\ Ordered(t) /\ Len(t) = Len(s) + Updates[b][k]
        /\ \A i \in 1 .. Len(s) : t[i] = s[i]
        /\ \A i \in Len(s) + 1 .. Len(t) :
             t[i] = [h |-> Height[b], b |-> b, n |-> i - Len(s)]
    BY <2>2, AppendFacts
  <2> QED BY <2>2, <2>3 DEF s, t
<1> QED BY <1>9, <1>10

(* The batch and its records keep the invariant. *)
LEMMA CommitKeeps ==
  ASSUME IInv, CommitAtomic
  PROVE  IInv'
<1> USE DEF IInv, PointerInv
<1> DEFINE b == staged.block
           top == Height[b]
<1>0. op' = op /\ op = Idle /\ op.pc = "idle" /\ staged' = NotStaged /\ staged # NotStaged
  BY DEF CommitAtomic, Idle
<1>a. b \in Blocks /\ top \in Nat /\ top \in Heights /\ StartBlock \in Nat
      /\ indexed \in Nat /\ intact \in Nat /\ intact <= indexed /\ MaxHeight \in Nat
  BY <1>0, HeightFacts DEF StagedAboveTip, OpInRange
<1>b. FreshDb => top = StartBlock /\ intact = 0 /\ indexed = 0 /\ \A k \in Keys : hist[k] = <<>>
  BY <1>0 DEF StagedAboveTip, StartStays, FreshDb
<1>c. ~FreshDb => top = indexed + 1
  BY DEF CommitAtomic, Accepts
<1>e. /\ indexed' = top /\ tip' = top /\ roots' = roots \cup {top}
      /\ hash' = [hash EXCEPT ![top] = b]
      /\ intact' = IF intact = indexed THEN top ELSE intact
      /\ manifest' = manifest \/ manifest' = [manifest EXCEPT ![top] = {k \in Keys : Updates[b][k] > 0}]
      /\ \A k \in Keys : Updates[b][k] > 0 =>
           manifest' = [manifest EXCEPT ![top] = {x \in Keys : Updates[b][x] > 0}]
  BY DEF CommitAtomic, ApplyBatch, Touched
<1>f. hist' = [k \in Keys |-> IF Updates[b][k] = 0 THEN hist[k]
                              ELSE WriteAt(hist[k], staged.len[k], UpdatesOf(b, k))]
  BY DEF CommitAtomic, ApplyBatch
<1>d. doubt' = IF doubt = "staged" THEN "committed" ELSE doubt
  BY DEF CommitAtomic
<1>t. Undamaged' => doubt = "none" /\ Undamaged /\ ListInv
  BY <1>d DEF Undamaged, TypeOK
<1>i. ASSUME Undamaged', NEW k \in Keys
      PROVE  /\ Ordered(hist'[k]) /\ Len(hist'[k]) = Len(hist[k]) + Updates[b][k]
             /\ \A i \in 1 .. Len(hist[k]) : hist[k][i].h < top /\ hist'[k][i] = hist[k][i]
             /\ \A i \in Len(hist[k]) + 1 .. Len(hist'[k]) :
                  hist'[k][i] = [h |-> top, b |-> b, n |-> i - Len(hist[k])]
  BY <1>i, <1>t, CommitLists
<1> HIDE DEF b, top
<1>j. ~FreshDb'
  BY <1>a, <1>e, ChainAssumption DEF FreshDb, TypeOK
<1>k. \A h \in Heights : h # top => hash'[h] = hash[h] /\ manifest'[h] = manifest[h]
  BY <1>a, <1>e DEF TypeOK
<1>l. hash'[top] = b
  BY <1>a, <1>e DEF TypeOK
<1>2. TypeOK'
  <2>1. Undamaged' => hist' \in [Keys -> Seq(Entry)]
    BY <1>f, <1>i DEF Ordered
  <2>2. hash' \in [Heights -> Blocks \cup {NoBlock}]
    BY <1>e, <1>a DEF TypeOK
  <2>3. roots' \subseteq Heights /\ manifest' \in [Heights -> SUBSET Keys]
    BY <1>a, <1>e DEF TypeOK
  <2>4. staged' \in [block : Blocks \cup {NoBlock}, len : [Keys -> Nat]]
    BY <1>0, NothingTypes
  <2>5. intact' \in Heights /\ indexed' \in Heights /\ tip' \in Heights
    BY <1>a, <1>e DEF TypeOK
  <2>6. doubt' \in {"none", "staged", "committed"}
    BY <1>d DEF TypeOK
  <2> QED BY <1>0, <2>1, <2>2, <2>3, <2>4, <2>5, <2>6 DEF TypeOK
<1>3. OpInRange'
  <2>1. intact' <= indexed' BY <1>a, <1>b, <1>c, <1>e
  <2> QED BY <2>1, <1>0 DEF OpInRange
<1>4. StartStays'
  BY <1>a, <1>b, <1>c, <1>e, <1>j DEF StartStays
<1>5. ASSUME NEW h \in StartBlock .. intact', h # top
      PROVE  /\ ~FreshDb /\ h \in StartBlock .. intact /\ h \in Heights
             /\ hash'[h] = hash[h]
  <2>1. ~FreshDb /\ h \in StartBlock .. intact /\ h \in Heights
    BY <1>5, <1>a, <1>b, <1>c, <1>e DEF Heights
  <2> QED BY <1>5, <1>k, <2>1
<1>6. RecordsStand'
  <2> SUFFICES ASSUME NEW h \in StartBlock .. intact'
               PROVE  hash'[h] # NoBlock /\ h \in roots'
    BY DEF RecordsStand
  <2>1. CASE h = top
    BY <2>1, <1>a, <1>e, <1>l, ChainAssumption
  <2>2. CASE h # top
    BY <2>2, <1>5, <1>e DEF RecordsStand
  <2> QED BY <2>1, <2>2
<1>7. StagedAboveTip'
  BY <1>0 DEF StagedAboveTip
<1>8. ASSUME Undamaged' PROVE ListInv'
  <2>0. Undamaged /\ ListInv BY <1>t, <1>8
  <2>1. \A k \in Keys : Ordered(hist[k]) /\ Len(hist[k]) \in Nat /\ Updates[b][k] \in Nat
    BY <1>a, <2>0, ListsAreOrdered, OrderedFacts, ChainAssumption
  <2>2. ASSUME NEW k \in Keys, NEW i \in 1 .. Len(hist'[k])
        PROVE  \/ i \in 1 .. Len(hist[k]) /\ hist'[k][i] = hist[k][i]
               \/ /\ hist'[k][i] = [h |-> top, b |-> b, n |-> i - Len(hist[k])]
                  /\ i - Len(hist[k]) \in 1 .. Updates[b][k]
    <3>1. Len(hist'[k]) = Len(hist[k]) + Updates[b][k] BY <1>8, <1>i
    <3>2. CASE i <= Len(hist[k]) BY <1>8, <3>2, <1>i, <2>1
    <3>3. CASE i > Len(hist[k]) BY <1>8, <3>1, <3>3, <1>i, <2>1
    <3> QED BY <3>2, <3>3, <2>1, <3>1
  <2>3. \A k \in Keys : \A i \in 1 .. Len(hist[k]) :
          hist[k][i].h < top /\ hist[k][i].h \in Heights /\ hist[k][i].h \in Nat
    BY <1>8, <1>i, <2>1, OrderedFacts DEF Entry
  <2>4. SlotsOrdered'
    BY <1>8, <1>i DEF SlotsOrdered, Ordered
  <2>5. SlotsOwned'
    <3> SUFFICES ASSUME NEW k \in Keys, NEW i \in 1 .. Len(hist'[k])
                 PROVE  LET e == hist'[k][i]
                        IN  /\ e.b \in Blocks /\ e.h <= indexed'
                            /\ e.h = Height[e.b] /\ hash'[e.h] = e.b
                            /\ e.n \in 1 .. Updates[e.b][k]
      BY DEF SlotsOwned
    <3>1. CASE i \in 1 .. Len(hist[k]) /\ hist'[k][i] = hist[k][i]
      BY <3>1, <1>a, <1>e, <1>k, <2>0, <2>3 DEF ListInv, SlotsOwned
    <3>2. CASE /\ hist'[k][i] = [h |-> top, b |-> b, n |-> i - Len(hist[k])]
               /\ i - Len(hist[k]) \in 1 .. Updates[b][k]
      BY <3>2, <1>a, <1>e, <1>l DEF top
    <3> QED BY <3>1, <3>2, <2>2
  <2>6. SlotsListed'
    <3> SUFFICES ASSUME NEW k \in Keys, NEW i \in 1 .. Len(hist'[k])
                 PROVE  k \in manifest'[hist'[k][i].h]
      BY DEF SlotsListed
    <3>1. CASE i \in 1 .. Len(hist[k]) /\ hist'[k][i] = hist[k][i]
      BY <3>1, <1>a, <1>k, <2>0, <2>3 DEF ListInv, SlotsListed
    <3>2. CASE /\ hist'[k][i] = [h |-> top, b |-> b, n |-> i - Len(hist[k])]
               /\ i - Len(hist[k]) \in 1 .. Updates[b][k]
      <4>1. Updates[b][k] > 0 BY <3>2, <2>1
      <4>2. manifest'[top] = {x \in Keys : Updates[b][x] > 0}
        BY <4>1, <1>a, <1>e DEF TypeOK
      <4> QED BY <3>2, <4>1, <4>2
    <3> QED BY <3>1, <3>2, <2>2
  <2>7. UpdatesStand'
    <3> SUFFICES ASSUME NEW h \in StartBlock .. intact', NEW k \in Keys,
                        NEW n \in 1 .. Updates[hash'[h]][k]
                 PROVE  \E i \in 1 .. Len(hist'[k]) :
                           hist'[k][i] = [h |-> h, b |-> hash'[h], n |-> n]
      BY DEF UpdatesStand
    <3>1. CASE h = top
      <4>1. Len(hist[k]) + n \in Len(hist[k]) + 1 .. Len(hist'[k])
            /\ Len(hist[k]) + n \in 1 .. Len(hist'[k])
            /\ (Len(hist[k]) + n) - Len(hist[k]) = n
        BY <1>8, <3>1, <1>l, <2>1, <1>i
      <4>2. hist'[k][Len(hist[k]) + n] = [h |-> top, b |-> b, n |-> n]
        BY <1>8, <4>1, <1>i
      <4> QED BY <3>1, <1>l, <4>1, <4>2
    <3>2. CASE h # top
      <4>1. PICK i \in 1 .. Len(hist[k]) : hist[k][i] = [h |-> h, b |-> hash[h], n |-> n]
        BY <3>2, <1>5, <2>0 DEF ListInv, UpdatesStand
      <4>2. i \in 1 .. Len(hist'[k]) BY <1>8, <2>1, <1>i
      <4>3. hist'[k][i] = hist[k][i] BY <1>8, <1>i
      <4> QED BY <3>2, <1>5, <4>1, <4>2, <4>3
    <3> QED BY <3>1, <3>2
  <2>8. RollbackProgress' /\ BatchFits'
    BY <1>0 DEF RollbackProgress, BatchFits
  <2> QED BY <2>4, <2>5, <2>6, <2>7, <2>8 DEF ListInv
<1> QED BY <1>2, <1>3, <1>4, <1>6, <1>7, <1>8

(* The invariant is inductive. *)
LEMMA NextKeepsIInv ==
  ASSUME StartBlock <= RollbackFloor
  PROVE  IInv /\ [Next]_vars => IInv'
<1> SUFFICES ASSUME IInv, [Next]_vars PROVE IInv' OBVIOUS
<1>1. ASSUME NEW b \in Blocks, Execute(b) PROVE IInv' BY <1>1, ExecuteKeeps
<1>2. CASE CommitAtomic BY <1>2, CommitKeeps
<1>3. CASE CommitRejected \/ Crash \/ RollbackWriteFails BY <1>3, ForgetKeeps
<1>4. ASSUME NEW r \in RollbackFloor .. indexed, Rollback(r) PROVE IInv'
  BY <1>4, BeginKeeps, RollbackTargets DEF Rollback
<1>5. ASSUME NEW r \in RollbackFloor .. indexed, Heal(r) PROVE IInv' BY <1>5, HealKeeps
<1>6. CASE ManifestBatch BY <1>6, ManifestBatchKeeps
<1>7. CASE ScanMetadata BY <1>7, ScanMetadataKeeps
<1>8. ASSUME NEW k \in Keys, ScanKey(k) PROVE IInv' BY <1>8, ScanKeyKeeps
<1>9. CASE SetIndexedHeight BY <1>9, SetIndexedHeightKeeps
<1>10. CASE HealPointers BY <1>10, HealPointersKeeps
<1>11. CASE InitStateRoot BY <1>11, InitStateRootKeeps
<1>12. CASE UNCHANGED vars
  BY <1>12 DEF vars, IInv, PointerInv, ListInv, TypeOK, OpInRange, StartStays, SlotsOrdered,
     SlotsOwned, SlotsListed, RollbackProgress, RecordsStand, UpdatesStand, StagedAboveTip,
     BatchFits, FreshDb, Undamaged
<1> QED
  BY <1>1, <1>2, <1>3, <1>4, <1>5, <1>6, <1>7, <1>8, <1>9, <1>10, <1>11, <1>12
  DEF Next

-----------------------------------------------------------------------------
(***************************************************************************)
(* The theorems.  All assume that no caller rolls back below the start     *)
(* block: below it the database looks fresh (no hash record at height 0),  *)
(* and the in-order check then lets any height through.                    *)
(***************************************************************************)

(* Every reachable state satisfies the inductive invariant. *)
THEOREM StoreInvariant ==
  ASSUME StartBlock <= RollbackFloor
  PROVE  Spec => []IInv
<1>1. Init => IInv BY InitIInv
<1>2. IInv /\ [Next]_vars => IInv' BY NextKeepsIInv
<1> QED BY <1>1, <1>2, PTL DEF Spec

(* Type correctness of the store and of the rollback cursor. *)
THEOREM StoreTypeCorrect ==
  ASSUME StartBlock <= RollbackFloor
  PROVE  Spec => []TypeOK
<1>1. IInv => TypeOK BY DEF IInv, PointerInv
<1> QED BY <1>1, StoreInvariant, PTL

(* Lists stay ordered and gap-free, whatever is executed while a rollback  *)
(* runs and wherever it is cut off or a write of it fails, until a batch   *)
(* in doubt is committed: the ground that trimming from the end and the    *)
(* binary search stand on.                                                 *)
THEOREM StoreListsOrdered ==
  ASSUME StartBlock <= RollbackFloor
  PROVE  Spec => []ListsOrdered
<1>1. IInv => ListsOrdered BY DEF IInv, ListInv, ListsOrdered
<1> QED BY <1>1, StoreInvariant, PTL

(* Nothing of an abandoned block survives a rollback: every slot belongs   *)
(* to the block whose hash is recorded at its height.                      *)
THEOREM StoreExact ==
  ASSUME StartBlock <= RollbackFloor
  PROVE  Spec => []NoOrphanedUpdate
<1>1. IInv => NoOrphanedUpdate BY DEF IInv, ListInv, NoOrphanedUpdate
<1> QED BY <1>1, StoreInvariant, PTL

(* Nothing below the lowest interrupted rollback is lost: records and      *)
(* updates of every block from the start block up are there.               *)
THEOREM StoreLosesNothing ==
  ASSUME StartBlock <= RollbackFloor
  PROVE  Spec => []NoLostUpdate
<1>1. IInv => NoLostUpdate BY DEF IInv, PointerInv, ListInv, NoLostUpdate
<1> QED BY <1>1, StoreInvariant, PTL

(* The per-height manifests always cover the lists, so the fast rollback   *)
(* path misses nothing.                                                    *)
THEOREM StoreManifestsCover ==
  ASSUME StartBlock <= RollbackFloor
  PROVE  Spec => []ManifestsCover
<1>1. IInv => ManifestsCover BY DEF IInv, ListInv, ManifestsCover
<1> QED BY <1>1, StoreInvariant, PTL

(* commit_atomic's in-order check rejects every batch made stale by a      *)
(* rollback that ran, to its end or to a crash, while its block was        *)
(* executing; the batch that was in memory when a write of a rollback      *)
(* failed is the only exception.                                           *)
THEOREM StoreRejectsStaleBatch ==
  ASSUME StartBlock <= RollbackFloor
  PROVE  Spec => []StaleBatchRejected
<1>1. IInv => StaleBatchRejected
  BY DEF IInv, ListInv, Undamaged, StaleBatchRejected, BatchFits, Accepts, Idle
<1> QED BY <1>1, StoreInvariant, PTL

(* The indexed height only grows by one block at a time. *)
THEOREM StoreNeverSkips ==
  ASSUME StartBlock <= RollbackFloor
  PROVE  Spec => NeverSkipsABlock
<1> DEFINE Step == indexed' > indexed => indexed' = (IF FreshDb THEN StartBlock ELSE indexed + 1)
<1>1. IInv /\ [Next]_vars => [Step]_vars
  <2> SUFFICES ASSUME IInv, Next, indexed' > indexed
               PROVE  indexed' = (IF FreshDb THEN StartBlock ELSE indexed + 1)
    OBVIOUS
  <2>1. indexed \in Nat /\ op.target \in Nat BY HeightFacts DEF IInv, PointerInv
  <2>2. CASE CommitAtomic
    BY <2>2 DEF CommitAtomic, ApplyBatch, Accepts, IInv, PointerInv, StagedAboveTip
  <2>3. CASE SetIndexedHeight \/ HealPointers
    BY <2>1, <2>3 DEF SetIndexedHeight, HealPointers, IInv, PointerInv, OpInRange
  <2>4. CASE indexed' = indexed BY <2>1, <2>4
  <2> QED
    BY <2>2, <2>3, <2>4 DEF Next, Execute, RunBlock, BuildBatch, CommitRejected, Rollback, Heal, BeginRollback,
       ManifestBatch, ScanMetadata, ScanKey, RollbackWriteFails, Crash, InitStateRoot, store
<1> QED BY <1>1, StoreInvariant, PTL DEF Spec, NeverSkipsABlock

-----------------------------------------------------------------------------
(***************************************************************************)
(* The index store implements ChainLog: a step that lowers intact cuts the *)
(* chain, a commit onto an intact index appends to it, and every other     *)
(* write is invisible.                                                     *)
(***************************************************************************)
(* What the chain depends on, and where it ends. *)
LEMMA ChainFacts ==
  ASSUME IInv
  PROVE  /\ intact \in Nat /\ indexed \in Nat /\ StartBlock \in Nat
         /\ intact <= indexed
         /\ ~FreshDb => StartBlock <= intact
         /\ FreshDb => intact = 0
BY ChainAssumption, StoreAssumption
   DEF IInv, PointerInv, TypeOK, OpInRange, StartStays, Heights

(* A step that moves neither FreshDb nor intact, nor a hash record at or   *)
(* below intact, leaves the chain alone.                                   *)
LEMMA ChainUnchanged ==
  ASSUME FreshDb' <=> FreshDb, intact' = intact,
         ~FreshDb => \A h \in StartBlock .. intact : hash'[h] = hash[h]
  PROVE  LogChain' = LogChain
BY DEF LogChain

(* Lowering intact to r cuts the chain at r. *)
LEMMA LoweringCuts ==
  ASSUME IInv, NEW r \in Nat, StartBlock <= r,
         UNCHANGED <<indexed, hash>>, intact' = Min(intact, r)
  PROVE  Log!Next \/ UNCHANGED LogChain
<1>0. intact \in Nat /\ StartBlock \in Nat /\ (~FreshDb => StartBlock <= intact)
      /\ (FreshDb => intact = 0)
  BY ChainFacts
<1>1. FreshDb' <=> FreshDb BY DEF FreshDb
<1>2. CASE FreshDb
  <2>1. intact' = intact BY <1>0, <1>2 DEF Min
  <2> QED BY <1>1, <1>2, <2>1, ChainUnchanged
<1>3. CASE ~FreshDb /\ intact <= r
  <2>1. intact' = intact BY <1>3 DEF Min
  <2> QED BY <1>1, <2>1, ChainUnchanged
<1>4. CASE ~FreshDb /\ r < intact
  <2>1. intact' = r BY <1>0, <1>4 DEF Min
  <2>2. LogChain = [h \in StartBlock .. intact |-> hash[h]] BY <1>4 DEF LogChain
  <2>3. LogChain' = [h \in StartBlock .. r |-> hash[h]] BY <1>1, <1>4, <2>1 DEF LogChain
  <2>4. r \in DOMAIN LogChain BY <1>0, <1>4, <2>2
  <2>5. LogChain' = [h \in StartBlock .. r |-> LogChain[h]]
    BY <1>0, <1>4, <2>2, <2>3
  <2> QED BY <2>4, <2>5 DEF Log!Next, Log!Cut
<1> QED BY <1>0, <1>2, <1>3, <1>4

(* A commit appends its block, unless a rollback was interrupted below the *)
(* tip before.                                                             *)
LEMMA CommitAppends ==
  ASSUME IInv, CommitAtomic
  PROVE  Log!Next \/ UNCHANGED LogChain
<1> DEFINE b == staged.block
<1> DEFINE top == Height[b]
<1>0. /\ intact \in Nat /\ indexed \in Nat /\ StartBlock \in Nat /\ intact <= indexed
      /\ (~FreshDb => StartBlock <= intact) /\ (FreshDb => intact = 0)
  BY ChainFacts
<1>1. b \in Blocks /\ b # NoBlock
  BY ChainAssumption DEF CommitAtomic, IInv, PointerInv, StagedAboveTip
<1>2. top \in Heights /\ top \in Nat BY <1>1, HeightFacts, ChainAssumption DEF Heights
<1>3. /\ hash' = [hash EXCEPT ![top] = b] /\ indexed' = top
      /\ intact' = IF intact = indexed THEN top ELSE intact
      /\ FreshDb \/ top = indexed + 1
      /\ hash \in [Heights -> Blocks \cup {NoBlock}]
  BY DEF CommitAtomic, ApplyBatch, Accepts, IInv, PointerInv, TypeOK
<1>4. ~FreshDb'
  BY <1>0, <1>1, <1>2, <1>3 DEF FreshDb
<1>5. CASE FreshDb
  <2>1. top = StartBlock BY <1>5 DEF CommitAtomic, IInv, PointerInv, StagedAboveTip
  <2>2. intact' = StartBlock BY <1>0, <1>3, <1>5, <2>1 DEF FreshDb
  <2>3. DOMAIN LogChain = {} BY <1>5 DEF LogChain
  <2>4. LogChain' = [h \in StartBlock .. top |-> hash'[h]]
    BY <1>4, <2>1, <2>2 DEF LogChain
  <2>5. \A h \in StartBlock .. top : h = top BY <1>0, <2>1
  <2>6. hash'[top] = b BY <1>2, <1>3
  <2>7. LogChain' = [h \in StartBlock .. top |-> IF h = top THEN b ELSE LogChain[h]]
    BY <2>4, <2>5, <2>6
  <2> QED BY <1>1, <2>1, <2>3, <2>7 DEF Log!Next, Log!Append
<1>6. CASE ~FreshDb /\ intact = indexed
  <2>1. top = indexed + 1 /\ intact' = top BY <1>3, <1>6
  <2>2. LogChain = [h \in StartBlock .. indexed |-> hash[h]] BY <1>6 DEF LogChain
  <2>3. LogChain' = [h \in StartBlock .. top |-> hash'[h]] BY <1>4, <2>1 DEF LogChain
  <2>4. hash'[top] = b BY <1>2, <1>3
  <2>5. \A h \in StartBlock .. top :
          h # top => h \in StartBlock .. indexed /\ hash'[h] = hash[h]
    <3> SUFFICES ASSUME NEW h \in StartBlock .. top, h # top
                 PROVE  h \in StartBlock .. indexed /\ hash'[h] = hash[h]
      OBVIOUS
    <3>1. h \in StartBlock .. indexed BY <1>0, <1>2, <2>1
    <3>2. h \in Heights
      BY <1>0, <1>2, <2>1, <3>1, ChainAssumption, StoreAssumption DEF Heights
    <3> QED BY <1>3, <3>1, <3>2
  <2>6. LogChain' = [h \in StartBlock .. top |-> IF h = top THEN b ELSE LogChain[h]]
    BY <2>2, <2>3, <2>4, <2>5
  <2>7. top - 1 = indexed BY <1>0, <2>1
  <2>8. DOMAIN LogChain = StartBlock .. top - 1 BY <2>2, <2>7
  <2>9. DOMAIN LogChain # {} BY <1>0, <1>6, <2>2
  <2> QED BY <1>1, <2>6, <2>8, <2>9 DEF Log!Next, Log!Append
<1>7. CASE ~FreshDb /\ intact # indexed
  <2>1. intact' = intact /\ intact < top BY <1>0, <1>3, <1>7
  <2>2. ASSUME NEW h \in StartBlock .. intact PROVE hash'[h] = hash[h]
    <3>1. h # top BY <1>0, <1>2, <2>1, <2>2
    <3>2. h \in Heights
      BY <1>0, <1>2, <2>1, <2>2, ChainAssumption, StoreAssumption DEF Heights
    <3> QED BY <1>3, <3>1, <3>2
  <2> QED BY <1>4, <1>7, <2>1, <2>2, ChainUnchanged
<1> QED BY <1>5, <1>6, <1>7

(* The records a rollback removes are above intact. *)
LEMMA ManifestBatchInvisible ==
  ASSUME IInv, StartBlock <= RollbackFloor, ManifestBatch
  PROVE  UNCHANGED LogChain
<1>0. /\ intact \in Nat /\ StartBlock \in Nat
      /\ (~FreshDb => StartBlock <= intact) /\ (FreshDb => intact = 0)
  BY ChainFacts
<1>1. /\ hash' = [hash EXCEPT ![op.at] = NoBlock] /\ indexed' = indexed /\ intact' = intact
      /\ op.at > op.target /\ intact <= op.target
      /\ op.at \in Heights /\ op.target \in Heights
      /\ hash \in [Heights -> Blocks \cup {NoBlock}]
  BY DEF ManifestBatch, history, IInv, PointerInv, OpInRange, TypeOK
<1>2. op.at \in Nat /\ op.target \in Nat BY <1>1, ChainAssumption DEF Heights
<1>3. op.at # 0 BY <1>1, <1>2
<1>4. 0 \in Heights BY ChainAssumption DEF Heights
<1>5. FreshDb' <=> FreshDb BY <1>1, <1>3, <1>4 DEF FreshDb
<1>6. ASSUME NEW h \in StartBlock .. intact PROVE hash'[h] = hash[h]
  <2>1. h # op.at BY <1>0, <1>1, <1>2, <1>6
  <2>2. h \in Heights
    BY <1>0, <1>1, <1>2, <1>6, ChainAssumption, StoreAssumption DEF Heights
  <2> QED BY <1>1, <2>1, <2>2
<1> QED BY <1>1, <1>5, <1>6, ChainUnchanged

(* Lowering the pointers does not make the database look fresh: the target *)
(* is not below the start block, whose record is there.                    *)
LEMMA PointersInvisible ==
  ASSUME IInv, StartBlock <= RollbackFloor, SetIndexedHeight \/ HealPointers
  PROVE  UNCHANGED LogChain
<1>0. /\ intact \in Nat /\ StartBlock \in Nat /\ indexed \in Nat /\ intact <= indexed
      /\ (~FreshDb => StartBlock <= intact) /\ (FreshDb => intact = 0)
  BY ChainFacts
<1>1. /\ hash' = hash /\ intact' = intact /\ indexed' = op.target
      /\ op.target <= indexed /\ RollbackFloor <= op.target /\ op.target \in Nat
  BY ChainAssumption DEF SetIndexedHeight, HealPointers, history, IInv, PointerInv, OpInRange, TypeOK, Heights
<1>2. RollbackFloor \in Nat BY StoreAssumption, ChainAssumption DEF Heights
<1>3. FreshDb' <=> FreshDb
  <2>1. CASE FreshDb
    <3>1. indexed = 0 /\ op.target = 0 BY <1>1, <2>1 DEF FreshDb
    <3> QED BY <1>1, <2>1, <3>1 DEF FreshDb
  <2>2. CASE ~FreshDb /\ op.target = 0
    <3>1. StartBlock = 0 BY <1>0, <1>1, <1>2, <2>2
    <3>2. 0 \in StartBlock .. intact BY <1>0, <3>1
    <3>3. hash[0] # NoBlock BY <2>2, <3>2 DEF IInv, PointerInv, RecordsStand
    <3> QED BY <1>1, <2>2, <3>3 DEF FreshDb
  <2>3. CASE ~FreshDb /\ op.target # 0
    BY <1>1, <2>3 DEF FreshDb
  <2> QED BY <2>1, <2>2, <2>3
<1> QED BY <1>1, <1>3, ChainUnchanged

(* Every step of the store is a step of the chain, or none. *)
LEMMA StoreStepsChain ==
  ASSUME StartBlock <= RollbackFloor
  PROVE  IInv /\ [Next]_vars => [Log!Next]_LogChain
<1> SUFFICES ASSUME IInv, [Next]_vars PROVE Log!Next \/ UNCHANGED LogChain OBVIOUS
<1>1. CASE CommitAtomic BY <1>1, CommitAppends
<1>2. ASSUME NEW r \in RollbackFloor .. indexed, Rollback(r) \/ Heal(r)
      PROVE  Log!Next \/ UNCHANGED LogChain
  <2>1. r \in Nat /\ StartBlock <= r
    BY <1>2, ChainFacts, StoreAssumption, ChainAssumption DEF Heights
  <2>2. CASE \E heal \in BOOLEAN : BeginRollback(r, heal)
    BY <2>1, <2>2, LoweringCuts DEF BeginRollback, store
  <2>3. CASE UNCHANGED <<store, intact>>
    BY <2>3 DEF store, LogChain, FreshDb
  <2> QED BY <1>2, <2>2, <2>3 DEF Rollback, Heal, history
<1>3. CASE ManifestBatch BY <1>3, ManifestBatchInvisible
<1>4. CASE SetIndexedHeight \/ HealPointers BY <1>4, PointersInvisible
<1>5. CASE UNCHANGED <<indexed, hash, intact>> BY <1>5 DEF LogChain, FreshDb
<1> QED
  BY <1>1, <1>2, <1>3, <1>4, <1>5
  DEF Next, vars, store, InitStateRoot, Execute, RunBlock, CommitRejected, ScanMetadata,
      ScanKey, RollbackWriteFails, Crash, history

-----------------------------------------------------------------------------
(* The store, with every crash and every write of a rollback, implements a *)
(* chain that grows by one block and is cut in one step, provided that no  *)
(* caller rolls back below the start block.                                *)
THEOREM StoreImplementsChainLog ==
  ASSUME StartBlock <= RollbackFloor
  PROVE  Spec => LogSpec
<1>1. Init => Log!Init
  <2> SUFFICES ASSUME Init PROVE LogChain = Log!Empty BY DEF Log!Init
  <2>1. FreshDb BY ChainAssumption DEF Init, FreshDb, Heights
  <2> QED BY <2>1 DEF LogChain, Log!Empty
<1>2. IInv /\ [Next]_vars => [Log!Next]_LogChain BY StoreStepsChain
<1> QED BY <1>1, <1>2, StoreInvariant, PTL DEF Spec, LogSpec, Log!Spec

-----------------------------------------------------------------------------
(***************************************************************************)
(* Historical reads, slot by slot.                                         *)
(***************************************************************************)

(* What a step of the store does to a list, at or below the last intact    *)
(* height: nothing.  What is new above it was written by a later block.    *)
LEMMA ListStep ==
  ASSUME IInv, Next, Undamaged', ~FreshDb, NEW k \in Keys
  PROVE  /\ hist[k] \in Seq(Entry) /\ \A i \in 1 .. Len(hist[k]) : hist[k][i].h \in Nat
         /\ \A i \in 1 .. Len(hist[k]) :
              hist[k][i].h <= intact => i \in 1 .. Len(hist'[k]) /\ hist'[k][i] = hist[k][i]
         /\ \A i \in 1 .. Len(hist'[k]) :
              IF i \in 1 .. Len(hist[k]) THEN hist'[k][i] = hist[k][i] ELSE hist'[k][i].h > intact
<1> DEFINE Goal ==
             /\ \A i \in 1 .. Len(hist[k]) :
                  hist[k][i].h <= intact => i \in 1 .. Len(hist'[k]) /\ hist'[k][i] = hist[k][i]
             /\ \A i \in 1 .. Len(hist'[k]) :
                  IF i \in 1 .. Len(hist[k]) THEN hist'[k][i] = hist[k][i] ELSE hist'[k][i].h > intact
<1>1. Undamaged
  BY DEF Next, Undamaged, InitStateRoot, Execute, RunBlock, CommitAtomic, CommitRejected, Forget,
         Rollback, Heal, BeginRollback, ManifestBatch, ScanMetadata, ScanKey, SetIndexedHeight,
         HealPointers, RollbackWriteFails, Crash, history, IInv, PointerInv, TypeOK
<1>2. Ordered(hist[k])
  BY <1>1, ListsAreOrdered
<1>3. /\ hist[k] \in Seq(Entry) /\ Len(hist[k]) \in Nat
      /\ \A i \in 1 .. Len(hist[k]) : hist[k][i].h \in Nat
  BY <1>2, OrderedFacts
<1>4. /\ intact \in Nat /\ indexed \in Nat /\ intact <= indexed /\ op.target \in Nat
      /\ op.target \in Heights
      /\ op.pc # "idle" => intact <= op.target
  BY HeightFacts DEF IInv, PointerInv, OpInRange, TypeOK
<1>5. CASE hist'[k] = hist[k]
  <2>1. Goal
    BY <1>5
  <2> QED
    BY <1>3, <2>1
<1>6. CASE op.pc # "idle" /\ Cut(hist[k], op.target, hist'[k])
  <2>1. Len(hist'[k]) \in Nat
    BY <1>6, OrderedFacts DEF Cut
  <2>2. ASSUME NEW i \in 1 .. Len(hist[k]), hist[k][i].h <= intact
        PROVE  i \in 1 .. Len(hist'[k]) /\ hist'[k][i] = hist[k][i]
    <3>1. hist[k][i].h <= op.target
      BY <1>3, <1>4, <1>6, <2>2
    <3>2. i <= Len(hist'[k]) /\ i \in 1 .. Len(hist'[k])
      BY <1>3, <1>6, <2>1, <3>1 DEF Cut
    <3> QED
      BY <1>6, <3>2 DEF Cut
  <2>3. ASSUME NEW i \in 1 .. Len(hist'[k]) PROVE i \in 1 .. Len(hist[k]) /\ hist'[k][i] = hist[k][i]
    BY <1>3, <1>6, <2>1 DEF Cut
  <2> QED
    BY <1>3, <2>2, <2>3
<1>7. CASE CommitAtomic
  <2> DEFINE top == Height[staged.block]
  <2>1. doubt = "none"
    BY <1>7 DEF CommitAtomic, Undamaged, IInv, PointerInv, TypeOK
  <2>2. /\ Ordered(hist'[k])
        /\ \A i \in 1 .. Len(hist[k]) : hist[k][i].h < top /\ hist'[k][i] = hist[k][i]
        /\ \A i \in Len(hist[k]) + 1 .. Len(hist'[k]) : hist'[k][i].h = top
        /\ Len(hist[k]) <= Len(hist'[k])
    <3>1. staged.block \in Blocks
      BY <1>7 DEF CommitAtomic, IInv, PointerInv, StagedAboveTip
    <3>2. Updates[staged.block][k] \in Nat
      BY <3>1, ChainAssumption
    <3>3. /\ Ordered(hist'[k]) /\ Len(hist'[k]) = Len(hist[k]) + Updates[staged.block][k]
          /\ \A i \in 1 .. Len(hist[k]) :
               hist[k][i].h < top /\ hist'[k][i] = hist[k][i]
          /\ \A i \in Len(hist[k]) + 1 .. Len(hist'[k]) :
               hist'[k][i] = [h |-> top, b |-> staged.block, n |-> i - Len(hist[k])]
      BY <1>7, <2>1, CommitLists
    <3> HIDE DEF top
    <3>4. ASSUME NEW i \in Len(hist[k]) + 1 .. Len(hist'[k]) PROVE hist'[k][i].h = top
      <4>1. hist'[k][i] = [h |-> top, b |-> staged.block, n |-> i - Len(hist[k])]
        BY <3>3
      <4> QED
        BY <4>1
    <3> QED
      BY <1>3, <3>2, <3>3, <3>4
  <2>3. top = indexed + 1
    BY <1>7 DEF CommitAtomic, Accepts
  <2>4. Len(hist'[k]) \in Nat
    BY <2>2, OrderedFacts
  <2> HIDE DEF top
  <2> QED
    BY <1>3, <1>4, <2>2, <2>3, <2>4
<1>8. ASSUME ManifestBatch \/ ScanKey(k) PROVE hist'[k] = hist[k] \/ Cut(hist[k], op.target, hist'[k])
  <2>1. Cut(hist[k], op.target, Trim(hist[k], op.target))
        /\ Cut(hist[k], op.target, Survivors(hist[k], op.target))
    BY <1>2, <1>4, RollbackCuts
  <2> QED
    BY <1>1, <1>8, <2>1 DEF ManifestBatch, ScanKey, IInv, PointerInv, TypeOK
<1>9. ASSUME NEW x \in Keys, x # k, ScanKey(x) PROVE hist'[k] = hist[k]
  BY <1>1, <1>9 DEF ScanKey, IInv, PointerInv, TypeOK
<1> QED
  BY <1>5, <1>6, <1>7, <1>8, <1>9
  DEF Next, store, InitStateRoot, Execute, RunBlock, CommitRejected, Rollback, Heal, BeginRollback,
      ManifestBatch, ScanMetadata, ScanKey, SetIndexedHeight, HealPointers, RollbackWriteFails, Crash

(* One probe narrows the window. *)
LEMMA NarrowedFacts ==
  ASSUME NEW B, NEW s \in [left : Nat, right : Nat, best : B], s.left < s.right, NEW x \in B
  PROVE  /\ Probed(s) \in s.left + 1 .. s.right
         /\ LET n == [s EXCEPT !.left = Probed(s), !.best = x]
            IN  /\ n \in [left : Nat, right : Nat, best : B]
                /\ n.left = Probed(s) /\ n.right = s.right /\ n.best = x
         /\ LET n == [s EXCEPT !.right = Probed(s) - 1]
            IN  /\ n \in [left : Nat, right : Nat, best : B]
                /\ n.left = s.left /\ n.right = Probed(s) - 1 /\ n.best = s.best
<1>1. s.left \in Nat /\ s.right \in Nat
  OBVIOUS
<1>2. Probed(s) \in s.left + 1 .. s.right
  BY <1>1 DEF Probed
<1>3. Probed(s) \in Nat /\ Probed(s) - 1 \in Nat
  BY <1>1, <1>2
<1> QED
  BY <1>1, <1>2, <1>3

(* A lookup that begins has all of the list before it. *)
LEMMA BeginKeepsLookup ==
  ASSUME IInv, Undamaged, NEW k \in Keys, NEW h \in Heights, BeginLookup(k, h)
  PROVE  LookupInv'
<1> DEFINE s == [left |-> 0, right |-> Len(hist[k]), best |-> Hole]
<1>1. reader' = [pc |-> "search", key |-> k, h |-> h, s |-> s, safe |-> h <= SafeTop, cut |-> FALSE]
      /\ hist' = hist /\ SafeTop' = SafeTop
  BY DEF BeginLookup, StartSearch, vars, SafeTop, FreshDb
<1>2. Len(hist[k]) \in Nat /\ Hole \in Entry
  BY ChainAssumption DEF IInv, PointerInv, TypeOK, Hole, Entry, Heights
<1>3. /\ s \in [left : Nat, right : Nat, best : Entry]
      /\ s.left = 0 /\ s.right = Len(hist[k]) /\ s.best = Hole
  BY <1>2
<1> HIDE DEF s
<1>4. /\ reader' \in Lookups
      /\ reader'.key = k /\ reader'.h = h /\ reader'.s = s /\ reader'.pc = "search"
      /\ reader'.safe = (h <= SafeTop) /\ reader'.cut = FALSE
  BY <1>1, <1>3 DEF Lookups
<1>5. hist'[reader'.key] = hist[k] /\ s.left <= s.right
  BY <1>1, <1>2, <1>3, <1>4
<1>6. \A i \in 1 .. Len(hist[k]) : ~(i <= s.left) /\ ~(i > s.right)
  BY <1>2, <1>3
<1>7. s.left <= Len(hist[k]) /\ s.right <= Len(hist[k])
  BY <1>2, <1>3
<1>8. reader'.safe => reader'.h <= SafeTop'
  BY <1>1, <1>4
<1> QED
  BY <1>3, <1>4, <1>5, <1>6, <1>7, <1>8 DEF LookupInv

(* A slot that is looked at tells on which side of it the search goes on;  *)
(* it can only be missing when the list has become shorter.                *)
LEMMA ProbeKeepsLookup ==
  ASSUME IInv, Undamaged, LookupInv, ProbeSlot
  PROVE  LookupInv'
<1> DEFINE s    == reader.s
           l    == hist[reader.key]
           i    == Probed(s)
           slot == SlotRead
<1>1. reader.pc = "search" /\ ~(s.left >= s.right) /\ hist' = hist /\ SafeTop' = SafeTop
  BY DEF ProbeSlot, Searching, SearchEnded, vars, SafeTop, FreshDb
<1>2. reader # NotReading
  BY <1>1 DEF NotReading
<1>3. /\ reader \in Lookups /\ s \in [left : Nat, right : Nat, best : Entry]
      /\ s.left \in Nat /\ s.right \in Nat /\ s.left < s.right
      /\ reader.key \in Keys /\ reader.h \in Nat
      /\ ~reader.cut => s.right <= Len(l)
      /\ reader.safe =>
           /\ reader.h <= SafeTop /\ s.left <= Len(l)
           /\ s.best = IF s.left = 0 THEN Hole ELSE l[s.left]
           /\ \A j \in 1 .. Len(l) : /\ j <= s.left => l[j].h <= reader.h
                                     /\ j > s.right => l[j].h > reader.h
  BY <1>1, <1>2, ChainAssumption DEF LookupInv, Lookups, Heights
<1>4. Ordered(l) /\ Len(l) \in Nat
      /\ \A j \in 1 .. Len(l) : l[j] \in Entry /\ l[j].h \in Nat /\ l[j] # Hole
  BY <1>3, ListsAreOrdered, OrderedFacts
<1>5. slot = IF i <= Len(l) THEN l[i] ELSE Hole
  BY DEF SlotRead
<1>6. i \in s.left + 1 .. s.right
  <2>1. Hole \in Entry
    BY ChainAssumption DEF Hole, Entry, Heights
  <2> QED
    BY <1>3, <2>1, NarrowedFacts
<1>7. reader' = IF slot = Hole THEN [reader EXCEPT !.pc = "error"]
                ELSE [reader EXCEPT !.s = Narrowed(s, slot, Visible(slot, reader.h))]
  BY DEF ProbeSlot
<1> HIDE DEF s, l, i, slot
<1>8. CASE slot = Hole
  <2>1. reader.cut
    <3>1. ~(i <= Len(l))
      BY <1>3, <1>4, <1>5, <1>6, <1>8
    <3> QED
      BY <1>3, <1>4, <1>6, <3>1
  <2>2. /\ reader' \in Lookups /\ reader'.key = reader.key /\ reader'.h = reader.h
        /\ reader'.s = s /\ reader'.safe = reader.safe /\ reader'.cut = reader.cut
    BY <1>3, <1>7, <1>8 DEF Lookups, s
  <2>3. hist'[reader'.key] = l
    BY <1>1, <2>2 DEF l
  <2> QED
    BY <1>1, <1>3, <2>1, <2>2, <2>3 DEF LookupInv
<1>9. CASE slot # Hole
  <2> DEFINE next == Narrowed(s, slot, Visible(slot, reader.h))
  <2>1. i \in 1 .. Len(l) /\ slot = l[i] /\ slot \in Entry /\ slot.h \in Nat
    <3>1. i <= Len(l) /\ i \in Nat /\ i >= 1
      BY <1>3, <1>5, <1>6, <1>9
    <3>2. i \in 1 .. Len(l)
      BY <1>4, <3>1
    <3> QED
      BY <1>4, <1>5, <3>1, <3>2
  <2>2. /\ next \in [left : Nat, right : Nat, best : Entry]
        /\ IF slot.h <= reader.h
           THEN next.left = i /\ next.right = s.right /\ next.best = slot
           ELSE next.left = s.left /\ next.right = i - 1 /\ next.best = s.best
    <3> DEFINE upper == [s EXCEPT !.left = Probed(s), !.best = slot]
               lower == [s EXCEPT !.right = Probed(s) - 1]
    <3>1. /\ upper \in [left : Nat, right : Nat, best : Entry]
          /\ upper.left = i /\ upper.right = s.right /\ upper.best = slot
          /\ lower \in [left : Nat, right : Nat, best : Entry]
          /\ lower.left = s.left /\ lower.right = i - 1 /\ lower.best = s.best
      BY <1>3, <2>1, NarrowedFacts DEF i
    <3>2. next = IF slot.h <= reader.h THEN upper ELSE lower
      BY Zenon DEF Narrowed, Visible
    <3> HIDE DEF upper, lower, next
    <3> QED
      BY <3>1, <3>2
  <2>3. /\ reader' = [reader EXCEPT !.s = next]
        /\ reader' \in Lookups /\ reader'.key = reader.key /\ reader'.h = reader.h
        /\ reader'.s = next /\ reader'.safe = reader.safe /\ reader'.cut = reader.cut
        /\ reader'.pc = "search"
    <3>1. reader' = [reader EXCEPT !.s = next]
      BY <1>7, <1>9
    <3> HIDE DEF next
    <3> QED
      BY <1>1, <1>3, <2>2, <3>1 DEF Lookups
  <2> HIDE DEF next
  <2>4. \A j \in 1 .. Len(l) : /\ j < i => l[j].h <= slot.h
                               /\ j > i => l[j].h >= slot.h
    BY <1>4, <2>1 DEF Ordered, Before
  <2>5. ASSUME NEW j \in 1 .. Len(l)
        PROVE  /\ slot.h <= reader.h /\ j <= i => l[j].h <= reader.h
               /\ ~(slot.h <= reader.h) /\ j >= i => l[j].h > reader.h
    BY <1>3, <1>4, <2>1, <2>4
  <2>6. /\ next.left <= next.right
        /\ ~reader.cut => next.right <= Len(l)
        /\ reader.safe =>
             /\ reader.h <= SafeTop /\ next.left <= Len(l)
             /\ next.best = IF next.left = 0 THEN Hole ELSE l[next.left]
             /\ \A j \in 1 .. Len(l) : /\ j <= next.left => l[j].h <= reader.h
                                       /\ j > next.right => l[j].h > reader.h
    BY <1>3, <1>4, <1>6, <2>1, <2>2, <2>5
  <2>7. hist'[reader'.key] = l
    BY <1>1, <2>3 DEF l
  <2> QED
    BY <1>1, <2>3, <2>6, <2>7 DEF LookupInv
<1> QED
  BY <1>8, <1>9

(* A step of the store leaves the slots below the window and what is known *)
(* of those above it.                                                      *)
LEMMA StoreKeepsLookup ==
  ASSUME IInv, IInv', Undamaged, Undamaged', LookupInv, StoreMoves
  PROVE  LookupInv'
<1>1. CASE reader = NotReading
  BY <1>1 DEF StoreMoves, LookupInv
<1>2. CASE reader # NotReading
  <2> DEFINE s == reader.s
             l == hist[reader.key]
             t == hist'[reader.key]
  <2>1. /\ reader \in Lookups /\ s.left \in Nat /\ s.right \in Nat /\ s.left <= s.right
        /\ reader.key \in Keys /\ reader.h \in Nat
        /\ ~reader.cut => s.right <= Len(l)
        /\ reader.pc = "error" => reader.cut
        /\ reader.safe =>
             /\ reader.h <= SafeTop /\ s.left <= Len(l)
             /\ s.best = IF s.left = 0 THEN Hole ELSE l[s.left]
             /\ \A i \in 1 .. Len(l) : /\ i <= s.left => l[i].h <= reader.h
                                       /\ i > s.right => l[i].h > reader.h
    BY <1>2, ChainAssumption DEF LookupInv, Lookups, Heights
  <2>2. /\ reader' = [reader EXCEPT !.safe = reader.safe /\ reader.h <= SafeTop',
                                    !.cut = reader.cut \/ Len(t) < Len(l)]
        /\ Next
    BY <1>2 DEF StoreMoves
  <2>3. /\ reader' \in Lookups /\ reader'.key = reader.key /\ reader'.h = reader.h
        /\ reader'.s = s /\ reader'.pc = reader.pc
        /\ reader'.safe = (reader.safe /\ reader.h <= SafeTop')
        /\ reader'.cut = (reader.cut \/ Len(t) < Len(l))
    BY <2>1, <2>2 DEF Lookups
  <2>4. /\ l \in Seq(Entry) /\ t \in Seq(Entry) /\ Len(l) \in Nat /\ Len(t) \in Nat
        /\ \A i \in 1 .. Len(t) : t[i].h \in Nat
    <3>1. l \in Seq(Entry) /\ t \in Seq(Entry)
      BY <2>1 DEF IInv, PointerInv, TypeOK
    <3> HIDE DEF l, t
    <3>2. ASSUME NEW i \in 1 .. Len(t) PROVE t[i].h \in Nat
      <4>1. t[i] \in Entry
        BY <3>1, <3>2
      <4> QED
        BY <4>1, ChainAssumption DEF Entry, Heights
    <3> QED
      BY <3>1, <3>2
  <2>5. ASSUME reader'.safe
        PROVE  /\ reader.h <= SafeTop' /\ s.left <= Len(t)
               /\ s.best = IF s.left = 0 THEN Hole ELSE t[s.left]
               /\ \A i \in 1 .. Len(t) : /\ i <= s.left => t[i].h <= reader.h
                                         /\ i > s.right => t[i].h > reader.h
    <3>1. reader.safe /\ reader.h <= SafeTop' /\ reader.h <= SafeTop
      BY <2>1, <2>3, <2>5
    <3>2. ~FreshDb /\ reader.h <= intact /\ intact \in Nat
      BY <2>1, <3>1, HeightFacts DEF SafeTop, IInv, PointerInv
    <3>3. /\ \A i \in 1 .. Len(l) : l[i].h \in Nat
          /\ \A i \in 1 .. Len(l) : l[i].h <= intact => i \in 1 .. Len(t) /\ t[i] = l[i]
          /\ \A i \in 1 .. Len(t) : IF i \in 1 .. Len(l) THEN t[i] = l[i] ELSE t[i].h > intact
      BY <2>1, <2>2, <3>2, ListStep
    <3> HIDE DEF s, l, t
    <3>4. ASSUME s.left # 0 PROVE s.left \in 1 .. Len(t) /\ t[s.left] = l[s.left]
      <4>1. s.left \in 1 .. Len(l) /\ l[s.left].h <= reader.h /\ l[s.left].h \in Nat
        BY <2>1, <2>4, <3>1, <3>3, <3>4
      <4>2. l[s.left].h <= intact
        BY <2>1, <3>2, <4>1
      <4> QED
        BY <3>3, <4>1, <4>2
    <3>5. ASSUME NEW i \in 1 .. Len(t)
          PROVE  /\ i <= s.left => t[i].h <= reader.h
                 /\ i > s.right => t[i].h > reader.h
      <4>1. CASE i \in 1 .. Len(l)
        BY <2>1, <3>1, <3>3, <4>1
      <4>2. CASE i \notin 1 .. Len(l)
        <5>1. t[i].h > intact /\ i > s.left
          BY <2>1, <2>4, <3>1, <3>3, <4>2
        <5>2. t[i].h \in Nat
          BY <2>4, <3>5
        <5> QED
          BY <2>1, <3>2, <5>1, <5>2
      <4> QED
        BY <4>1, <4>2
    <3> QED
      BY <2>1, <2>4, <3>1, <3>4, <3>5
  <2>7. hist'[reader'.key] = t
    BY <2>3
  <2> HIDE DEF s, l, t
  <2>6. ASSUME ~reader'.cut PROVE s.right <= Len(t)
    <3>1. ~(reader.cut \/ Len(t) < Len(l))
      BY <2>3, <2>6, Zenon
    <3>2. s.right <= Len(l)
      BY <2>1, <3>1
    <3> QED
      BY <2>1, <2>4, <3>1, <3>2
  <2> QED
    BY <2>1, <2>3, <2>5, <2>6, <2>7 DEF LookupInv
<1> QED
  BY <1>1, <1>2

(* No hash record below the start block: no block there is ever committed. *)
NothingBelowStart == \A h \in Heights : h < StartBlock => hash[h] = NoBlock

LEMMA InitNothingBelow == Init => NothingBelowStart
BY DEF Init, NothingBelowStart

LEMMA NextKeepsNothingBelow ==
  ASSUME IInv, NothingBelowStart, [Next]_vars
  PROVE  NothingBelowStart'
<1>1. hash \in [Heights -> Blocks \cup {NoBlock}] /\ StartBlock \in Nat
  BY StoreAssumption, ChainAssumption DEF IInv, PointerInv, TypeOK, Heights
<1>2. CASE CommitAtomic
  <2>1. Height[staged.block] \in Nat /\ StartBlock <= Height[staged.block]
    BY <1>2, HeightFacts, ChainAssumption
       DEF CommitAtomic, Accepts, IInv, PointerInv, StagedAboveTip, StartStays, OpInRange, Heights
  <2>2. hash' = [hash EXCEPT ![Height[staged.block]] = staged.block]
    BY <1>2 DEF CommitAtomic, ApplyBatch
  <2>3. ASSUME NEW h \in Heights, h < StartBlock PROVE hash'[h] = hash[h]
    BY <1>1, <2>1, <2>2, <2>3 DEF Heights
  <2> QED
    BY <2>3 DEF NothingBelowStart
<1>3. CASE ManifestBatch
  <2>1. hash' = [hash EXCEPT ![op.at] = NoBlock]
    BY <1>3 DEF ManifestBatch
  <2> QED
    BY <1>1, <2>1 DEF NothingBelowStart
<1>4. CASE hash' = hash
  BY <1>4 DEF NothingBelowStart
<1> QED
  BY <1>2, <1>3, <1>4
     DEF Next, vars, store, InitStateRoot, Execute, RunBlock, CommitRejected, Rollback, Heal,
         BeginRollback, ScanMetadata, ScanKey, SetIndexedHeight, HealPointers, RollbackWriteFails, Crash


(* The lists tell what the recorded chain wrote: at a height that is safe, *)
(* the prefix at or below it ends with the last update made there.         *)
LEMMA ReadsFollow ==
  ASSUME IInv, Undamaged, NothingBelowStart, NEW k \in Keys, NEW h \in Heights, h <= SafeTop,
         NEW n, PrefixAt(hist[k], h, n)
  PROVE  LastUpdate(k, h) = IF n = 0 THEN Hole ELSE hist[k][n]
<1> USE DEF IInv, PointerInv, ListInv
<1> DEFINE s       == hist[k]
           writers == {x \in StartBlock .. h : Updates[hash[x]][k] > 0}
           last    == CHOOSE x \in writers : \A y \in writers : y <= x
<1>0. /\ StartBlock \in Nat /\ intact \in Nat /\ indexed \in Nat /\ h \in Nat /\ intact <= indexed
      /\ Heights \subseteq Nat /\ intact \in Heights
  BY HeightFacts, StoreAssumption, ChainAssumption DEF TypeOK, OpInRange, Heights
<1>1. ~FreshDb /\ h <= intact
  BY <1>0 DEF SafeTop
<1>2. Ordered(s) /\ Len(s) \in Nat
  BY ListsAreOrdered, OrderedFacts
<1>3. n \in 0 .. Len(s) /\ PrefixAt(s, h, n)
  BY DEF PrefixAt
<1>4. LastUpdate(k, h) = IF writers = {} THEN Hole
                         ELSE [h |-> last, b |-> hash[last], n |-> Updates[hash[last]][k]]
  BY Zenon DEF LastUpdate
<1>5. ASSUME NEW i \in 1 .. Len(s)
      PROVE  /\ s[i].h \in Heights /\ StartBlock <= s[i].h /\ s[i].b = hash[s[i].h]
             /\ s[i].n \in 1 .. Updates[s[i].b][k] /\ Updates[s[i].b][k] \in Nat
  <2>1. s[i] \in Entry /\ s[i].h \in Heights
    BY <1>2, OrderedFacts DEF Entry
  <2>2. s[i].b \in Blocks /\ hash[s[i].h] = s[i].b /\ s[i].n \in 1 .. Updates[s[i].b][k]
    BY DEF SlotsOwned
  <2>3. ~ (s[i].h < StartBlock)
    BY <2>1, <2>2, ChainAssumption DEF NothingBelowStart
  <2>4. StartBlock <= s[i].h
    <3>1. s[i].h \in Nat
      BY <1>0, <2>1
    <3> QED
      BY <1>0, <2>3, <3>1
  <2>5. Updates[s[i].b][k] \in Nat
    BY <2>2, ChainAssumption
  <2> QED
    BY <2>1, <2>2, <2>4, <2>5
<1>6. ASSUME NEW i \in 1 .. n PROVE s[i].h \in writers
  <2>1. i \in 1 .. Len(s) /\ s[i].h <= h
    BY <1>2, <1>3 DEF PrefixAt
  <2>2. s[i].h \in Nat /\ StartBlock <= s[i].h /\ s[i].h <= h
    BY <1>0, <1>5, <2>1
  <2>3. Updates[s[i].b][k] > 0 /\ s[i].b = hash[s[i].h]
    BY <1>5, <2>1
  <2> QED
    BY <1>0, <2>2, <2>3
<1> HIDE DEF s
<1>7. CASE writers = {}
  <2>1. n = 0
    <3>1. n # 0 => 1 \in 1 .. n
      BY <1>2, <1>3
    <3> QED
      BY <1>6, <1>7, <3>1
  <2> QED
    BY <1>4, <1>7, <2>1, Zenon
<1>8. CASE writers # {}
  <2>1. last \in writers /\ \A y \in writers : y <= last
    <3>1. \E x \in writers : \A y \in writers : y <= x
      <4>1. writers \subseteq 0 .. h
        BY <1>0
      <4> HIDE DEF writers
      <4> QED
        BY <1>0, <1>8, <4>1, GreatestExists
    <3> HIDE DEF writers
    <3> QED
      BY <3>1
  <2>2. last \in StartBlock .. intact /\ last <= h /\ last \in Nat /\ last \in Heights
    <3>1. last \in StartBlock .. h
      BY <2>1
    <3> HIDE DEF last
    <3> QED
      BY <1>0, <1>1, <3>1, ChainAssumption DEF Heights
  <2> HIDE DEF last
  <2> DEFINE m == Updates[hash[last]][k]
  <2>3. m \in Nat /\ m > 0
    <3>1. hash[last] \in Blocks
      BY <1>1, <2>2 DEF RecordsStand, TypeOK
    <3> QED
      BY <2>1, <3>1, ChainAssumption
  <2>4. PICK p \in 1 .. Len(s) : s[p] = [h |-> last, b |-> hash[last], n |-> m]
    <3>1. m \in 1 .. m
      BY <2>3
    <3> QED
      BY <1>1, <2>2, <3>1 DEF s, UpdatesStand
  <2>5. p \in 1 .. n
    <3>1. p \notin n + 1 .. Len(s)
      BY <1>0, <1>3, <2>2, <2>4 DEF PrefixAt
    <3> QED
      BY <1>2, <1>3, <2>4, <3>1
  <2>6. p = n
    <3> SUFFICES ASSUME p # n PROVE FALSE
      OBVIOUS
    <3>1. n \in 1 .. n /\ n \in 1 .. Len(s) /\ p < n
      BY <1>2, <1>3, <2>5
    <3>2. Before(s[p], s[n])
      BY <1>2, <2>4, <3>1 DEF Ordered
    <3>3. s[n].h <= last /\ s[n].h \in Nat
      BY <1>0, <1>5, <1>6, <2>1, <3>1
    <3>4. s[n].h = last /\ m < s[n].n
      BY <2>2, <2>4, <3>2, <3>3 DEF Before
    <3>5. s[n].n \in 1 .. m
      BY <1>5, <3>1, <3>4
    <3> QED
      BY <2>3, <3>4, <3>5
  <2>7. n # 0 /\ s[n] = [h |-> last, b |-> hash[last], n |-> Updates[hash[last]][k]]
    BY <1>3, <2>4, <2>5, <2>6
  <2> USE DEF last
  <2> QED
    BY <1>4, <1>8, <2>7, Zenon DEF s
<1> QED
  BY <1>7, <1>8

(* Every step of the store or of the lookup keeps the invariant. *)
LEMMA ReaderKeepsRInv ==
  ASSUME StartBlock <= RollbackFloor, RInv, [ReaderNext]_readerVars
  PROVE  RInv'
<1>1. CASE UNCHANGED readerVars
  BY <1>1 DEF RInv, readerVars, vars, store, history, IInv, PointerInv, ListInv, TypeOK, OpInRange,
              StartStays, RecordsStand, StagedAboveTip, SlotsOrdered, SlotsOwned, SlotsListed,
              UpdatesStand, RollbackProgress, BatchFits, Undamaged, LookupInv, FreshDb, SafeTop,
              ManifestsExist, Before
<1>2. CASE StoreMoves
  <2>1. IInv'
    BY <1>2, NextKeepsIInv DEF RInv, StoreMoves
  <2>2. ASSUME Undamaged' PROVE LookupInv'
    <3>1. Undamaged
      BY <1>2, <2>2
      DEF RInv, IInv, PointerInv, TypeOK, StoreMoves, Next, Undamaged, InitStateRoot, Execute,
          RunBlock, CommitAtomic, CommitRejected, Forget, Rollback, Heal, BeginRollback,
          ManifestBatch, ScanMetadata, ScanKey, SetIndexedHeight, HealPointers,
          RollbackWriteFails, Crash, history
    <3> QED
      BY <1>2, <2>1, <2>2, <3>1, StoreKeepsLookup DEF RInv
  <2> QED
    BY <2>1, <2>2 DEF RInv
<1>3. ASSUME UNCHANGED vars PROVE IInv' /\ (Undamaged' => Undamaged)
  BY <1>3, NextKeepsIInv DEF RInv, vars, history, Undamaged
<1>4. CASE \E k \in Keys, h \in Heights : BeginLookup(k, h)
  <2>1. UNCHANGED vars
    BY <1>4 DEF BeginLookup
  <2>2. ASSUME Undamaged' PROVE LookupInv'
    BY <1>3, <1>4, <2>1, <2>2, BeginKeepsLookup DEF RInv
  <2> QED
    BY <1>3, <2>1, <2>2 DEF RInv
<1>5. CASE ProbeSlot
  <2>1. UNCHANGED vars
    BY <1>5 DEF ProbeSlot
  <2>2. ASSUME Undamaged' PROVE LookupInv'
    BY <1>3, <1>5, <2>1, <2>2, ProbeKeepsLookup DEF RInv
  <2> QED
    BY <1>3, <2>1, <2>2 DEF RInv
<1>6. CASE Return
  <2>1. UNCHANGED vars /\ reader' = NotReading
    BY <1>6 DEF Return
  <2> QED
    BY <1>3, <2>1 DEF RInv, LookupInv
<1> QED
  BY <1>1, <1>2, <1>4, <1>5, <1>6 DEF ReaderNext

(* When a lookup's search has ended and its height was safe all the while, *)
(* its window has closed on the end of the prefix at or below the height.  *)
LEMMA AnswersMatch ==
  ASSUME RInv, NothingBelowStart
  PROVE  ReadsMatchChain
<1> SUFFICES ASSUME Undamaged, reader.pc \in {"search", "error"}
             PROVE  /\ reader.pc = "search" /\ SearchEnded(reader.s) /\ reader.safe =>
                         reader.s.best = LastUpdate(reader.key, reader.h)
                    /\ reader.pc = "error" => reader.cut
  BY DEF ReadsMatchChain
<1>1. IInv /\ LookupInv /\ reader # NotReading
  BY DEF RInv, NotReading
<1>2. reader.pc = "error" => reader.cut
  BY <1>1 DEF LookupInv
<1>3. ASSUME SearchEnded(reader.s), reader.safe
      PROVE  reader.s.best = LastUpdate(reader.key, reader.h)
  <2> DEFINE s == reader.s
             l == hist[reader.key]
  <2>1. /\ s.left \in Nat /\ s.right \in Nat /\ s.left = s.right
        /\ reader.key \in Keys /\ reader.h \in Heights
        /\ reader.h <= SafeTop /\ s.left <= Len(l)
        /\ s.best = IF s.left = 0 THEN Hole ELSE l[s.left]
        /\ \A i \in 1 .. Len(l) : /\ i <= s.left => l[i].h <= reader.h
                                  /\ i > s.right => l[i].h > reader.h
    BY <1>1, <1>3 DEF LookupInv, Lookups, SearchEnded
  <2>2. Len(l) \in Nat
    BY <1>1, <2>1, ListsAreOrdered, OrderedFacts
  <2>3. PrefixAt(l, reader.h, s.left)
    <3> HIDE DEF s, l
    <3> QED
      BY <2>1, <2>2 DEF PrefixAt
  <2>4. LastUpdate(reader.key, reader.h) = IF s.left = 0 THEN Hole ELSE hist[reader.key][s.left]
    BY <1>1, <2>1, <2>3, ReadsFollow
  <2> QED
    BY <2>1, <2>4
<1> QED
  BY <1>2, <1>3

(* RInv holds in every state of the store and its reader. *)
THEOREM ReaderInvariant ==
  ASSUME StartBlock <= RollbackFloor
  PROVE  ReaderSpec => []RInv
<1>1. ReaderInit => RInv
  BY InitIInv DEF ReaderInit, RInv, LookupInv
<1>2. RInv /\ [ReaderNext]_readerVars => RInv'
  BY ReaderKeepsRInv
<1> QED
  BY <1>1, <1>2, PTL DEF ReaderSpec

(* Every lookup at a height that is safe while it runs finds the last      *)
(* update that the recorded chain made at or below it, whatever commits,   *)
(* rollbacks, failed writes and crashes fall between its gets; and only a  *)
(* lookup whose list was cut ends in "Missing update".                     *)
THEOREM StoreReadsMatchChain ==
  ASSUME StartBlock <= RollbackFloor
  PROVE  ReaderSpec => []ReadsMatchChain
<1>1. ReaderInit => RInv /\ NothingBelowStart
  BY InitIInv, InitNothingBelow DEF ReaderInit, RInv, LookupInv
<1>2. RInv /\ NothingBelowStart /\ [ReaderNext]_readerVars => (RInv /\ NothingBelowStart)'
  <2> SUFFICES ASSUME RInv, NothingBelowStart, [ReaderNext]_readerVars
               PROVE  RInv' /\ NothingBelowStart'
    OBVIOUS
  <2>1. [Next]_vars
    BY DEF ReaderNext, readerVars, StoreMoves, BeginLookup, ProbeSlot, Return
  <2> QED
    BY <2>1, ReaderKeepsRInv, NextKeepsNothingBelow DEF RInv
<1>3. RInv /\ NothingBelowStart => ReadsMatchChain
  BY AnswersMatch
<1> QED
  BY <1>1, <1>2, <1>3, PTL DEF ReaderSpec
=============================================================================
