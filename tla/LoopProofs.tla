------------------------------ MODULE LoopProofs ------------------------------
(***************************************************************************)
(* The safety properties of the two drivers that check no block's parent   *)
(* when they commit it: SnapshotLoop, with the snapshots it makes, and     *)
(* LibPipeline.  First the index and the walk of handle_reorg, which both  *)
(* rest on.                                                                *)
(***************************************************************************)
EXTENDS SnapshotLoop, LibPipeline, ChainProofs

(***************************************************************************)
(* The index and the walk of handle_reorg.                                 *)
(***************************************************************************)

(* The constants, as the proofs below use them. *)
LEMMA LedgerConstants ==
  /\ MaxHeight \in Nat /\ StartBlock \in Heights /\ Heights = 0 .. MaxHeight
  /\ MaxReorgDepth \in Nat /\ ReorgCheckThreshold \in Nat
  /\ NoBlock \notin Blocks /\ Height \in [Blocks -> Heights]
  /\ \A b \in Blocks : Height[b] \in 0 .. MaxHeight
BY ChainAssumption, LedgerAssumption DEF Heights

(* Every record is of a block of its height, at or below the indexed one,  *)
(* and the node's chain reaches that far. *)
IndexBase ==
  /\ best \in Blocks /\ indexed \in Heights
  /\ hash \in [Heights -> Blocks \cup {NoBlock}]
  /\ indexed <= Height[best]
  /\ \A h \in Heights : hash[h] # NoBlock => h <= indexed /\ Height[hash[h]] = h

(* Nothing of the index changes. *)
LEMMA IndexFrame == ASSUME IndexBase, UNCHANGED <<best, indexed, hash>> PROVE IndexBase'
BY DEF IndexBase

(* A block of the node's chain has the height asked for. *)
LEMMA BlockAsked ==
  ASSUME best \in Blocks, NEW h \in Nat, h <= Height[best]
  PROVE  Ancestry(best)[h] \in Blocks /\ Height[Ancestry(best)[h]] = h /\ h \in Heights
<1>1. h \in 0 .. Height[best] /\ h \in Heights
  BY LedgerConstants
<1> QED
  BY <1>1, AncestryFacts

(* Where the walk of handle_reorg ends is a height of the chain; the       *)
(* recorded heights that end it are no higher, and what lies between the   *)
(* end and its start is in its range.                                      *)
LEMMA WalkEndFacts ==
  ASSUME NEW c \in 0 .. MaxHeight + 1
  PROVE  /\ WalkEnd(c) \in 0 .. MaxHeight
         /\ c > 0 => WalkEnd(c) < c
         /\ WalkEnd(c) \in WalkRange(c) => WalkEnd(c) \in WalkStops(c)
         /\ \A h \in WalkStops(c) : h <= WalkEnd(c)
         /\ \A h \in 0 .. MaxHeight : WalkEnd(c) < h /\ h < c => h \in WalkRange(c)
<1> DEFINE R == WalkRange(c)
           S == WalkStops(c)
<1> USE LedgerConstants
<1>1. S \subseteq R /\ R \subseteq 0 .. MaxHeight /\ \A h \in R : h < c
  <2>1. SatSub(c, MaxReorgDepth) \in Nat
    BY DEF SatSub
  <2> QED
    BY <2>1 DEF WalkStops, WalkRange
<1>2. ASSUME NEW l \in R, NEW h \in 0 .. MaxHeight, l <= h, h < c PROVE h \in R
  <2>1. SatSub(c, MaxReorgDepth) \in Nat
    BY DEF SatSub
  <2> QED
    BY <1>2, <2>1 DEF WalkRange
<1>3. \A h \in 0 .. MaxHeight + 1 : SatSub(h, 1) \in 0 .. MaxHeight /\ (SatSub(h, 1) = h - 1 \/ h = 0)
  BY DEF SatSub
<1>4. CASE S # {}
  <2>1. \E x \in S : \A y \in S : y <= x
    BY <1>1, <1>4, GreatestExists
  <2>2. WalkEnd(c) = CHOOSE h \in S : \A x \in S : x <= h
    BY <1>4 DEF WalkEnd
  <2>3. WalkEnd(c) \in S /\ \A h \in S : h <= WalkEnd(c)
    BY <2>1, <2>2
  <2> QED
    BY <1>1, <1>2, <2>3
<1>5. CASE S = {} /\ R # {}
  <2>1. \E x \in R : \A y \in R : x <= y
    BY <1>1, <1>5, LeastExists
  <2>2. PICK l \in R : WalkEnd(c) = SatSub(l, 1)
    BY <1>5, <2>1 DEF WalkEnd
  <2>3. l \in 0 .. MaxHeight /\ l > 0 /\ l < c
    BY <1>1, <2>2 DEF WalkRange
  <2>4. WalkEnd(c) = l - 1
    BY <2>2, <2>3 DEF SatSub
  <2>5. \A h \in 0 .. MaxHeight : WalkEnd(c) < h /\ h < c => h \in R
    <3>1. \A h \in 0 .. MaxHeight : WalkEnd(c) < h => l <= h
      BY <2>3, <2>4
    <3> QED
      BY <1>2, <3>1
  <2>6. WalkEnd(c) \in 0 .. MaxHeight /\ WalkEnd(c) < c
    BY <2>3, <2>4
  <2>7. l - 1 \notin R
    <3>1. PICK x \in R : WalkEnd(c) = SatSub(x, 1) /\ \A y \in R : x <= y
      BY <1>5, <2>1 DEF WalkEnd
    <3>2. x \in 0 .. MaxHeight /\ x > 0 /\ WalkEnd(c) = x - 1
      BY <1>1, <3>1 DEF WalkRange, SatSub
    <3> QED
      BY <2>3, <2>4, <3>1, <3>2
  <2> QED
    BY <1>5, <2>4, <2>5, <2>6, <2>7
<1>6. CASE S = {} /\ R = {}
  <2>1. WalkEnd(c) = SatSub(c, 1)
    BY <1>6 DEF WalkEnd
  <2> QED
    BY <1>3, <1>6, <2>1
<1> QED
  BY <1>4, <1>5, <1>6

(* What handle_reorg undoes: it found a record above the end of its walk   *)
(* that is not the node's block. *)
Disagrees(h) == hash[h] # NoBlock /\ hash[h] # Ancestry(best)[h]

LEMMA DetectedFacts ==
  ASSUME IndexBase, NEW c \in 0 .. MaxHeight + 1, ReorgDetected(c)
  PROVE  \E d \in Heights : WalkEnd(c) < d /\ d < c /\ d <= indexed /\ Disagrees(d)
<1> USE LedgerConstants
<1>1. PICK d \in WalkRange(c) : d > WalkEnd(c) /\ hash[d] # NoBlock
  BY DEF ReorgDetected
<1>2. d \in Heights /\ d < c
  <2>1. SatSub(c, MaxReorgDepth) \in Nat
    BY DEF SatSub
  <2> QED
    BY <2>1 DEF WalkRange
<1>3. WalkEnd(c) \in Int /\ d \notin WalkStops(c)
  BY <1>1, <1>2, WalkEndFacts
<1>4. Disagrees(d)
  BY <1>1, <1>3 DEF WalkStops, Disagrees
<1> QED
  BY <1>1, <1>2, <1>4 DEF IndexBase

(* Conversely, a disagreeing record between the walk's end and its start   *)
(* is noticed. *)
LEMMA DisagreementDetected ==
  ASSUME IndexBase, NEW c \in 0 .. MaxHeight + 1, NEW d \in Heights,
         WalkEnd(c) < d, d < c, hash[d] # NoBlock
  PROVE  ReorgDetected(c)
<1> USE LedgerConstants
<1>1. d \in WalkRange(c) /\ WalkEnd(c) \in 0 .. MaxHeight
  BY WalkEndFacts
<1>2. d <= indexed /\ indexed <= Height[best] /\ indexed \in Int /\ Height[best] \in Int
  BY DEF IndexBase
<1> QED
  BY <1>1, <1>2 DEF ReorgDetected

(* A growing node changes nothing that the index or a walk has seen.       *)
LEMMA GrowthIsInvisible ==
  ASSUME IndexBase, NEW t \in Blocks, NodeGrows(t)
  PROVE  /\ IndexBase' /\ UNCHANGED <<indexed, hash>>
         /\ best' \in Blocks /\ Height[best'] = Height[best] + 1
         /\ \A h \in 0 .. Height[best] : Ancestry(best)[h] = Ancestry(best')[h]
         /\ \A h \in Heights : hash[h] # NoBlock => Ancestry(best)[h] = Ancestry(best')[h]
         /\ \A c \in 0 .. MaxHeight + 1 : WalkEnd(c) = WalkEnd(c)'
         /\ \A c \in 0 .. MaxHeight + 1 : ReorgDetected(c) => ReorgDetected(c)'
<1> USE LedgerConstants
<1>1. best' = t /\ Parent[t] = best /\ UNCHANGED <<indexed, hash>> /\ best \in Blocks
  BY DEF NodeGrows, index, IndexBase
<1>2. Height[t] # 0
  BY <1>1, ChainAssumption
<1>3. Height[best] = Height[t] - 1 /\ \A h \in 0 .. Height[best] : Ancestry(t)[h] = Ancestry(best)[h]
  BY <1>1, <1>2, AncestryOfParent
<1>4. \A h \in Heights : hash[h] # NoBlock => h \in 0 .. Height[best]
  BY DEF IndexBase
<1>5. IndexBase'
  BY <1>1, <1>3 DEF IndexBase
<1>6. ASSUME NEW c \in 0 .. MaxHeight + 1 PROVE WalkEnd(c) = WalkEnd(c)'
  <2>1. WalkRange(c) = WalkRange(c)'
    BY DEF WalkRange
  <2>2. \A h \in WalkRange(c) : h \in Heights
    <3>1. SatSub(c, MaxReorgDepth) \in Nat
      BY DEF SatSub
    <3> QED
      BY <3>1 DEF WalkRange
  <2>3. \A h \in WalkRange(c) : hash[h] # NoBlock =>
           ~ (h > Height[best]) /\ ~ (h > Height[t]) /\ Ancestry(t)[h] = Ancestry(best)[h]
    BY <1>1, <1>3, <1>4, <2>2
  <2>4. WalkStops(c) = WalkStops(c)'
    BY <1>1, <2>1, <2>3 DEF WalkStops
  <2> QED
    BY <2>1, <2>4 DEF WalkEnd
<1>7. ASSUME NEW c \in 0 .. MaxHeight + 1, ReorgDetected(c) PROVE ReorgDetected(c)'
  <2>1. WalkEnd(c) \in Int
    BY WalkEndFacts
  <2>2. WalkRange(c) = WalkRange(c)' /\ WalkEnd(c) = WalkEnd(c)'
    BY <1>6 DEF WalkRange
  <2>3. WalkEnd(c) <= Height[best']
    BY <1>1, <1>3, <1>7, <2>1 DEF ReorgDetected
  <2> QED
    BY <1>1, <1>7, <2>2, <2>3 DEF ReorgDetected
<1> QED
  BY <1>1, <1>3, <1>4, <1>5, <1>6, <1>7


Linked ==
  \A h \in Heights : h > 0 /\ hash[h] # NoBlock /\ hash[h - 1] # NoBlock
                     => Parent[hash[h]] = hash[h - 1]

(* An index that is not empty has a record of every height from the first  *)
(* to the indexed one, and no other. *)
Dense ==
  ~ FreshDb => /\ StartBlock <= indexed
               /\ \A h \in Heights : hash[h] # NoBlock <=> h \in StartBlock .. indexed

AgreesBelow(c) == \A h \in Heights : h < c => ~ Disagrees(h)

(* The walk of handle_reorg ends at a recorded block of the node's chain.  *)
EndsWell(c) ==
  \A w \in Heights : w = WalkEnd(c) => hash[w] # NoBlock /\ hash[w] = Ancestry(best)[w]


(* Below a recorded block of the node's chain, an index without gaps has   *)
(* the node's blocks: the greatest height that disagreed would have the    *)
(* same child on both chains. *)
LEMMA AgreementGoesDown ==
  ASSUME IndexBase, Linked, Dense, NEW w \in Heights,
         hash[w] # NoBlock, hash[w] = Ancestry(best)[w]
  PROVE  \A h \in Heights : h <= w => ~ Disagrees(h)
<1> USE LedgerConstants
<1> DEFINE Bad == {h \in 0 .. w : Disagrees(h)}
<1>1. SUFFICES ASSUME Bad # {} PROVE FALSE
  BY DEF Disagrees
<1>2. PICK h \in Bad : \A y \in Bad : y <= h
  <2>1. Bad \subseteq 0 .. w /\ w \in Nat
    OBVIOUS
  <2> QED
    BY <1>1, <2>1, GreatestExists
<1>3. /\ h \in Heights /\ h < w /\ h + 1 \in 0 .. w /\ h + 1 \in Heights /\ (h + 1) - 1 = h
      /\ ~ Disagrees(h + 1)
  <2>1. h # w /\ h \in 0 .. w
    BY <1>2 DEF Disagrees
  <2>2. h + 1 \notin Bad
    BY <1>2, <2>1
  <2> QED
    BY <2>1, <2>2
<1>4. ~ FreshDb /\ hash[h] # NoBlock
  BY <1>2, <1>3 DEF FreshDb, IndexBase, Disagrees
<1>5. hash[h + 1] # NoBlock
  <2>1. /\ h \in StartBlock .. indexed /\ w \in StartBlock .. indexed
        /\ (h + 1 \in StartBlock .. indexed) <=> (hash[h + 1] # NoBlock)
    BY <1>3, <1>4 DEF Dense
  <2>2. indexed \in Heights
    BY DEF IndexBase
  <2> QED
    BY <1>3, <2>1, <2>2
<1>6. Parent[hash[h + 1]] = hash[h]
  BY <1>3, <1>4, <1>5 DEF Linked
<1>7. hash[h + 1] = Ancestry(best)[h + 1]
  BY <1>3, <1>5 DEF Disagrees
<1>8. h + 1 <= Height[best] /\ best \in Blocks
  BY <1>3, <1>5 DEF IndexBase
<1>9. Ancestry(best)[h] = Parent[Ancestry(best)[h + 1]]
  BY <1>3, <1>8, AncestryFacts
<1>10. hash[h] # Ancestry(best)[h]
  BY <1>2 DEF Disagrees
<1> QED
  BY <1>6, <1>7, <1>9, <1>10

(* So a walk that ends well notices every disagreement it starts above.    *)
LEMMA WalkNotices ==
  ASSUME IndexBase, Linked, Dense, NEW c \in 0 .. MaxHeight + 1, EndsWell(c), ~AgreesBelow(c)
  PROVE  ReorgDetected(c)
<1> USE LedgerConstants
<1>1. PICK d \in Heights : d < c /\ Disagrees(d)
  BY DEF AgreesBelow
<1>2. WalkEnd(c) \in Heights
  BY WalkEndFacts
<1>3. ~ (d <= WalkEnd(c))
  BY <1>1, <1>2, AgreementGoesDown DEF EndsWell
<1>4. WalkEnd(c) < d
  BY <1>2, <1>3
<1> QED
  BY <1>1, <1>4, DisagreementDetected DEF Disagrees

(* A commit adds a record above all others.                                *)
LEMMA CommitIndex ==
  ASSUME IndexBase, Dense, NEW b \in Blocks, Height[b] <= Height[best],
         FreshDb => Height[b] = StartBlock, Accepts(Height[b]), Commit(b), UNCHANGED best
  PROVE  /\ IndexBase' /\ Dense' /\ ~ FreshDb' /\ indexed' = Height[b]
         /\ \A h \in Heights : hash'[h] = IF h = Height[b] THEN b ELSE hash[h]
         /\ \A h \in Heights : hash[h] # NoBlock => h < Height[b]
<1> USE LedgerConstants
<1> DEFINE g == Height[b]
<1>1. /\ hash' = [hash EXCEPT ![g] = b] /\ indexed' = g /\ g \in Heights
      /\ indexed \in Heights /\ best \in Blocks /\ Height[best] \in Nat
      /\ FreshDb \/ g = indexed + 1
  BY DEF Commit, IndexBase, Accepts
<1>2. \A h \in Heights : hash'[h] = IF h = g THEN b ELSE hash[h]
  BY <1>1 DEF IndexBase
<1>3. \A h \in Heights : hash[h] # NoBlock => h < g
  <2>1. CASE FreshDb
    BY <1>1, <2>1 DEF FreshDb, IndexBase
  <2>2. CASE g = indexed + 1
    BY <1>1, <2>2 DEF IndexBase
  <2> QED
    BY <1>1, <2>1, <2>2
<1> HIDE DEF g
<1>4. IndexBase'
  <2>1. hash' \in [Heights -> Blocks \cup {NoBlock}]
    BY <1>1 DEF IndexBase
  <2>2. g <= Height[best] /\ Height[b] = g
    BY DEF g
  <2> QED
    BY <1>1, <1>2, <1>3, <2>1, <2>2 DEF IndexBase
<1>5. ~ FreshDb'
  <2>1. hash'[g] # NoBlock
    BY <1>1, <1>2
  <2> QED
    BY <1>1, <2>1 DEF FreshDb
<1>6. Dense'
  <2>1. CASE FreshDb
    <3>1. g = StartBlock
      BY <2>1 DEF g
    <3>2. \A h \in Heights : hash[h] = NoBlock
      BY <2>1 DEF FreshDb, IndexBase
    <3>3. \A h \in Heights : hash'[h] # NoBlock <=> h = g
      BY <1>2, <3>2
    <3> QED
      BY <1>1, <3>1, <3>3 DEF Dense
  <2>2. CASE ~ FreshDb
    <3>1. /\ g = indexed + 1 /\ StartBlock <= indexed
          /\ \A h \in Heights : hash[h] # NoBlock <=> h \in StartBlock .. indexed
      BY <1>1, <2>2 DEF Dense
    <3>2. \A h \in Heights : hash'[h] # NoBlock <=> h \in StartBlock .. g
      BY <1>1, <1>2, <3>1
    <3> QED
      BY <1>1, <3>1, <3>2 DEF Dense
  <2> QED
    BY <2>1, <2>2
<1> QED
  BY <1>1, <1>2, <1>3, <1>4, <1>5, <1>6 DEF g

(* A block of the node's chain that is committed above agreeing records    *)
(* links. *)
LEMMA CommitExtends ==
  ASSUME IndexBase, Linked, Dense, NEW b \in Blocks, Height[b] <= Height[best],
         b = Ancestry(best)[Height[b]], AgreesBelow(Height[b]),
         FreshDb => Height[b] = StartBlock, Accepts(Height[b]), Commit(b), UNCHANGED best
  PROVE  /\ IndexBase' /\ Linked' /\ Dense' /\ ~ FreshDb' /\ indexed' = Height[b]
         /\ \A h \in Heights : hash'[h] = IF h = Height[b] THEN b ELSE hash[h]
         /\ \A h \in Heights : hash[h] # NoBlock => h < Height[b]
<1> USE LedgerConstants
<1> DEFINE g == Height[b]
<1>1. g \in Heights /\ best \in Blocks /\ Height[best] \in Nat
  BY DEF IndexBase
<1>2. /\ IndexBase' /\ Dense' /\ ~ FreshDb' /\ indexed' = g
      /\ \A h \in Heights : hash'[h] = IF h = g THEN b ELSE hash[h]
      /\ \A h \in Heights : hash[h] # NoBlock => h < g
  BY CommitIndex
<1>3. \A h \in Heights : hash[h] # NoBlock => h < g
  BY <1>2
<1> HIDE DEF g
<1>4. Linked'
  <2> SUFFICES ASSUME NEW h \in Heights, h > 0, hash'[h] # NoBlock, hash'[h - 1] # NoBlock
               PROVE  Parent[hash'[h]] = hash'[h - 1]
    BY DEF Linked
  <2>1. h - 1 \in Heights
    OBVIOUS
  <2>2. CASE h = g
    <3>1. hash'[h - 1] = hash[h - 1] /\ hash[h - 1] = Ancestry(best)[h - 1]
      BY <1>1, <1>2, <2>1, <2>2 DEF AgreesBelow, Disagrees, g
    <3>2. Ancestry(best)[h - 1] = Parent[Ancestry(best)[(h - 1) + 1]]
      <4>1. h - 1 \in 0 .. Height[best] /\ h - 1 # Height[best]
        BY <1>1, <2>1, <2>2 DEF g
      <4> QED
        BY <1>1, <4>1, AncestryFacts
    <3>3. (h - 1) + 1 = h
      OBVIOUS
    <3> QED
      BY <1>2, <2>2, <3>1, <3>2, <3>3 DEF g
  <2>3. CASE h # g
    <3>1. h < g /\ h - 1 # g
      BY <1>1, <1>2, <1>3, <2>1, <2>3
    <3> QED
      BY <1>2, <2>1, <2>3, <3>1 DEF Linked
  <2> QED
    BY <2>2, <2>3
<1> QED
  BY <1>2, <1>4 DEF g

(* A rollback to a recorded height cuts the top off. *)
LEMMA RollbackIndex ==
  ASSUME IndexBase, Dense, NEW t \in Heights, hash[t] # NoBlock,
         RollbackTo(t), UNCHANGED best
  PROVE  /\ IndexBase' /\ Dense' /\ ~ FreshDb' /\ ~ FreshDb
         /\ indexed' = t /\ t <= indexed
         /\ \A h \in Heights : hash'[h] = IF h > t THEN NoBlock ELSE hash[h]
<1> USE LedgerConstants
<1>1. /\ indexed' = t /\ t <= indexed /\ indexed \in Heights
      /\ hash' = [h \in Heights |-> IF h \in t + 1 .. indexed THEN NoBlock ELSE hash[h]]
  BY DEF RollbackTo, IndexBase
<1>2. \A h \in Heights : hash'[h] = IF h > t THEN NoBlock ELSE hash[h]
  <2>1. \A h \in Heights : h > indexed => hash[h] = NoBlock
    BY <1>1 DEF IndexBase
  <2> QED
    BY <1>1, <2>1
<1>3. IndexBase'
  <2>1. hash' \in [Heights -> Blocks \cup {NoBlock}]
    BY <1>1 DEF IndexBase
  <2>2. Height[best] \in Int /\ indexed <= Height[best] /\ best \in Blocks
    BY DEF IndexBase
  <2> QED
    BY <1>1, <1>2, <2>1, <2>2 DEF IndexBase
<1>4. ~ FreshDb /\ ~ FreshDb'
  BY <1>1, <1>2 DEF FreshDb, IndexBase
<1>5. Dense'
  BY <1>1, <1>2, <1>4 DEF Dense
<1> QED
  BY <1>1, <1>2, <1>3, <1>4, <1>5

LEMMA RollbackCuts ==
  ASSUME IndexBase, Linked, Dense, NEW t \in Heights, hash[t] # NoBlock,
         RollbackTo(t), UNCHANGED best
  PROVE  /\ IndexBase' /\ Linked' /\ Dense' /\ ~ FreshDb' /\ ~ FreshDb
         /\ indexed' = t /\ t <= indexed
         /\ \A h \in Heights : hash'[h] = IF h > t THEN NoBlock ELSE hash[h]
<1> USE LedgerConstants
<1>1. /\ IndexBase' /\ Dense' /\ ~ FreshDb' /\ ~ FreshDb /\ indexed' = t /\ t <= indexed
      /\ \A h \in Heights : hash'[h] = IF h > t THEN NoBlock ELSE hash[h]
  BY RollbackIndex
<1>2. \A h \in Heights : hash'[h] = IF h > t THEN NoBlock ELSE hash[h]
  BY <1>1
<1>3. Linked'
  <2>1. \A h \in Heights : h > 0 => h - 1 \in Heights
    OBVIOUS
  <2> QED
    BY <1>1, <2>1 DEF Linked
<1> QED
  BY <1>1, <1>3

(* Constants that ensure it, for every run of the model: forks branch off  *)
(* at or above a height that is indexed and in reach of a walk from the    *)
(* top. *)
ForksInReach ==
  \E f \in Heights \ {0} :
    /\ f >= StartBlock
    /\ \A a, b \in Blocks : Height[a] = Height[b] /\ Height[a] <= f => a = b
    /\ MaxReorgDepth + f > MaxHeight /\ ReorgCheckThreshold + f >= MaxHeight

(* Above such a fork every walk ends on a record that agrees.              *)
LEMMA InReach ==
  ASSUME ForksInReach, IndexBase, Dense, NEW c \in 0 .. MaxHeight + 1, ~AgreesBelow(c)
  PROVE  EndsWell(c) /\ c > 0 /\ NearTip(Height[best], c)
<1> USE LedgerConstants
<1>1. PICK f \in Heights \ {0} :
        /\ f >= StartBlock
        /\ \A a, b \in Blocks : Height[a] = Height[b] /\ Height[a] <= f => a = b
        /\ MaxReorgDepth + f > MaxHeight /\ ReorgCheckThreshold + f >= MaxHeight
  BY DEF ForksInReach
<1>2. best \in Blocks /\ indexed \in Heights /\ indexed <= Height[best] /\ Height[best] \in Heights
  BY DEF IndexBase
<1>3. ASSUME NEW h \in Heights, h <= f, hash[h] # NoBlock PROVE hash[h] = Ancestry(best)[h]
  <2>1. hash[h] \in Blocks /\ Height[hash[h]] = h /\ h <= Height[best]
    BY <1>2, <1>3 DEF IndexBase
  <2>2. Ancestry(best)[h] \in Blocks /\ Height[Ancestry(best)[h]] = h
    BY <1>2, <2>1, BlockAsked
  <2> QED
    BY <1>1, <1>3, <2>1, <2>2
<1>4. PICK d \in Heights : d < c /\ Disagrees(d)
  BY DEF AgreesBelow
<1>5. f < d /\ d \in StartBlock .. indexed /\ ~ FreshDb
  BY <1>1, <1>2, <1>3, <1>4 DEF Disagrees, Dense, FreshDb, IndexBase
<1>6. hash[f] # NoBlock
  BY <1>1, <1>2, <1>5 DEF Dense
<1>7. NearTip(Height[best], c) /\ c > 0
  BY <1>1, <1>2, <1>4, <1>5 DEF NearTip, SatSub
<1>8. f \in WalkStops(c)
  <2>1. SatSub(c, MaxReorgDepth) <= f /\ SatSub(c, MaxReorgDepth) \in Int
    BY <1>1, <1>4, <1>5 DEF SatSub
  <2> QED
    BY <1>1, <1>3, <1>4, <1>5, <1>6, <2>1 DEF WalkStops, WalkRange
<1>9. WalkEnd(c) \in WalkStops(c)
  <2>1. WalkStops(c) \subseteq 0 .. MaxHeight
    <3>1. SatSub(c, MaxReorgDepth) \in Nat
      BY DEF SatSub
    <3> QED
      BY <3>1 DEF WalkStops, WalkRange
  <2>2. \E x \in WalkStops(c) : \A y \in WalkStops(c) : y <= x
    BY <1>8, <2>1, GreatestExists
  <2> QED
    BY <1>8, <2>2 DEF WalkEnd
<1>10. EndsWell(c)
  BY <1>2, <1>9 DEF EndsWell, WalkStops, IndexBase
<1> QED
  BY <1>7, <1>10

-----------------------------------------------------------------------------
(***************************************************************************)
(* The snapshot loop: where it stands.                                     *)
(***************************************************************************)

DriverPcs == {"start", "top", "tip", "wait", "undo", "exit", "data", "hash", "guard",
              "run", "track", "commit", "snap"}

LpType ==
  lp \in [pc : DriverPcs, h : 0 .. MaxHeight + 1, data : Blocks \cup {NoBlock},
          hash : Blocks \cup {NoBlock}, tries : Nat, left : SUBSET Keys, crossed : BOOLEAN]

(* The local height is above the index, except between a commit and its    *)
(* snapshot, before a rollback, and where current_height itself is the     *)
(* indexed height: after a snapshot was applied, and before the first      *)
(* block.                                                                  *)
Places ==
  /\ current \in 0 .. MaxHeight + 1 /\ driver \in Drivers
  /\ indexed <= current /\ (lp.pc # "undo" => indexed <= lp.h)
  /\ current = 0 => StartBlock = 0
  /\ lp.pc # "undo" /\ lp.h = 0 => StartBlock = 0
  /\ lp.pc = "snap" => lp.h = indexed /\ current = lp.h + 1
  /\ driver # "next" /\ lp.pc # "snap" =>
       lp.h <= current /\ (lp.h = indexed => current = lp.h)
  /\ lp.pc \in {"start", "wait"} => lp.h > indexed \/ indexed = 0

(* The two queries answer with blocks of the height asked for, which need  *)
(* not be of one chain. *)
Fetched ==
  /\ lp.pc \in {"data", "hash", "guard", "run", "track", "commit"} => lp.h <= Height[best]
  /\ lp.pc \in {"hash", "guard", "run", "track", "commit"} =>
        lp.data \in Blocks /\ Height[lp.data] = lp.h
  /\ lp.pc \in {"guard", "run", "track", "commit"} =>
        lp.hash \in Blocks /\ Height[lp.hash] = lp.h

(* A rollback that is about to happen is of something. *)
Undoing == lp.pc = "undo" => lp.h \in Heights /\ lp.h < indexed

(* A block was executed at every recorded height, and at no other.         *)
BodyBase ==
  /\ body \in [Heights -> Blocks \cup {NoBlock}]
  /\ \A h \in Heights : /\ body[h] # NoBlock <=> hash[h] # NoBlock
                        /\ body[h] # NoBlock => Height[body[h]] = h

LoopBase == IndexBase /\ BodyBase /\ LpType /\ Places /\ Fetched /\ Undoing

LEMMA LoopConstants ==
  /\ Drivers \subseteq {"loop", "next", "repo"}
  /\ Interval \in Nat /\ Interval > 0 /\ ExitAt \in Nat
BY SnapshotAssumption

LEMMA LoopInit == SnapInit => LoopBase
<1> SUFFICES ASSUME SnapInit PROVE LoopBase
  OBVIOUS
<1> USE LedgerConstants, LoopConstants
<1>1. /\ best \in Blocks /\ indexed = 0 /\ hash = [h \in Heights |-> NoBlock]
      /\ current = StartBlock /\ driver \in Drivers
      /\ lp = [pc |-> "start", h |-> StartBlock, data |-> NoBlock, hash |-> NoBlock, tries |-> 0,
               left |-> {}, crossed |-> FALSE]
  BY DEF SnapInit, LedgerInit, Idle
<1>2. IndexBase
  BY <1>1 DEF IndexBase
<1>3. LpType /\ Places /\ Fetched /\ Undoing
  BY <1>1 DEF LpType, Places, Fetched, Undoing, DriverPcs
<1>4. BodyBase
  BY <1>1 DEF BodyBase, SnapInit
<1> QED
  BY <1>2, <1>3, <1>4 DEF LoopBase

LEMMA BodyFrame == ASSUME BodyBase, UNCHANGED <<body, hash>> PROVE BodyBase'
BY DEF BodyBase

(* Choosing a block changes neither the index nor current_height. *)
LEMMA ChoosingKeeps ==
  ASSUME LoopBase, NextCall \/ LoopRound \/ ChooseBlock
  PROVE  LoopBase'
<1> USE LedgerConstants, LoopConstants DEF LoopBase
<1>1. UNCHANGED <<best, indexed, hash, body, driver, current>>
  BY DEF NextCall, LoopRound, ChooseBlock, chooseOthers, ledger, ran
<1>2. IndexBase' /\ BodyBase'
  BY <1>1, IndexFrame, BodyFrame
<1>3. CASE NextCall
  <2>1. lp' = [pc |-> "tip", h |-> current, data |-> NoBlock, hash |-> NoBlock, tries |-> 0,
               left |-> {}, crossed |-> FALSE]
        /\ driver = "next" /\ lp.pc # "snap"
    BY <1>3 DEF NextCall, Idle
  <2>2. LpType' /\ Places' /\ Fetched' /\ Undoing'
    BY <1>1, <2>1 DEF LpType, Places, Fetched, Undoing, DriverPcs
  <2> QED
    BY <1>2, <2>2
<1>4. CASE LoopRound
  <2>1. lp' = [pc |-> "tip", h |-> lp.h, data |-> NoBlock, hash |-> NoBlock, tries |-> 0,
               left |-> {}, crossed |-> FALSE]
        /\ lp.pc # "snap" /\ lp.pc # "undo"
    BY <1>4 DEF LoopRound, Idle
  <2>2. LpType' /\ Places' /\ Fetched' /\ Undoing'
    BY <1>1, <2>1 DEF LpType, Places, Fetched, Undoing, DriverPcs
  <2> QED
    BY <1>2, <2>2
<1>5. CASE ChooseBlock
  <2> lp.pc = "tip" /\ lp.h \in 0 .. MaxHeight + 1
    BY <1>5 DEF ChooseBlock, LpType
  <2>a. CASE Undoes(lp.h)
    <3>1. lp' = [lp EXCEPT !.pc = "undo", !.h = WalkEnd(lp.h)]
      BY <1>5, <2>a DEF ChooseBlock
    <3>2. PICK d \in Heights : WalkEnd(lp.h) < d /\ d <= indexed
      BY <2>a, DetectedFacts DEF Undoes
    <3>3. WalkEnd(lp.h) \in 0 .. MaxHeight /\ indexed \in Heights
      BY WalkEndFacts DEF IndexBase
    <3>6. WalkEnd(lp.h) < indexed /\ WalkEnd(lp.h) \in 0 .. MaxHeight + 1
      BY <3>2, <3>3

    <3>4. LpType' /\ lp'.pc = "undo" /\ lp'.h = WalkEnd(lp.h) /\ lp'.h < indexed
      BY <3>1, <3>6 DEF LpType, DriverPcs
    <3>5. Places' /\ Fetched' /\ Undoing'
      BY <1>1, <3>3, <3>4 DEF Places, Fetched, Undoing
    <3> QED
      BY <1>2, <3>4, <3>5
  <2>b. CASE ~ Undoes(lp.h)
    <3>1. PICK p \in {"exit", "wait", "data"} : lp' = [lp EXCEPT !.pc = p]
          /\ (p = "data" => ~ (lp.h > Height[best])) /\ (p = "wait" => lp.h > Height[best])
      BY <1>5, <2>b DEF ChooseBlock
    <3>2. LpType' /\ lp'.pc = p /\ lp'.h = lp.h
      BY <3>1 DEF LpType, DriverPcs
    <3>3. Height[best] \in Int /\ indexed \in Int /\ indexed <= Height[best]
      BY DEF IndexBase
    <3>4. Places'
      BY <1>1, <3>1, <3>2, <3>3 DEF Places
    <3>5. Fetched' /\ Undoing'
      BY <1>1, <3>1, <3>2, <3>3 DEF Fetched, Undoing
    <3> QED
      BY <1>2, <3>2, <3>4, <3>5
  <2> QED
    BY <2>a, <2>b
<1> QED
  BY <1>3, <1>4, <1>5

(* The index as a rollback of handle_reorg leaves it: lower than it was. *)
LEMMA UndoLowers ==
  ASSUME LoopBase, Undo
  PROVE  /\ IndexBase' /\ BodyBase' /\ indexed' = lp.h /\ lp.h \in Heights
         /\ indexed' < indexed
         /\ \A h \in Heights : hash'[h] = IF h > indexed' THEN NoBlock ELSE hash[h]
         /\ \A h \in Heights : body'[h] = IF h > indexed' THEN NoBlock ELSE body[h]
<1> USE LedgerConstants
<1>2. lp.h \in Heights /\ lp.h < indexed
  BY DEF LoopBase, Undoing, Undo
<1>4. /\ indexed' = lp.h /\ best' = best
      /\ hash' = [h \in Heights |-> IF h \in lp.h + 1 .. indexed THEN NoBlock ELSE hash[h]]
      /\ body' = [h \in Heights |-> IF h \in lp.h + 1 .. indexed THEN NoBlock ELSE body[h]]
  BY DEF Undo, RollsBack, RollbackTo
<1>5. indexed \in Heights /\ indexed' < indexed
  BY <1>2, <1>4 DEF LoopBase, IndexBase
<1>6. /\ \A h \in Heights : hash'[h] = IF h > indexed' THEN NoBlock ELSE hash[h]
      /\ \A h \in Heights : body'[h] = IF h > indexed' THEN NoBlock ELSE body[h]
  <2>1. \A h \in Heights : h > indexed => hash[h] = NoBlock /\ body[h] = NoBlock
    BY <1>5 DEF LoopBase, IndexBase, BodyBase
  <2> QED
    BY <1>2, <1>4, <1>5, <2>1
<1>7. IndexBase'
  <2>1. \A h \in Heights : hash'[h] \in Blocks \cup {NoBlock}
    BY <1>6 DEF LoopBase, IndexBase
  <2>2. hash' \in [Heights -> Blocks \cup {NoBlock}]
    BY <1>4, <2>1
  <2>3. Height[best] \in Int
    BY DEF LoopBase, IndexBase
  <2> QED
    BY <1>2, <1>4, <1>5, <1>6, <2>2, <2>3 DEF LoopBase, IndexBase
<1>8. BodyBase'
  <2>1. body' \in [Heights -> Blocks \cup {NoBlock}]
    BY <1>4 DEF LoopBase, BodyBase
  <2> QED
    BY <1>6, <2>1 DEF LoopBase, BodyBase
<1> QED
  BY <1>2, <1>4, <1>5, <1>6, <1>7, <1>8

LEMMA UndoKeeps == ASSUME LoopBase, Undo PROVE LoopBase'
<1> USE LedgerConstants, LoopConstants
<1>1. /\ IndexBase' /\ BodyBase' /\ indexed' = lp.h /\ lp.h \in Heights
      /\ indexed' < indexed
  BY UndoLowers
<1>2. /\ lp' = [pc |-> "top", h |-> indexed' + 1, data |-> NoBlock, hash |-> NoBlock, tries |-> 0,
                left |-> {}, crossed |-> FALSE]
      /\ driver' = driver /\ current' = IF driver = "next" THEN indexed' + 1 ELSE current
  BY <1>1 DEF Undo, Idle
<1>3. indexed \in Int /\ indexed <= current /\ current \in 0 .. MaxHeight + 1
  BY DEF LoopBase, IndexBase, Places
<1>4. LpType' /\ Places' /\ Fetched' /\ Undoing'
  BY <1>1, <1>2, <1>3 DEF LoopBase, LpType, Places, Fetched, Undoing, DriverPcs
<1> QED
  BY <1>1, <1>4 DEF LoopBase

(* An applied snapshot puts one record far above the others. *)
LEMMA ApplyKeeps ==
  ASSUME LoopBase, NEW s \in Heights, ApplySnapshot(s)
  PROVE  /\ LoopBase' /\ indexed' = s /\ s > indexed
         /\ \A h \in Heights : h # s => hash'[h] = hash[h] /\ body'[h] = body[h]
<1> USE LedgerConstants, LoopConstants
<1>1. /\ driver = "repo" /\ current < s /\ s <= Height[best] /\ indexed' = s /\ current' = s
      /\ hash' = [hash EXCEPT ![s] = Ancestry(best)[s]]
      /\ body' = [body EXCEPT ![s] = Ancestry(best)[s]]
      /\ lp' = [pc |-> "top", h |-> s, data |-> NoBlock, hash |-> NoBlock, tries |-> 0,
                left |-> {}, crossed |-> FALSE]
      /\ UNCHANGED <<best, driver>>
  BY DEF ApplySnapshot, Offered, node, Idle
<1>2. s > indexed
  BY <1>1 DEF LoopBase, Places, IndexBase
<1>3. Ancestry(best)[s] \in Blocks /\ Height[Ancestry(best)[s]] = s
  BY <1>1, BlockAsked DEF LoopBase, IndexBase
<1>4. /\ \A h \in Heights : hash'[h] = IF h = s THEN Ancestry(best)[s] ELSE hash[h]
      /\ \A h \in Heights : body'[h] = IF h = s THEN Ancestry(best)[s] ELSE body[h]
  BY <1>1 DEF LoopBase, IndexBase, BodyBase
<1>5. hash' \in [Heights -> Blocks \cup {NoBlock}]
  BY <1>1, <1>3 DEF LoopBase, IndexBase
<1>6. IndexBase'
  BY <1>1, <1>2, <1>3, <1>4, <1>5 DEF LoopBase, IndexBase
<1>7. LpType' /\ Places' /\ Fetched' /\ Undoing'
  BY <1>1 DEF LoopBase, LpType, Places, Fetched, Undoing, DriverPcs
<1>8. BodyBase'
  <2>1. body' \in [Heights -> Blocks \cup {NoBlock}]
    BY <1>1, <1>3 DEF LoopBase, BodyBase
  <2>2. Ancestry(best)[s] # NoBlock
    BY <1>3
  <2> QED
    BY <1>3, <1>4, <2>1, <2>2 DEF LoopBase, BodyBase
<1> QED
  BY <1>1, <1>2, <1>4, <1>6, <1>7, <1>8 DEF LoopBase

(* The steps of process_block_with_snapshots before the commit, and what   *)
(* follows a rejection or a failure, change neither the index nor          *)
(* current_height. *)
ProcessingStep ==
  GetData \/ GetHash \/ Attempt \/ StepFails \/ RunBlock \/ (\E k \in Keys : TrackKey(k))
  \/ BlockRan \/ RejectBlock \/ CreateSnapshot \/ NoSnapshot

LEMMA ProcessingKeeps ==
  ASSUME LoopBase, ProcessingStep
  PROVE  LoopBase' /\ UNCHANGED <<best, indexed, hash, body, crossed, driver, current, jumped>>
<1> USE LedgerConstants, LoopConstants
<1>1. UNCHANGED <<best, indexed, hash, body, crossed, driver, current, jumped>>
  BY DEF ProcessingStep, GetData, GetHash, Attempt, StepFails, RunBlock, TrackKey, BlockRan,
         RejectBlock, CreateSnapshot, NoSnapshot, chooseOthers, ledger, node, index, ran
<1>2. /\ IndexBase' /\ BodyBase' /\ LpType /\ Places /\ Fetched /\ Undoing /\ IndexBase
  BY <1>1, IndexFrame, BodyFrame DEF LoopBase
<1>3. Height[best] \in Nat /\ Height[best] <= MaxHeight /\ indexed \in Int
  BY <1>2 DEF IndexBase
<1>4. lp.h \in 0 .. MaxHeight + 1
  BY <1>2 DEF LpType
<1>5. CASE GetData
  <2>1. lp' = [lp EXCEPT !.pc = "hash", !.data = Ancestry(best)[lp.h]] /\ lp.pc = "data"
    BY <1>5 DEF GetData
  <2>2. lp.h <= Height[best]
    BY <1>2, <2>1 DEF Fetched
  <2>3. Ancestry(best)[lp.h] \in Blocks /\ Height[Ancestry(best)[lp.h]] = lp.h
    BY <1>2, <1>4, <2>2, BlockAsked DEF IndexBase
  <2>4. LpType' /\ lp'.pc = "hash" /\ lp'.h = lp.h /\ lp'.data = Ancestry(best)[lp.h]
    BY <1>2, <2>1, <2>3 DEF LpType, DriverPcs
  <2>5. Places' /\ Fetched' /\ Undoing'
    BY <1>1, <1>2, <2>1, <2>2, <2>3, <2>4 DEF Places, Fetched, Undoing
  <2> QED
    BY <1>1, <1>2, <2>4, <2>5 DEF LoopBase
<1>6. CASE GetHash
  <2>1. lp' = [lp EXCEPT !.pc = "guard", !.hash = Ancestry(best)[lp.h], !.tries = 1]
        /\ lp.pc = "hash"
    BY <1>6 DEF GetHash
  <2>2. lp.h <= Height[best]
    BY <1>2, <2>1 DEF Fetched
  <2>3. Ancestry(best)[lp.h] \in Blocks /\ Height[Ancestry(best)[lp.h]] = lp.h
    BY <1>2, <1>4, <2>2, BlockAsked DEF IndexBase
  <2>4. /\ LpType' /\ lp'.pc = "guard" /\ lp'.h = lp.h /\ lp'.data = lp.data
        /\ lp'.hash = Ancestry(best)[lp.h]
    BY <1>2, <2>1, <2>3 DEF LpType, DriverPcs
  <2>5. Places' /\ Fetched' /\ Undoing'
    BY <1>1, <1>2, <2>1, <2>2, <2>3, <2>4 DEF Places, Fetched, Undoing
  <2> QED
    BY <1>1, <1>2, <2>4, <2>5 DEF LoopBase
<1> DEFINE Again(h) == lp' = [pc |-> "top", h |-> h, data |-> NoBlock, hash |-> NoBlock,
                              tries |-> 0,
                              left |-> {}, crossed |-> FALSE]
<1>7. CASE Again(lp.h) /\ lp.pc # "snap" /\ lp.pc # "undo"
  <2>1. LpType' /\ Places' /\ Fetched' /\ Undoing'
    BY <1>1, <1>2, <1>7 DEF LpType, Places, Fetched, Undoing, DriverPcs
  <2> QED
    BY <1>1, <1>2, <2>1 DEF LoopBase
<1>8. CASE /\ Again(lp.h + 1) /\ lp.pc \in {"guard", "snap"}
           /\ lp.pc = "guard" => lp.h < current
  <2>1. lp.h + 1 \in 0 .. MaxHeight + 1 /\ indexed < lp.h + 1 /\ lp.h + 1 <= current
    BY <1>2, <1>3, <1>4, <1>8 DEF Places, Fetched
  <2>2. LpType' /\ lp'.pc = "top" /\ lp'.h = lp.h + 1
    BY <1>8, <2>1 DEF LpType, DriverPcs
  <2>3. Places'
    BY <1>1, <1>2, <1>3, <1>4, <2>1, <2>2 DEF Places
  <2>4. Fetched' /\ Undoing'
    BY <2>2 DEF Fetched, Undoing
  <2> QED
    BY <1>1, <1>2, <2>2, <2>3, <2>4 DEF LoopBase
<1>9. CASE /\ LpType' /\ {lp.pc, lp'.pc} \subseteq {"guard", "run", "track", "commit"}
           /\ lp'.h = lp.h /\ lp'.data = lp.data /\ lp'.hash = lp.hash
  <2>1. Places' /\ Fetched' /\ Undoing'
    BY <1>1, <1>2, <1>9 DEF Places, Fetched, Undoing
  <2> QED
    BY <1>1, <1>2, <1>9, <2>1 DEF LoopBase
<1>11. CASE Attempt
  <2>1. CASE lp' = [lp EXCEPT !.pc = "run"]
    BY <1>2, <1>9, <1>11, <2>1 DEF LpType, DriverPcs, Attempt
  <2>2. CASE lp' # [lp EXCEPT !.pc = "run"]
    BY <1>7, <1>8, <1>11, <2>2 DEF Attempt, Idle
  <2> QED
    BY <2>1, <2>2
<1>12. CASE StepFails
  <2>1. CASE lp.pc \in {"run", "track", "commit"}
    <3>1. lp' = [lp EXCEPT !.pc = "guard", !.tries = lp.tries + 1, !.left = {}]
      BY <1>12, <2>1 DEF StepFails
    <3>2. lp.tries \in Nat /\ lp.tries + 1 \in Nat
      BY <1>2 DEF LpType
    <3>3. LpType' /\ lp'.pc = "guard"
      BY <1>2, <3>1, <3>2 DEF LpType, DriverPcs
    <3>4. lp'.h = lp.h /\ lp'.data = lp.data /\ lp'.hash = lp.hash
      BY <1>2, <3>1 DEF LpType
    <3> QED
      BY <1>9, <2>1, <3>3, <3>4
  <2>2. CASE lp.pc \notin {"run", "track", "commit"}
    BY <1>7, <1>12, <2>2 DEF StepFails, Idle
  <2> QED
    BY <2>1, <2>2
<1>13. CASE RunBlock
  <2>1. /\ lp' = [lp EXCEPT !.pc = "track", !.left = {k \in Keys : Updates[lp.data][k] > 0}]
        /\ lp.pc = "run" /\ {k \in Keys : Updates[lp.data][k] > 0} \in SUBSET Keys
    BY <1>13 DEF RunBlock
  <2>2. LpType' /\ lp'.pc = "track" /\ lp'.h = lp.h /\ lp'.data = lp.data /\ lp'.hash = lp.hash
    BY <1>2, <2>1 DEF LpType, DriverPcs
  <2> QED
    BY <1>9, <2>1, <2>2
<1>17. CASE \E k \in Keys : TrackKey(k)
  <2>1. PICK k \in Keys : lp' = [lp EXCEPT !.left = lp.left \ {k}] /\ lp.pc = "track"
    BY <1>17 DEF TrackKey
  <2>2. LpType' /\ lp'.pc = "track" /\ lp'.h = lp.h /\ lp'.data = lp.data /\ lp'.hash = lp.hash
    BY <1>2, <2>1 DEF LpType, DriverPcs
  <2> QED
    BY <1>9, <2>1, <2>2
<1>18. CASE BlockRan
  BY <1>2, <1>9, <1>18 DEF LpType, DriverPcs, BlockRan
<1>14. CASE RejectBlock
  BY <1>7, <1>14 DEF RejectBlock, Idle
<1>15. CASE CreateSnapshot
  BY <1>8, <1>15 DEF CreateSnapshot, Idle
<1>16. CASE NoSnapshot
  BY <1>8, <1>16 DEF NoSnapshot, Idle
<1> QED
  BY <1>1, <1>5, <1>6, <1>11, <1>12, <1>13, <1>14, <1>15, <1>16, <1>17, <1>18 DEF ProcessingStep

(* The block that is committed is the node's at the next height, or the    *)
(* first of an empty index. *)
LEMMA CommitKeeps ==
  ASSUME LoopBase, CommitBlock
  PROVE  /\ LoopBase' /\ lp.h \in Heights /\ indexed' = lp.h
         /\ FreshDb \/ lp.h = indexed + 1
         /\ lp.hash \in Blocks /\ Height[lp.hash] = lp.h
         /\ lp.data \in Blocks /\ Height[lp.data] = lp.h
         /\ \A h \in Heights : hash'[h] = IF h = lp.h THEN lp.hash ELSE hash[h]
         /\ \A h \in Heights : body'[h] = IF h = lp.h THEN lp.data ELSE body[h]
         /\ \A h \in Heights : h >= lp.h => hash[h] = NoBlock /\ body[h] = NoBlock
<1> USE LedgerConstants, LoopConstants
<1>1. /\ IndexBase /\ LpType /\ Places /\ Fetched /\ lp.pc = "commit"
      /\ FreshDb \/ lp.h = indexed + 1
      /\ hash' = [hash EXCEPT ![Height[lp.hash]] = lp.hash] /\ indexed' = Height[lp.hash]
      /\ body' = [body EXCEPT ![lp.h] = lp.data] /\ BodyBase
      /\ current' = lp.h + 1 /\ lp' = [lp EXCEPT !.pc = "snap"] /\ UNCHANGED <<best, driver>>
  BY DEF LoopBase, CommitBlock, Accepts, Commit, node
<1>2. /\ lp.h <= Height[best] /\ lp.h \in Nat
      /\ lp.data \in Blocks /\ Height[lp.data] = lp.h
      /\ lp.hash \in Blocks /\ Height[lp.hash] = lp.h
  BY <1>1 DEF Fetched, LpType
<1>3. lp.h \in Heights
  BY <1>2
<1>4. /\ \A h \in Heights : hash'[h] = IF h = lp.h THEN lp.hash ELSE hash[h]
      /\ \A h \in Heights : body'[h] = IF h = lp.h THEN lp.data ELSE body[h]
  BY <1>1, <1>2, <1>3 DEF IndexBase, BodyBase
<1>5. /\ hash' \in [Heights -> Blocks \cup {NoBlock}]
      /\ body' \in [Heights -> Blocks \cup {NoBlock}]
  BY <1>1, <1>2, <1>3 DEF IndexBase, BodyBase
<1>6. \A h \in Heights : h >= lp.h => hash[h] = NoBlock
  <2>1. CASE FreshDb
    BY <1>1, <1>2, <2>1 DEF FreshDb, IndexBase
  <2>2. CASE lp.h = indexed + 1
    BY <1>1, <2>2 DEF IndexBase
  <2> QED
    BY <1>1, <2>1, <2>2
<1>7. \A h \in Heights : hash[h] # NoBlock => h <= lp.h
  BY <1>2, <1>6
<1>8. IndexBase'
  BY <1>1, <1>2, <1>3, <1>4, <1>5, <1>7 DEF IndexBase
<1>9. LpType' /\ lp'.pc = "snap" /\ lp'.h = lp.h
  BY <1>1 DEF LpType, DriverPcs
<1>10. Places' /\ Fetched' /\ Undoing'
  BY <1>1, <1>2, <1>3, <1>9 DEF Places, Fetched, Undoing
<1>11. BodyBase'
  BY <1>1, <1>2, <1>3, <1>4, <1>5 DEF BodyBase
<1>12. \A h \in Heights : h >= lp.h => body[h] = NoBlock
  BY <1>1, <1>6 DEF BodyBase
<1> QED
  BY <1>1, <1>2, <1>3, <1>4, <1>6, <1>8, <1>9, <1>10, <1>11, <1>12 DEF LoopBase

(* A restarted process resumes above the index. *)
LEMMA RestartKeeps ==
  ASSUME LoopBase, Restart
  PROVE  LoopBase' /\ UNCHANGED <<best, indexed, hash, body, crossed, jumped>>
<1> USE LedgerConstants, LoopConstants
<1>1. /\ UNCHANGED <<best, indexed, hash, body, crossed, driver, jumped>>
      /\ current' = IF indexed = 0 THEN StartBlock ELSE indexed + 1
      /\ lp' = [pc |-> "start", h |-> current', data |-> NoBlock, hash |-> NoBlock, tries |-> 0,
                left |-> {}, crossed |-> FALSE]
  BY DEF Restart, node, index, ran, Idle
<1>2. IndexBase' /\ BodyBase' /\ indexed \in 0 .. MaxHeight /\ Places
  BY <1>1, IndexFrame, BodyFrame DEF LoopBase, IndexBase
<1>3. current' \in 0 .. MaxHeight + 1 /\ indexed <= current'
  BY <1>1, <1>2
<1>4. LpType' /\ Places' /\ Fetched' /\ Undoing'
  BY <1>1, <1>2, <1>3 DEF LpType, Places, Fetched, Undoing, DriverPcs
<1> QED
  BY <1>1, <1>2, <1>4 DEF LoopBase

(* The rebuilding host touches nothing of this one. *)
RebuildStep == ConsumerStep \/ DownloadFails \/ ConsumerDies

LEMMA RebuildFrame ==
  ASSUME RebuildStep
  PROVE  UNCHANGED <<best, indexed, hash, body, crossed, driver, current, lp, jumped,
                     tracked, lastSnap, repo, lossy>>
BY DEF RebuildStep, ConsumerStep, SyncStarts, SkipPartial, ApplyInterval, PutKey, PutTip,
       SyncEnds, DownloadFails, ConsumerDies, conOthers, loopVars, snapVars, ran

LEMMA LoopBaseFrame ==
  ASSUME LoopBase, UNCHANGED <<best, indexed, hash, body, driver, current, lp>>
  PROVE  LoopBase'
BY IndexFrame, BodyFrame DEF LoopBase, LpType, Places, Fetched, Undoing

(* The node grows and reorganises at any time. *)
LEMMA NodeMoveKeeps ==
  ASSUME LoopBase, SnapNode
  PROVE  /\ LoopBase'
         /\ UNCHANGED <<indexed, hash, body, crossed, driver, current, jumped, tracked, lastSnap,
                        repo, lossy, con>>
         /\ UNCHANGED <<lp.pc, lp.h, lp.data, lp.hash, lp.left>>
         /\ lp.crossed => lp'.crossed
<1> USE LedgerConstants, LoopConstants
<1>1. PICK t \in Blocks :
        \/ NodeGrows(t) /\ lp' = lp
        \/ NodeReorganises(t) /\ lp' = [lp EXCEPT !.crossed = lp.crossed \/ Choosing]
  BY DEF SnapNode
<1>2. UNCHANGED <<indexed, hash, body, crossed, driver, current, jumped, tracked, lastSnap, repo,
                  lossy, con>>
  BY <1>1 DEF SnapNode, NodeGrows, NodeReorganises, index, ran, snapVars
<1>3. IndexBase /\ LpType /\ BodyBase'
  BY <1>2, BodyFrame DEF LoopBase
<1>4. /\ LpType' /\ UNCHANGED <<lp.pc, lp.h, lp.data, lp.hash, lp.left>>
      /\ lp.crossed => lp'.crossed
  <2>1. CASE lp' = lp
    BY <1>3, <2>1 DEF LpType
  <2>2. CASE lp' = [lp EXCEPT !.crossed = lp.crossed \/ Choosing]
    <3>1. (lp.crossed \/ Choosing) \in BOOLEAN
      OBVIOUS
    <3>2. lp'.crossed = (lp.crossed \/ Choosing)
      BY <1>3, <2>2 DEF LpType
    <3> QED
      BY <1>3, <2>2, <3>1, <3>2 DEF LpType
  <2> QED
    BY <1>1, <2>1, <2>2
<1>5. IndexBase' /\ Height[best] <= Height[best'] /\ Height[best] \in Int /\ Height[best'] \in Int
  <2>1. CASE NodeGrows(t)
    <3>1. IndexBase' /\ Height[best'] = Height[best] + 1
      BY <1>3, <2>1, GrowthIsInvisible
    <3> QED
      BY <1>3, <3>1 DEF IndexBase
  <2>2. CASE NodeReorganises(t)
    <3>1. best' = t /\ Height[t] >= Height[best]
      BY <2>2 DEF NodeReorganises
    <3>2. Height[best] \in Int /\ Height[t] \in Int
      BY <1>3 DEF IndexBase
    <3> QED
      BY <1>2, <1>3, <3>1, <3>2 DEF IndexBase
  <2> QED
    BY <1>1, <2>1, <2>2
<1>6. Places' /\ Undoing'
  BY <1>2, <1>4 DEF LoopBase, Places, Undoing
<1>7. Fetched'
  <2>1. lp.h \in Int
    BY <1>3 DEF LpType
  <2> QED
    BY <1>4, <1>5, <2>1 DEF LoopBase, Fetched
<1> QED
  BY <1>2, <1>3, <1>4, <1>5, <1>6, <1>7 DEF LoopBase

LEMMA LoopBaseKept == LoopBase /\ [SnapNext]_allVars => LoopBase'
<1> SUFFICES ASSUME LoopBase, [SnapNext]_allVars PROVE LoopBase'
  OBVIOUS
<1>1. CASE DriverStep \/ StepFails
  BY <1>1, ChoosingKeeps, UndoKeeps, ProcessingKeeps, CommitKeeps DEF DriverStep, ProcessingStep
<1>2. CASE Restart
  BY <1>2, RestartKeeps
<1>3. CASE \E s \in Heights : ApplySnapshot(s)
  BY <1>3, ApplyKeeps
<1>4. CASE RebuildStep
  BY <1>4, RebuildFrame, LoopBaseFrame
<1>5. CASE SnapNode
  BY <1>5, NodeMoveKeeps
<1>6. CASE UNCHANGED allVars
  BY <1>6, LoopBaseFrame DEF allVars
<1> QED
  BY <1>1, <1>2, <1>3, <1>4, <1>5, <1>6 DEF SnapNext, SnapDone, RebuildStep

-----------------------------------------------------------------------------
(***************************************************************************)
(* The changes that are tracked between two snapshots.                     *)
(***************************************************************************)

(* The block executed at x sets k. *)
SetBy(x, k) == body[x] # NoBlock /\ Updates[body[x]][k] > 0

(* The changes of block 0 are in no snapshot ("change_height >             *)
(* last_snapshot_height", which starts at 0), so nothing is said of an     *)
(* index that begins with a block 0 that sets keys.                        *)
GenesisSetsNothing ==
  StartBlock = 0 => \A b \in Blocks : Height[b] = 0 => \A k \in Keys : Updates[b][k] = 0

(* The loop asks again for the height of the snapshot it has applied, and  *)
(* may roll it back instead. *)
Stuck == driver # "next" /\ lp.pc # "snap" /\ (lp.h = indexed \/ lp.pc = "undo")

TrackType ==
  /\ tracked \in [Keys -> Blocks \cup {NoBlock}] /\ lastSnap \in Heights
  /\ lossy \in BOOLEAN
  /\ \A k \in Keys : tracked[k] # NoBlock => Updates[tracked[k]][k] > 0
  /\ lp.pc = "track" => \A k \in lp.left : Updates[lp.data][k] > 0
  /\ lp.pc = "commit" => lp.left = {}
  /\ \A k \in Keys : ~ SetBy(0, k)

(* A key that a recorded block has set since the last snapshot is tracked, *)
(* with that block or with one at least as high.                           *)
Covers ==
  /\ lastSnap <= indexed
  /\ lp.pc = "snap" => lastSnap < lp.h \/ lp.h = 0
  /\ \A k \in Keys : \A x \in Heights :
        lastSnap < x /\ x <= indexed /\ SetBy(x, k) /\ (x = indexed => ~ Stuck)
          => tracked[k] # NoBlock /\ Height[tracked[k]] >= x

(* Of a block above the last snapshot, every key that was flushed is       *)
(* tracked. *)
Gathered ==
  lp.pc \in {"track", "commit"} /\ lastSnap < lp.h =>
    \A k \in Keys : Updates[lp.data][k] > 0 /\ k \notin lp.left => tracked[k] = lp.data

TrackInv == TrackType /\ (~lossy => Covers /\ Gathered)

LEMMA TrackInit == SnapInit => TrackInv
<1> SUFFICES ASSUME SnapInit PROVE TrackInv
  OBVIOUS
<1> USE LedgerConstants, LoopConstants
<1>1. /\ indexed = 0 /\ body = [h \in Heights |-> NoBlock] /\ lastSnap = 0 /\ lossy = FALSE
      /\ tracked = [k \in Keys |-> NoBlock] /\ lp.pc = "start"
  BY DEF SnapInit, LedgerInit, Idle, Nothing
<1>2. \A x \in Heights : \A k \in Keys : ~ SetBy(x, k)
  BY <1>1 DEF SetBy
<1>3. TrackType
  <2>1. 0 \in Heights /\ \A k \in Keys : tracked[k] = NoBlock
    BY <1>1
  <2> QED
    BY <1>1, <1>2, <2>1 DEF TrackType
<1>4. Covers /\ Gathered
  BY <1>1, <1>2 DEF Covers, Gathered
<1> QED
  BY <1>3, <1>4 DEF TrackInv

(* Steps that touch neither the index nor what is tracked. *)
LEMMA TrackFrame ==
  ASSUME TrackInv, UNCHANGED <<indexed, body, tracked, lastSnap, lossy>>,
         Stuck => Stuck',
         lp'.pc \in {"track", "commit", "snap"} => UNCHANGED <<lp.pc, lp.h, lp.data, lp.left>>
  PROVE  TrackInv'
<1>1. \A x \in Heights : \A k \in Keys : SetBy(x, k)' <=> SetBy(x, k)
  BY DEF SetBy
<1>2. TrackType'
  BY <1>1, LedgerConstants DEF TrackInv, TrackType
<1>3. Covers => Covers'
  BY <1>1 DEF Covers
<1>4. Gathered => Gathered'
  BY DEF Gathered
<1> QED
  BY <1>2, <1>3, <1>4 DEF TrackInv

LEMMA ChoosingTracks ==
  ASSUME LoopBase, TrackInv,
         NextCall \/ LoopRound \/ ChooseBlock \/ GetData \/ GetHash \/ Attempt
         \/ StepFails \/ RejectBlock \/ NoSnapshot
  PROVE  TrackInv' /\ UNCHANGED <<body, lastSnap, repo, lossy, con>>
<1> USE LedgerConstants, LoopConstants
<1>1. UNCHANGED <<indexed, body, tracked, lastSnap, lossy, repo, con, driver, current>>
  BY DEF NextCall, LoopRound, ChooseBlock, GetData, GetHash, Attempt, StepFails, RejectBlock,
         NoSnapshot, chooseOthers, snapVars, ledger, node, index, ran
<1>2. LpType /\ Places /\ indexed \in Int
  BY DEF LoopBase, IndexBase
<1>3. lp'.pc \notin {"track", "commit", "snap"}
  BY <1>2 DEF NextCall, LoopRound, ChooseBlock, GetData, GetHash, Attempt, StepFails, RejectBlock,
              NoSnapshot, Idle, LpType
<1>4. /\ \/ lp'.h = lp.h
         \/ lp'.pc = "undo"
         \/ driver = "next"
         \/ lp.h < current /\ lp.pc = "guard"
         \/ lp.pc = "snap"
      /\ lp.pc # "undo"
  BY <1>2 DEF NextCall, LoopRound, ChooseBlock, GetData, GetHash, Attempt, StepFails, RejectBlock,
              NoSnapshot, Idle, LpType
<1>5. Stuck => Stuck'
  BY <1>1, <1>2, <1>3, <1>4 DEF Stuck, Places, LpType
<1> QED
  BY <1>1, <1>3, <1>5, TrackFrame

(* What is dropped, if nothing was lost, is nothing of this interval.      *)
LEMMA NothingCovered ==
  ASSUME LoopBase, TrackInv, ~lossy, NEW k \in Keys, ~Changed(k), NEW x \in Heights,
         lastSnap < x, x <= indexed, x = indexed => ~ Stuck
  PROVE  ~ SetBy(x, k)
<1> USE LedgerConstants
<1>1. SetBy(x, k) => tracked[k] # NoBlock /\ Height[tracked[k]] >= x
  BY DEF TrackInv, Covers
<1>2. lastSnap \in Heights /\ tracked[k] \in Blocks \cup {NoBlock}
  BY DEF TrackInv, TrackType
<1>3. tracked[k] # NoBlock => Height[tracked[k]] \in Int
  BY <1>2
<1> QED
  BY <1>1, <1>2, <1>3 DEF Changed

LEMMA RunTracks ==
  ASSUME LoopBase, TrackInv, RunBlock
  PROVE  TrackInv' /\ UNCHANGED <<body, lastSnap, repo, con>> /\ (~lossy' => ~lossy)
<1> USE LedgerConstants, LoopConstants
<1>1. /\ UNCHANGED <<indexed, body, lastSnap, repo, con, driver>> /\ lp.pc = "run"
      /\ lp' = [lp EXCEPT !.pc = "track", !.left = {k \in Keys : Updates[lp.data][k] > 0}]
      /\ \/ UNCHANGED <<tracked, lossy>>
         \/ /\ tracked' = [k \in Keys |-> NoBlock]
            /\ lossy' = (lossy \/ \E k \in Keys : Changed(k))
  BY DEF RunBlock, ledger, ran, Nothing
<1>2. /\ lp'.pc = "track" /\ lp'.h = lp.h /\ lp'.data = lp.data
      /\ lp'.left = {k \in Keys : Updates[lp.data][k] > 0}
  BY <1>1 DEF LoopBase, LpType
<1>3. \A x \in Heights : \A k \in Keys : SetBy(x, k)' <=> SetBy(x, k)
  BY <1>1 DEF SetBy
<1>4. TrackType'
  <2>1. /\ tracked' \in [Keys -> Blocks \cup {NoBlock}] /\ lossy' \in BOOLEAN
        /\ \A k \in Keys : tracked'[k] # NoBlock => Updates[tracked'[k]][k] > 0
    BY <1>1 DEF TrackInv, TrackType
  <2>2. \A k \in Keys : ~ SetBy(0, k)'
    BY <1>1 DEF TrackInv, TrackType, SetBy
  <2> QED
    BY <1>1, <1>2, <2>1, <2>2 DEF TrackInv, TrackType
<1>5. ASSUME ~lossy' PROVE ~lossy /\ Covers' /\ Gathered'
  <2>6. ~lossy /\ (UNCHANGED tracked \/ \A k \in Keys : ~Changed(k))
    <3>1. CASE UNCHANGED <<tracked, lossy>>
      BY <1>5, <3>1
    <3>2. CASE lossy' = (lossy \/ \E k \in Keys : Changed(k))
      BY <1>5, <3>2
    <3> QED
      BY <1>1, <3>1, <3>2
  <2>1. ~lossy /\ Covers
    BY <2>6 DEF TrackInv
  <2>2. Gathered'
    BY <1>2 DEF Gathered
  <2>3. Stuck' <=> Stuck
    BY <1>1, <1>2 DEF Stuck
  <2>7. UNCHANGED <<indexed, lastSnap>> /\ lp'.pc # "snap"
    BY <1>1, <1>2
  <2>4. ASSUME NEW k \in Keys, NEW x \in Heights, lastSnap < x, x <= indexed, SetBy(x, k),
               x = indexed => ~ Stuck
        PROVE  tracked'[k] # NoBlock /\ Height[tracked'[k]] >= x
    <3>1. CASE UNCHANGED tracked
      BY <2>1, <2>4, <3>1 DEF Covers
    <3>2. CASE \A j \in Keys : ~Changed(j)
      BY <2>1, <2>4, <3>2, NothingCovered
    <3> QED
      BY <2>6, <3>1, <3>2
  <2>5. Covers'
    BY <1>3, <2>1, <2>3, <2>4, <2>7 DEF Covers
  <2> QED
    BY <2>1, <2>2, <2>5
<1>6. UNCHANGED <<body, lastSnap, repo, con>>
  BY <1>1
<1> QED
  BY <1>4, <1>5, <1>6 DEF TrackInv

LEMMA KeyTracks ==
  ASSUME LoopBase, TrackInv, NEW q \in Keys, TrackKey(q)
  PROVE  TrackInv' /\ UNCHANGED <<body, lastSnap, repo, con>> /\ (~lossy' => ~lossy)
<1> USE LedgerConstants, LoopConstants
<1>1. /\ UNCHANGED <<indexed, body, lastSnap, repo, con, driver>> /\ lp.pc = "track"
      /\ lp' = [lp EXCEPT !.left = lp.left \ {q}] /\ q \in lp.left
      /\ lossy' = (lossy \/ (Full /\ Loses(q)))
  BY DEF TrackKey, ledger, ran
<1>2. /\ lp'.pc = "track" /\ lp'.h = lp.h /\ lp'.data = lp.data /\ lp'.left = lp.left \ {q}
      /\ lp.h \in Int
  BY <1>1 DEF LoopBase, LpType
<1>3. /\ lp.data \in Blocks /\ Height[lp.data] = lp.h /\ Updates[lp.data][q] > 0
      /\ indexed <= lp.h /\ indexed \in Heights
  BY <1>1 DEF LoopBase, Fetched, Places, IndexBase, TrackInv, TrackType
<1>4. /\ tracked' = [k \in Keys |-> tracked'[k]]
      /\ \A k \in Keys : tracked'[k] = IF k = q THEN lp.data
                                       ELSE IF Full THEN NoBlock ELSE tracked[k]
  <2>1. tracked' = [IF Full THEN Nothing ELSE tracked EXCEPT ![q] = lp.data]
    BY DEF TrackKey
  <2>2. DOMAIN tracked = Keys
    BY DEF TrackInv, TrackType
  <2> HIDE DEF Full
  <2>3. CASE Full
    BY <2>1, <2>3 DEF Nothing
  <2>4. CASE ~Full
    BY <2>1, <2>2, <2>4
  <2> QED
    BY <2>3, <2>4
<1>5. \A x \in Heights : \A k \in Keys : SetBy(x, k)' <=> SetBy(x, k)
  BY <1>1 DEF SetBy
<1>6. TrackType'
  <2>1. \A k \in Keys : tracked'[k] \in Blocks \cup {NoBlock}
    BY <1>3, <1>4 DEF TrackInv, TrackType
  <2>2. tracked' \in [Keys -> Blocks \cup {NoBlock}]
    BY <1>4, <2>1
  <2>3. \A k \in Keys : tracked'[k] # NoBlock => Updates[tracked'[k]][k] > 0
    BY <1>3, <1>4 DEF TrackInv, TrackType
  <2>4. \A k \in lp'.left : Updates[lp'.data][k] > 0
    BY <1>1, <1>2 DEF TrackInv, TrackType
  <2>5. \A k \in Keys : ~ SetBy(0, k)'
    BY <1>1 DEF TrackInv, TrackType, SetBy
  <2> QED
    BY <1>1, <1>2, <2>2, <2>3, <2>4, <2>5 DEF TrackInv, TrackType
<1>7. ASSUME ~lossy' PROVE ~lossy /\ Covers' /\ Gathered'
  <2>1. ~lossy /\ Covers /\ Gathered /\ (Full => \A k \in Keys : k # q => ~Changed(k))
    BY <1>1, <1>7 DEF TrackInv, Loses
  <2>2. lastSnap \in Heights
    BY DEF TrackInv, TrackType
  <2>3. Stuck' <=> Stuck
    BY <1>1, <1>2 DEF Stuck
  <2>4. ASSUME NEW k \in Keys, NEW x \in Heights, lastSnap < x, x <= indexed, SetBy(x, k),
               x = indexed => ~ Stuck
        PROVE  tracked'[k] # NoBlock /\ Height[tracked'[k]] >= x
    <3>1. CASE k = q
      <4>1. lp.h >= x
        BY <1>2, <1>3, <2>4
      <4> QED
        BY <1>3, <1>4, <3>1, <4>1
    <3>2. CASE k # q /\ Full
      BY <2>1, <2>4, <3>2, NothingCovered
    <3>3. CASE k # q /\ ~Full
      <4>1. tracked'[k] = tracked[k]
        BY <1>4, <3>3
      <4> QED
        BY <2>1, <2>4, <4>1 DEF Covers
    <3> QED
      BY <3>1, <3>2, <3>3
  <2>5. Covers'
    BY <1>1, <1>2, <1>5, <2>1, <2>3, <2>4 DEF Covers
  <2>6. ASSUME NEW k \in Keys, lastSnap < lp.h, Updates[lp.data][k] > 0, k \notin lp'.left
        PROVE  tracked'[k] = lp.data
    <3>1. CASE k = q
      BY <1>4, <3>1
    <3>2. CASE k # q
      <4>1. tracked[k] = lp.data
        BY <1>1, <1>2, <2>1, <2>6, <3>2 DEF Gathered
      <4>2. Changed(k)
        BY <1>2, <1>3, <2>2, <2>6, <4>1 DEF Changed
      <4>3. ~Full
        BY <2>1, <3>2, <4>2
      <4> QED
        BY <1>4, <3>2, <4>1, <4>3
    <3> QED
      BY <3>1, <3>2
  <2>7. Gathered'
    BY <1>1, <1>2, <2>6 DEF Gathered
  <2> QED
    BY <2>1, <2>5, <2>7
<1> QED
  BY <1>1, <1>6, <1>7 DEF TrackInv

LEMMA RanTracks ==
  ASSUME LoopBase, TrackInv, BlockRan
  PROVE  TrackInv' /\ UNCHANGED <<body, lastSnap, repo, con, lossy>>
<1> USE LedgerConstants, LoopConstants
<1>1. /\ UNCHANGED <<indexed, body, tracked, lastSnap, repo, con, driver, lossy>>
      /\ lp.pc = "track" /\ lp.left = {} /\ lp' = [lp EXCEPT !.pc = "commit"]
  BY DEF BlockRan, chooseOthers, ledger, ran, snapVars
<1>2. /\ lp'.pc = "commit" /\ lp'.h = lp.h /\ lp'.data = lp.data /\ lp'.left = lp.left
  BY <1>1 DEF LoopBase, LpType
<1>3. \A x \in Heights : \A k \in Keys : SetBy(x, k)' <=> SetBy(x, k)
  BY <1>1 DEF SetBy
<1>4. TrackType'
  BY <1>1, <1>2, <1>3 DEF TrackInv, TrackType
<1>5. Stuck' <=> Stuck
  BY <1>1, <1>2 DEF Stuck
<1>6. Covers => Covers'
  BY <1>1, <1>2, <1>3, <1>5 DEF Covers
<1>7. Gathered => Gathered'
  BY <1>1, <1>2 DEF Gathered
<1> QED
  BY <1>1, <1>4, <1>6, <1>7 DEF TrackInv

LEMMA CommitTracks ==
  ASSUME GenesisSetsNothing, LoopBase, TrackInv, CommitBlock
  PROVE  /\ TrackInv' /\ UNCHANGED <<lastSnap, repo, lossy, con>>
         /\ \A x \in Heights : \A k \in Keys :
               x <= lastSnap /\ ~lossy => (SetBy(x, k)' <=> SetBy(x, k))
         /\ \A x \in Heights : body[x] # NoBlock => body'[x] = body[x]
<1> USE LedgerConstants, LoopConstants
<1>1. /\ UNCHANGED <<best, tracked, lastSnap, repo, lossy, con, driver>> /\ lp.pc = "commit"
      /\ lp' = [lp EXCEPT !.pc = "snap"]
  BY DEF CommitBlock, snapVars, node
<1>2. /\ lp.h \in Heights /\ indexed' = lp.h
      /\ FreshDb \/ lp.h = indexed + 1
      /\ lp.data \in Blocks /\ Height[lp.data] = lp.h
      /\ \A h \in Heights : body'[h] = IF h = lp.h THEN lp.data ELSE body[h]
      /\ \A h \in Heights : h >= lp.h => body[h] = NoBlock
  BY CommitKeeps
<1>3. LpType /\ Places /\ indexed \in Heights
  BY DEF LoopBase, IndexBase
<1>4. lp'.pc = "snap" /\ lp'.h = lp.h
  BY <1>1, <1>3 DEF LpType
<1>5. lp.h = 0 => \A k \in Keys : Updates[lp.data][k] = 0
  BY <1>1, <1>2, <1>3 DEF GenesisSetsNothing, Places
<1>6. \A x \in Heights : \A k \in Keys :
         SetBy(x, k)' <=> IF x = lp.h THEN Updates[lp.data][k] > 0 ELSE SetBy(x, k)
  BY <1>2 DEF SetBy
<1>7. TrackType'
  <2>1. \A k \in Keys : ~ SetBy(0, k)'
    BY <1>5, <1>6 DEF TrackInv, TrackType
  <2> QED
    BY <1>1, <1>4, <2>1 DEF TrackInv, TrackType
<1>8. ASSUME ~lossy
      PROVE  Covers' /\ Gathered' /\ (lastSnap < lp.h \/ (lp.h = 0 /\ lastSnap = 0))
  <2>1. Covers /\ Gathered /\ lastSnap \in Heights
    BY <1>8 DEF TrackInv, TrackType
  <2>2. lastSnap <= indexed /\ (FreshDb => indexed = 0)
    BY <2>1 DEF Covers, FreshDb
  <2>3. lastSnap < lp.h \/ (lp.h = 0 /\ lastSnap = 0)
    <3>1. lp.h = indexed + 1 \/ indexed = 0
      BY <1>2, <2>2
    <3>2. lp.h \in Nat /\ indexed \in Nat /\ lastSnap \in Nat
      BY <1>2, <1>3, <2>1
    <3>3. lp.h = indexed + 1 => lastSnap < lp.h
      BY <2>2, <3>2
    <3>4. indexed = 0 => lastSnap < lp.h \/ (lp.h = 0 /\ lastSnap = 0)
      BY <2>2, <3>2
    <3> QED
      BY <3>1, <3>3, <3>4
  <2>4. ASSUME NEW k \in Keys, NEW x \in Heights, lastSnap < x, x <= lp.h, SetBy(x, k)'
        PROVE  tracked[k] # NoBlock /\ Height[tracked[k]] >= x
    <3>1. CASE x = lp.h
      <4>1. tracked[k] = lp.data
        BY <1>1, <1>6, <2>1, <2>4, <3>1 DEF Gathered, TrackInv, TrackType
      <4> QED
        BY <1>2, <3>1, <4>1
    <3>2. CASE x # lp.h
      <4>1. SetBy(x, k) /\ x < lp.h
        BY <1>2, <1>6, <2>4, <3>2
      <4>2. x <= indexed
        BY <4>1 DEF SetBy, LoopBase, IndexBase, BodyBase
      <4>3. lp.h = indexed + 1
        BY <1>2, <1>3, <2>1, <2>2, <2>4, <4>2
      <4>4. ~ Stuck
        BY <1>1, <1>3, <4>3 DEF Stuck
      <4> QED
        BY <2>1, <2>4, <4>1, <4>2, <4>4 DEF Covers
    <3> QED
      BY <3>1, <3>2
  <2>5. lastSnap <= lp.h
    BY <2>3, <1>2, <2>1
  <2> QED
    BY <1>1, <1>2, <1>4, <2>3, <2>4, <2>5 DEF Covers, Gathered
<1>9. ASSUME NEW x \in Heights, NEW k \in Keys, x <= lastSnap, ~lossy
      PROVE  SetBy(x, k)' <=> SetBy(x, k)
  <2>1. x # lp.h \/ lp.h = 0
    <3>1. lastSnap < lp.h \/ lp.h = 0
      BY <1>8, <1>9
    <3>2. lp.h \in Nat /\ lastSnap \in Nat /\ x \in Nat
      BY <1>2 DEF TrackInv, TrackType
    <3> QED
      BY <1>9, <3>1, <3>2
  <2>2. ~ SetBy(0, k)
    BY DEF TrackInv, TrackType
  <2>3. CASE x = lp.h
    BY <1>5, <1>6, <2>1, <2>2, <2>3
  <2>4. CASE x # lp.h
    BY <1>6, <2>4
  <2> QED
    BY <2>3, <2>4
<1> QED
  BY <1>1, <1>2, <1>7, <1>8, <1>9 DEF TrackInv

(* A rollback that loses nothing of a snapshot leaves what it is of.       *)
LEMMA UndoTracks ==
  ASSUME LoopBase, TrackInv, Undo
  PROVE  /\ TrackInv' /\ UNCHANGED <<lastSnap, repo, con>> /\ (~lossy' => ~lossy)
         /\ ~lossy' => \A x \in Heights : x <= lastSnap => body'[x] = body[x]
<1> USE LedgerConstants, LoopConstants
<1>1. /\ UNCHANGED <<best, tracked, lastSnap, repo, con, driver>>
      /\ lossy' = (lossy \/ lp.h < lastSnap)
      /\ lp' = [pc |-> "top", h |-> lp.h + 1, data |-> NoBlock, hash |-> NoBlock,
                tries |-> 0,
                left |-> {}, crossed |-> FALSE]
      /\ lp.pc = "undo"
  BY DEF Undo, RollsBack, Idle
<1>2. /\ indexed' = lp.h /\ lp.h \in Heights
      /\ indexed' < indexed /\ indexed \in Heights
      /\ \A h \in Heights : body'[h] = IF h > indexed' THEN NoBlock ELSE body[h]
  BY UndoLowers DEF LoopBase, IndexBase
<1>3. \A x \in Heights : \A k \in Keys : SetBy(x, k)' <=> x <= indexed' /\ SetBy(x, k)
  BY <1>2 DEF SetBy
<1>4. TrackType'
  BY <1>1, <1>2, <1>3 DEF TrackInv, TrackType
<1>5. lastSnap \in Heights
  BY DEF TrackInv, TrackType
<1>6. ASSUME ~lossy'
      PROVE  /\ ~lossy /\ Covers' /\ Gathered' /\ lastSnap <= indexed'
             /\ \A x \in Heights : x <= lastSnap => body'[x] = body[x]
  <2>1. ~lossy /\ ~ (indexed' < lastSnap)
    BY <1>1, <1>2, <1>6
  <2>5. lastSnap <= indexed'
    BY <1>2, <1>5, <2>1
  <2>2. \A x \in Heights : x <= lastSnap => body'[x] = body[x]
    BY <1>2, <1>5, <2>5
  <2>3. Covers
    BY <2>1 DEF TrackInv
  <2>4. ASSUME NEW k \in Keys, NEW x \in Heights, lastSnap < x, x <= indexed', SetBy(x, k)'
        PROVE  tracked[k] # NoBlock /\ Height[tracked[k]] >= x
    <3>1. x < indexed /\ SetBy(x, k)
      BY <1>2, <1>3, <2>4
    <3> QED
      BY <1>2, <2>3, <2>4, <3>1 DEF Covers
  <2> QED
    BY <1>1, <2>1, <2>2, <2>4, <2>5 DEF Covers, Gathered
<1> QED
  BY <1>1, <1>4, <1>6 DEF TrackInv

(* The height of an applied snapshot is the one whose keys are not         *)
(* tracked: it is asked for again. *)
LEMMA ApplyTracks ==
  ASSUME GenesisSetsNothing, LoopBase, TrackInv, NEW s \in Heights, ApplySnapshot(s)
  PROVE  /\ TrackInv' /\ UNCHANGED <<lastSnap, repo, con, lossy>>
         /\ ~lossy => \A x \in Heights : x <= lastSnap => body'[x] = body[x]
<1> USE LedgerConstants, LoopConstants
<1>1. /\ UNCHANGED <<best, tracked, lastSnap, repo, con, driver, lossy>>
      /\ lp' = [pc |-> "top", h |-> s, data |-> NoBlock, hash |-> NoBlock, tries |-> 0,
                left |-> {}, crossed |-> FALSE]
      /\ driver = "repo" /\ lp.pc \in {"start", "wait"}
  BY DEF ApplySnapshot, Idle, snapVars, node
<1>2. indexed' = s /\ s > indexed /\ \A h \in Heights : h # s => body'[h] = body[h]
  BY ApplyKeeps
<1>3. \A x \in Heights : \A k \in Keys : x # s => (SetBy(x, k)' <=> SetBy(x, k))
  BY <1>2 DEF SetBy
<1>4. Stuck' /\ indexed \in Heights
  BY <1>1, <1>2 DEF Stuck, LoopBase, IndexBase
<1>5. TrackType'
  BY <1>1, <1>2, <1>3, <1>4 DEF TrackInv, TrackType
<1>6. ASSUME ~lossy
      PROVE  Covers' /\ Gathered' /\ \A x \in Heights : x <= lastSnap => body'[x] = body[x]
  <2>1. Covers /\ lastSnap \in Heights
    BY <1>6 DEF TrackInv, TrackType
  <2>2. lastSnap <= indexed
    BY <2>1 DEF Covers
  <2>3. \A x \in Heights : x <= lastSnap => body'[x] = body[x]
    BY <1>2, <1>4, <2>1, <2>2
  <2>4. ASSUME NEW k \in Keys, NEW x \in Heights, lastSnap < x, x <= s, SetBy(x, k)', x # s
        PROVE  tracked[k] # NoBlock /\ Height[tracked[k]] >= x
    <3>1. SetBy(x, k)
      BY <1>3, <2>4
    <3>2. x <= indexed
      BY <3>1 DEF SetBy, LoopBase, IndexBase, BodyBase
    <3>3. x = indexed => ~ Stuck
      <4>1. indexed > 0 /\ lp.pc \in {"start", "wait"} => lp.h > indexed
        BY DEF LoopBase, Places
      <4>2. x = indexed => indexed > 0
        BY <1>4, <2>1, <2>4
      <4>3. lp.h \in Int
        BY DEF LoopBase, LpType
      <4> QED
        BY <1>1, <1>4, <4>1, <4>2, <4>3 DEF Stuck
    <3> QED
      BY <2>1, <2>4, <3>1, <3>2, <3>3 DEF Covers
  <2> QED
    BY <1>1, <1>2, <1>4, <2>1, <2>2, <2>3, <2>4 DEF Covers, Gathered
<1> QED
  BY <1>1, <1>5, <1>6 DEF TrackInv

(* A snapshot starts a new interval; the changes of this one are kept.     *)
LEMMA CreateTracks ==
  ASSUME LoopBase, TrackInv, CreateSnapshot
  PROVE  TrackInv' /\ UNCHANGED <<body, con>> /\ (~lossy' => ~lossy /\ Orphans = {})
<1> USE LedgerConstants, LoopConstants
<1>1. /\ UNCHANGED <<indexed, body, tracked, con>> /\ lastSnap' = lp.h
      /\ lossy' = (lossy \/ Orphans # {})
      /\ lp' = [pc |-> "top", h |-> lp.h + 1, data |-> NoBlock, hash |-> NoBlock, tries |-> 0,
                left |-> {}, crossed |-> FALSE]
      /\ lp.pc = "snap"
  BY DEF CreateSnapshot, Idle, ledger, ran
<1>2. lp.h = indexed /\ indexed \in Heights
  BY <1>1 DEF LoopBase, Places, IndexBase
<1>3. \A x \in Heights : \A k \in Keys : SetBy(x, k)' <=> SetBy(x, k)
  BY <1>1 DEF SetBy
<1>4. TrackType'
  BY <1>1, <1>2, <1>3 DEF TrackInv, TrackType
<1>5. Covers' /\ Gathered'
  BY <1>1, <1>2 DEF Covers, Gathered
<1> QED
  BY <1>1, <1>4, <1>5 DEF TrackInv

(* A restarted process has lost its tracked changes, which are none right  *)
(* after a snapshot. *)
LEMMA RestartTracks ==
  ASSUME LoopBase, TrackInv, Restart
  PROVE  TrackInv' /\ UNCHANGED <<body, repo, con>> /\ (~lossy' => ~lossy /\ lastSnap' = lastSnap)
<1> USE LedgerConstants, LoopConstants
<1>1. /\ UNCHANGED <<indexed, body, repo, con>> /\ lastSnap' = indexed
      /\ lossy' = (lossy \/ lastSnap # indexed) /\ tracked' = [k \in Keys |-> NoBlock]
      /\ lp'.pc = "start"
  BY DEF Restart, Idle, node, index, ran, Nothing
<1>2. indexed \in Heights
  BY DEF LoopBase, IndexBase
<1>3. \A x \in Heights : \A k \in Keys : SetBy(x, k)' <=> SetBy(x, k)
  BY <1>1 DEF SetBy
<1>4. TrackType'
  <2>1. \A k \in Keys : tracked'[k] = NoBlock
    BY <1>1
  <2> QED
    BY <1>1, <1>2, <1>3, <2>1 DEF TrackInv, TrackType
<1>5. Covers' /\ Gathered'
  BY <1>1, <1>2 DEF Covers, Gathered
<1> QED
  BY <1>1, <1>4, <1>5 DEF TrackInv

-----------------------------------------------------------------------------
(***************************************************************************)
(* The snapshots add up to the index.                                      *)
(***************************************************************************)

(* The value of a key is that of the highest block that sets it.           *)
LEMMA ValueNone ==
  ASSUME NEW h \in Heights, NEW k \in Keys, \A x \in 0 .. h : ~ SetBy(x, k)
  PROVE  ValueAt(h)[k] = NoBlock
<1>1. {x \in 0 .. h : body[x] # NoBlock /\ Updates[body[x]][k] > 0} = {}
  BY DEF SetBy
<1> QED
  BY <1>1 DEF ValueAt

LEMMA ValueGreatest ==
  ASSUME NEW h \in Heights, NEW k \in Keys, NEW x \in 0 .. h, SetBy(x, k),
         \A y \in 0 .. h : SetBy(y, k) => y <= x
  PROVE  ValueAt(h)[k] = body[x]
<1> DEFINE S == {y \in 0 .. h : body[y] # NoBlock /\ Updates[body[y]][k] > 0}
<1>1. x \in S /\ \A y \in S : y <= x
  BY DEF SetBy
<1>2. \A y \in S : y \in Int
  BY LedgerConstants
<1> HIDE DEF S
<1>3. (CHOOSE z \in S : \A y \in S : y <= z) = x
  <2>1. PICK z \in S : z = CHOOSE u \in S : \A y \in S : y <= u
    BY <1>1
  <2>2. \A y \in S : y <= z
    BY <1>1, <2>1
  <2> QED
    BY <1>1, <1>2, <2>1, <2>2
<1>4. ValueAt(h)[k] = IF S = {} THEN NoBlock ELSE body[CHOOSE z \in S : \A y \in S : y <= z]
  BY DEF ValueAt, S
<1> QED
  BY <1>1, <1>3, <1>4

(* Each key has a highest setter or none. *)
LEMMA HighestSetter ==
  ASSUME NEW h \in Heights, NEW k \in Keys
  PROVE  \/ \A x \in 0 .. h : ~ SetBy(x, k)
         \/ \E x \in 0 .. h : SetBy(x, k) /\ \A y \in 0 .. h : SetBy(y, k) => y <= x
<1> DEFINE S == {y \in 0 .. h : SetBy(y, k)}
<1>1. S \subseteq 0 .. MaxHeight
  BY LedgerConstants
<1>2. CASE S = {}
  BY <1>2
<1>3. CASE S # {}
  <2>1. \E x \in S : \A y \in S : y <= x
    BY <1>1, <1>3, LedgerConstants, GreatestExists
  <2> QED
    BY <2>1
<1> QED
  BY <1>2, <1>3

LEMMA ValueKnown == ASSUME NEW h \in Heights PROVE ValueAt(h) = [k \in Keys |-> ValueAt(h)[k]]
BY DEF ValueAt

(* Heights that set nothing add nothing. *)
LEMMA ValueUnset ==
  ASSUME NEW l \in Heights, NEW h \in Heights, l <= h, NEW k \in Keys,
         \A x \in Heights : l < x /\ x <= h => ~ SetBy(x, k)
  PROVE  ValueAt(h)[k] = ValueAt(l)[k]
<1>1. \A x \in 0 .. h : x \in Heights /\ (SetBy(x, k) => x \in 0 .. l)
  BY LedgerConstants
<1>2. \A x \in 0 .. l : x \in 0 .. h
  BY LedgerConstants
<1>3. CASE \A x \in 0 .. l : ~ SetBy(x, k)
  <2>1. ValueAt(l)[k] = NoBlock
    BY <1>3, ValueNone
  <2>2. ValueAt(h)[k] = NoBlock
    BY <1>1, <1>3, ValueNone
  <2> QED
    BY <2>1, <2>2
<1>4. CASE \E x \in 0 .. l : SetBy(x, k) /\ \A y \in 0 .. l : SetBy(y, k) => y <= x
  <2>1. PICK x \in 0 .. l : SetBy(x, k) /\ \A y \in 0 .. l : SetBy(y, k) => y <= x
    BY <1>4
  <2>2. ValueAt(l)[k] = body[x]
    BY <2>1, ValueGreatest
  <2>3. x \in 0 .. h /\ \A y \in 0 .. h : SetBy(y, k) => y <= x
    BY <1>1, <1>2, <2>1
  <2>4. ValueAt(h)[k] = body[x]
    BY <2>1, <2>3, ValueGreatest
  <2> QED
    BY <2>2, <2>4
<1> QED
  BY <1>3, <1>4, HighestSetter

(* The index up to a height depends on the records that set a key.         *)
LEMMA ValueSame ==
  ASSUME NEW l \in Heights,
         \A x \in 0 .. l : \A k \in Keys : SetBy(x, k)' <=> SetBy(x, k),
         \A x \in 0 .. l : body[x] # NoBlock => body'[x] = body[x]
  PROVE  ValueAt(l)' = ValueAt(l)
<1> DEFINE S(k) == {x \in 0 .. l : body[x] # NoBlock /\ Updates[body[x]][k] > 0}
           T(k) == {x \in 0 .. l : body'[x] # NoBlock /\ Updates[body'[x]][k] > 0}
           Top(Z) == CHOOSE x \in Z : \A y \in Z : y <= x
<1>1. \A k \in Keys : S(k) = T(k)
  BY DEF SetBy
<1>2. ASSUME NEW k \in Keys, S(k) # {} PROVE body'[Top(S(k))] = body[Top(S(k))]
  <2>1. S(k) \subseteq 0 .. MaxHeight
    BY LedgerConstants
  <2>2. \E x \in S(k) : \A y \in S(k) : y <= x
    BY <1>2, <2>1, LedgerConstants, GreatestExists
  <2>3. Top(S(k)) \in S(k)
    BY <2>2
  <2> QED
    BY <2>3
<1>3. /\ ValueAt(l) = [k \in Keys |-> IF S(k) = {} THEN NoBlock ELSE body[Top(S(k))]]
      /\ ValueAt(l)' = [k \in Keys |-> IF T(k) = {} THEN NoBlock ELSE body'[Top(T(k))]]
  BY DEF ValueAt
<1> HIDE DEF S, T
<1>4. \A k \in Keys : (IF S(k) = {} THEN NoBlock ELSE body[Top(S(k))])
                      = (IF T(k) = {} THEN NoBlock ELSE body'[Top(T(k))])
  BY <1>1, <1>2
<1> QED
  BY <1>3, <1>4

Intervals ==
  [from : Heights, to : Heights, truth : [Keys -> Blocks \cup {NoBlock}],
   diff : UNION {[S -> Blocks] : S \in SUBSET Keys}]

RepoType == repo \in Seq(Intervals)

(* Where the first n intervals end, and the index at that height.          *)
Upto(n) == IF n = 0 THEN 0 ELSE repo[n].to
Truth(n) == IF n = 0 THEN Nothing ELSE repo[n].truth

(* Each interval begins where the one before ends, and its diff is what    *)
(* the index changed by. *)
Chained(i) ==
  /\ repo[i].from = Upto(i - 1) /\ repo[i].from < repo[i].to
  /\ repo[i].to % Interval = 0
  /\ \A k \in Keys :
       repo[i].truth[k] = IF k \in DOMAIN repo[i].diff THEN repo[i].diff[k]
                          ELSE Truth(i - 1)[k]

Ascending == \A i, j \in DOMAIN repo : i < j => repo[i].to < repo[j].to

Complete ==
  /\ lastSnap = Upto(Len(repo))
  /\ \A l \in Heights : l = lastSnap => ValueAt(l) = Truth(Len(repo))
  /\ \A i \in DOMAIN repo : Chained(i)
  /\ Ascending

RepoInv == RepoType /\ (~lossy => Complete)

LEMMA RepoInit == SnapInit => RepoInv
<1> SUFFICES ASSUME SnapInit PROVE RepoInv
  OBVIOUS
<1> USE LedgerConstants, LoopConstants
<1>1. body = [h \in Heights |-> NoBlock] /\ lastSnap = 0 /\ repo = <<>>
  BY DEF SnapInit
<1>2. RepoType /\ DOMAIN repo = {} /\ Len(repo) = 0
  BY <1>1 DEF RepoType
<1>3. ASSUME NEW l \in Heights, l = 0 PROVE ValueAt(l) = Nothing
  <2>1. \A k \in Keys : \A x \in 0 .. l : ~ SetBy(x, k)
    BY <1>1, <1>3 DEF SetBy
  <2>2. \A k \in Keys : ValueAt(l)[k] = NoBlock
    BY <2>1, ValueNone
  <2> QED
    BY <2>2, ValueKnown DEF Nothing
<1> QED
  BY <1>1, <1>2, <1>3 DEF RepoInv, Complete, Upto, Truth, Ascending

(* Steps that leave the snapshots alone, and the index they are of. *)
LEMMA RepoFrame ==
  ASSUME RepoInv, lastSnap \in Heights, UNCHANGED repo,
         ~lossy' => /\ ~lossy /\ lastSnap' = lastSnap
                    /\ \A x \in 0 .. lastSnap : \A k \in Keys : SetBy(x, k)' <=> SetBy(x, k)
                    /\ \A x \in 0 .. lastSnap : body[x] # NoBlock => body'[x] = body[x]
  PROVE  RepoInv'
<1>1. RepoType'
  BY DEF RepoInv, RepoType
<1>2. ASSUME ~lossy' PROVE Complete'
  <2>1. Complete /\ lastSnap' = lastSnap
    BY <1>2 DEF RepoInv
  <2>2. ValueAt(lastSnap) = Truth(Len(repo))
    BY <2>1 DEF Complete
  <2>3. ASSUME NEW l \in Heights, l = lastSnap' PROVE ValueAt(l)' = Truth(Len(repo))'
    <3>1. ValueAt(l)' = ValueAt(l)
      BY <1>2, <2>1, <2>3, ValueSame
    <3>2. Truth(Len(repo))' = Truth(Len(repo))
      BY DEF Truth
    <3> QED
      BY <2>1, <2>2, <2>3, <3>1, <3>2
  <2>4. \A i \in DOMAIN repo' : Chained(i)'
    BY <2>1 DEF Complete, Chained, Upto, Truth
  <2>5. Ascending' /\ lastSnap' = Upto(Len(repo))'
    BY <2>1 DEF Complete, Ascending, Upto
  <2> QED
    BY <2>3, <2>4, <2>5 DEF Complete
<1> QED
  BY <1>1, <1>2 DEF RepoInv

(* The diff that is written, and what the index changed by since the last  *)
(* snapshot. *)
LEMMA DiffIsChange ==
  ASSUME LoopBase, TrackInv, ~lossy, Orphans = {}, lp.pc = "snap", Due(lp.h), NEW k \in Keys
  PROVE  /\ Changed(k) => tracked[k] \in Blocks /\ ValueAt(lp.h)[k] = tracked[k]
         /\ ~Changed(k) => ValueAt(lp.h)[k] = ValueAt(lastSnap)[k]
<1> USE LedgerConstants, LoopConstants
<1>1. /\ lp.h = indexed /\ lp.h \in Heights /\ lp.h > 0 /\ lastSnap \in Heights /\ Covers
      /\ tracked[k] \in Blocks \cup {NoBlock}
  BY DEF LoopBase, Places, IndexBase, TrackInv, TrackType, Due
<1>2. lastSnap < lp.h
  BY <1>1 DEF Covers
<1>3. ~ Stuck
  BY DEF Stuck
<1>4. \A x \in Heights : lastSnap < x /\ x <= lp.h /\ SetBy(x, k)
         => tracked[k] # NoBlock /\ Height[tracked[k]] >= x
  BY <1>1, <1>3 DEF Covers
<1>5. ASSUME Changed(k) PROVE tracked[k] \in Blocks /\ ValueAt(lp.h)[k] = tracked[k]
  <2> DEFINE x == Height[tracked[k]]
  <2>1. tracked[k] \in Blocks /\ x > lastSnap /\ x \in Heights /\ body[x] = tracked[k]
    BY <1>1, <1>5 DEF Changed, Orphans
  <2>2. SetBy(x, k)
    BY <2>1 DEF SetBy, TrackInv, TrackType
  <2>3. x <= lp.h
    BY <1>1, <2>1 DEF LoopBase, IndexBase, BodyBase
  <2>4. ASSUME NEW y \in 0 .. lp.h, SetBy(y, k) PROVE y <= x
    <3>1. lastSnap < y => x >= y
      BY <1>1, <1>4, <2>4
    <3> QED
      BY <1>1, <2>1, <3>1
  <2> HIDE DEF x
  <2>5. x \in 0 .. lp.h
    BY <1>1, <2>1, <2>3
  <2> QED
    BY <1>1, <2>1, <2>2, <2>4, <2>5, ValueGreatest
<1>6. ASSUME ~Changed(k) PROVE ValueAt(lp.h)[k] = ValueAt(lastSnap)[k]
  <2>1. ASSUME NEW x \in Heights, lastSnap < x, x <= lp.h PROVE ~ SetBy(x, k)
    <3>1. SetBy(x, k) => tracked[k] # NoBlock /\ Height[tracked[k]] >= x /\ tracked[k] \in Blocks
      BY <1>1, <1>4, <2>1
    <3>2. SetBy(x, k) => Height[tracked[k]] \in Int /\ Height[tracked[k]] > lastSnap
      BY <1>1, <2>1, <3>1
    <3> QED
      BY <1>6, <3>1, <3>2 DEF Changed
  <2>2. lastSnap <= lp.h
    BY <1>1, <1>2
  <2> QED
    BY <1>1, <2>1, <2>2, ValueUnset
<1> QED
  BY <1>5, <1>6

LEMMA CreateRepo ==
  ASSUME LoopBase, TrackInv, RepoInv, CreateSnapshot
  PROVE  /\ RepoInv' /\ Len(repo') = Len(repo) + 1
         /\ \A i \in DOMAIN repo : i \in DOMAIN repo' /\ repo'[i] = repo[i]
<1> USE LedgerConstants, LoopConstants
<1> DEFINE diff == [k \in {x \in Keys : Changed(x)} |-> tracked[k]]
           new == [from |-> lastSnap, to |-> lp.h, diff |-> diff, truth |-> ValueAt(lp.h)]
<1>0. PICK n \in Nat : n = Len(repo)
  BY DEF RepoInv, RepoType
<1>1. /\ repo' = Append(repo, new) /\ lastSnap' = lp.h /\ body' = body
      /\ lossy' = (lossy \/ Orphans # {}) /\ lp.pc = "snap" /\ Due(lp.h)
  BY DEF CreateSnapshot, ran
<1>2. /\ lp.h \in Heights /\ lp.h = indexed /\ lastSnap \in Heights
      /\ tracked \in [Keys -> Blocks \cup {NoBlock}] /\ body \in [Heights -> Blocks \cup {NoBlock}]
  BY <1>1 DEF LoopBase, Places, IndexBase, BodyBase, TrackInv, TrackType
<1>3. diff \in UNION {[S -> Blocks] : S \in SUBSET Keys}
  <2> DEFINE S == {x \in Keys : Changed(x)}
  <2>1. \A k \in S : tracked[k] \in Blocks
    BY <1>2 DEF Changed
  <2>2. diff \in [S -> Blocks] /\ S \in SUBSET Keys
    BY <2>1
  <2> HIDE DEF S, diff
  <2> QED
    BY <2>2
<1>4. ValueAt(lp.h) \in [Keys -> Blocks \cup {NoBlock}]
  <2>1. ASSUME NEW k \in Keys PROVE ValueAt(lp.h)[k] \in Blocks \cup {NoBlock}
    <3>1. CASE \A x \in 0 .. lp.h : ~ SetBy(x, k)
      BY <1>2, <3>1, ValueNone
    <3>2. CASE \E x \in 0 .. lp.h : SetBy(x, k) /\ \A y \in 0 .. lp.h : SetBy(y, k) => y <= x
      <4>1. PICK x \in 0 .. lp.h : SetBy(x, k) /\ \A y \in 0 .. lp.h : SetBy(y, k) => y <= x
        BY <3>2
      <4>2. ValueAt(lp.h)[k] = body[x] /\ x \in Heights
        BY <1>2, <4>1, ValueGreatest
      <4> QED
        BY <1>2, <4>2
    <3> QED
      BY <1>2, <3>1, <3>2, HighestSetter
  <2> QED
    BY <1>2, <2>1, ValueKnown
<1> HIDE DEF diff
<1>5. new \in Intervals
  BY <1>2, <1>3, <1>4 DEF Intervals
<1> HIDE DEF new
<1>6. /\ repo' \in Seq(Intervals) /\ Len(repo') = n + 1 /\ repo'[n + 1] = new
      /\ \A i \in 1 .. n : repo'[i] = repo[i]
      /\ DOMAIN repo = 1 .. n /\ DOMAIN repo' = 1 .. n + 1 /\ n \in Nat
  BY <1>0, <1>1, <1>5 DEF RepoInv, RepoType
<1>7. \A i \in 0 .. n : Upto(i)' = Upto(i) /\ Truth(i)' = Truth(i)
  BY <1>6 DEF Upto, Truth
<1>8. ASSUME ~lossy' PROVE Complete'
  <2>1. Complete /\ ~lossy /\ Orphans = {}
    BY <1>1, <1>8 DEF RepoInv
  <2>2. /\ lastSnap = Upto(n) /\ ValueAt(lastSnap) = Truth(n)
    BY <1>0, <1>2, <2>1 DEF Complete
  <2>3. lastSnap < lp.h /\ lp.h % Interval = 0
    BY <1>1, <1>2, <2>1 DEF TrackInv, Covers, Due
  <2>4. /\ new.from = lastSnap /\ new.to = lp.h /\ new.truth = ValueAt(lp.h)
        /\ new.diff = diff /\ DOMAIN diff = {x \in Keys : Changed(x)}
        /\ \A k \in Keys : Changed(k) => diff[k] = tracked[k]
    BY DEF new, diff
  <2>5. \A k \in Keys : ValueAt(lp.h)[k] = IF k \in DOMAIN diff THEN diff[k] ELSE Truth(n)[k]
    BY <1>1, <2>1, <2>2, <2>4, DiffIsChange
  <2>6. ASSUME NEW i \in 1 .. n + 1 PROVE Chained(i)'
    <3>1. CASE i \in 1 .. n
      <4>1. Chained(i) /\ i - 1 \in 0 .. n /\ repo'[i] = repo[i]
        BY <1>6, <2>1, <3>1 DEF Complete
      <4>2. Upto(i - 1)' = Upto(i - 1) /\ Truth(i - 1)' = Truth(i - 1)
        BY <1>7, <4>1
      <4> QED
        BY <4>1, <4>2 DEF Chained
    <3>2. CASE i = n + 1
      <4>1. i - 1 = n /\ n \in 0 .. n
        BY <1>6, <3>2
      <4>2. Upto(i - 1)' = lastSnap /\ Truth(i - 1)' = Truth(n) /\ repo'[i] = new
        BY <1>6, <1>7, <2>2, <3>2, <4>1
      <4> QED
        BY <2>3, <2>4, <2>5, <4>2 DEF Chained
    <3> QED
      BY <1>6, <3>1, <3>2
  <2>7. Ascending'
    <3>1. \A i \in 1 .. n : repo[i].to \in Int /\ repo[i].to <= lastSnap
      <4>1. \A i \in 1 .. n : repo[i] \in Intervals
        BY <1>6 DEF RepoInv, RepoType
      <4>2. \A i \in 1 .. n : repo[i].to \in Int
        BY <4>1 DEF Intervals
      <4>3. n > 0 => repo[n].to = lastSnap
        BY <1>6, <2>2 DEF Upto
      <4>4. \A i \in 1 .. n : i < n => repo[i].to < repo[n].to
        BY <1>6, <2>1 DEF Complete, Ascending
      <4> QED
        BY <1>2, <1>6, <4>2, <4>3, <4>4
    <3>2. \A i \in 1 .. n : repo[i].to < lp.h
      BY <1>2, <2>3, <3>1
    <3>3. ASSUME NEW i \in 1 .. n + 1, NEW j \in 1 .. n + 1, i < j PROVE repo'[i].to < repo'[j].to
      <4>1. i \in 1 .. n /\ repo'[i] = repo[i]
        BY <1>6, <3>3
      <4>2. CASE j \in 1 .. n
        BY <1>6, <2>1, <3>3, <4>1, <4>2 DEF Complete, Ascending
      <4>3. CASE j = n + 1
        BY <1>6, <2>4, <3>2, <4>1, <4>3
      <4> QED
        BY <1>6, <4>2, <4>3
    <3> QED
      BY <1>6, <3>3 DEF Ascending
  <2>8. \A l \in Heights : l = lastSnap' => ValueAt(l)' = Truth(n + 1)'
    <3>1. ASSUME NEW l \in Heights, l = lastSnap' PROVE ValueAt(l)' = Truth(n + 1)'
      <4>1. ValueAt(l)' = ValueAt(lp.h)
        BY <1>1, <3>1 DEF ValueAt
      <4>2. Truth(n + 1)' = repo'[n + 1].truth
        BY <1>0 DEF Truth
      <4> QED
        BY <1>6, <2>4, <4>1, <4>2
    <3> QED
      BY <3>1
  <2>9. lastSnap' = Upto(n + 1)'
    <3>1. Upto(n + 1)' = repo'[n + 1].to
      BY <1>0 DEF Upto
    <3> QED
      BY <1>1, <1>6, <2>4, <3>1
  <2> QED
    BY <1>6, <2>6, <2>7, <2>8, <2>9 DEF Complete
<1> QED
  BY <1>0, <1>6, <1>8 DEF RepoInv, RepoType

LEMMA IndexStepKeeps ==
  ASSUME GenesisSetsNothing, LoopBase, TrackInv, RepoInv, [SnapNext]_allVars
  PROVE  /\ LoopBase' /\ TrackInv' /\ RepoInv' /\ (~lossy' => ~lossy)
         /\ ~ RebuildStep /\ ~CreateSnapshot => UNCHANGED <<repo, con>>
<1> USE LedgerConstants, LoopConstants
<1>0. LoopBase' /\ lastSnap \in Heights
  BY LoopBaseKept DEF TrackInv, TrackType
<1>1. CASE NextCall \/ LoopRound \/ ChooseBlock \/ GetData \/ GetHash \/ Attempt
           \/ StepFails \/ RejectBlock \/ NoSnapshot
  <2>1. TrackInv' /\ UNCHANGED <<body, lastSnap, repo, lossy, con>>
    BY <1>1, ChoosingTracks
  <2>2. RepoInv'
    BY <1>0, <2>1, RepoFrame DEF SetBy
  <2> QED
    BY <1>0, <2>1, <2>2
<1>2. CASE RunBlock \/ (\E k \in Keys : TrackKey(k)) \/ BlockRan
  <2>1. TrackInv' /\ UNCHANGED <<body, lastSnap, repo, con>> /\ (~lossy' => ~lossy)
    BY <1>2, RunTracks, KeyTracks, RanTracks
  <2>2. RepoInv'
    BY <1>0, <2>1, RepoFrame DEF SetBy
  <2> QED
    BY <1>0, <2>1, <2>2
<1>3. CASE CommitBlock
  <2>1. /\ TrackInv' /\ UNCHANGED <<lastSnap, repo, lossy, con>>
        /\ \A x \in Heights : \A k \in Keys :
              x <= lastSnap /\ ~lossy => (SetBy(x, k)' <=> SetBy(x, k))
        /\ \A x \in Heights : body[x] # NoBlock => body'[x] = body[x]
    BY <1>3, CommitTracks
  <2>2. \A x \in 0 .. lastSnap : x \in Heights /\ x <= lastSnap
    BY <1>0
  <2>3. RepoInv'
    BY <1>0, <2>1, <2>2, RepoFrame
  <2> QED
    BY <1>0, <2>1, <2>3
<1>4. CASE Undo
  <2>1. /\ TrackInv' /\ UNCHANGED <<lastSnap, repo, con>> /\ (~lossy' => ~lossy)
        /\ ~lossy' => \A x \in Heights : x <= lastSnap => body'[x] = body[x]
    BY <1>4, UndoTracks
  <2>2. \A x \in 0 .. lastSnap : x \in Heights /\ x <= lastSnap
    BY <1>0
  <2>3. ~lossy' => \A x \in 0 .. lastSnap : body'[x] = body[x]
    BY <2>1, <2>2
  <2>4. RepoInv'
    BY <1>0, <2>1, <2>3, RepoFrame DEF SetBy
  <2> QED
    BY <1>0, <2>1, <2>4
<1>5. CASE \E s \in Heights : ApplySnapshot(s)
  <2>1. /\ TrackInv' /\ UNCHANGED <<lastSnap, repo, con, lossy>>
        /\ ~lossy => \A x \in Heights : x <= lastSnap => body'[x] = body[x]
    BY <1>5, ApplyTracks
  <2>2. \A x \in 0 .. lastSnap : x \in Heights /\ x <= lastSnap
    BY <1>0
  <2>3. ~lossy => \A x \in 0 .. lastSnap : body'[x] = body[x]
    BY <2>1, <2>2
  <2>4. RepoInv'
    BY <1>0, <2>1, <2>3, RepoFrame DEF SetBy
  <2> QED
    BY <1>0, <2>1, <2>4
<1>6. CASE CreateSnapshot
  BY <1>0, <1>6, CreateTracks, CreateRepo
<1>7. CASE Restart
  <2>1. /\ TrackInv' /\ UNCHANGED <<body, repo, con>>
        /\ (~lossy' => ~lossy /\ lastSnap' = lastSnap)
    BY <1>7, RestartTracks
  <2>2. RepoInv'
    BY <1>0, <2>1, RepoFrame DEF SetBy
  <2> QED
    BY <1>0, <2>1, <2>2
<1>8. CASE RebuildStep \/ SnapNode \/ UNCHANGED allVars
  <2>1. /\ UNCHANGED <<indexed, body, driver, current, tracked, lastSnap, repo, lossy>>
        /\ UNCHANGED <<lp.pc, lp.h, lp.data, lp.left>>
        /\ RebuildStep \/ UNCHANGED con
    BY <1>8, RebuildFrame, NodeMoveKeeps DEF allVars
  <2>2. TrackInv'
    BY <2>1, TrackFrame DEF Stuck
  <2>3. RepoInv'
    BY <1>0, <2>1, RepoFrame DEF SetBy
  <2> QED
    BY <1>0, <2>1, <2>2, <2>3
<1> QED
  BY <1>1, <1>2, <1>3, <1>4, <1>5, <1>6, <1>7, <1>8
     DEF SnapNext, DriverStep, SnapDone, RebuildStep

-----------------------------------------------------------------------------
(***************************************************************************)
(* The rebuilding host.                                                    *)
(***************************************************************************)

ConType ==
  /\ con \in [pc : {"idle", "recv", "keys", "dead"}, tip : Heights,
              val : [Keys -> Blocks \cup {NoBlock}], todo : SUBSET Nat,
              left : SUBSET Keys, gap : BOOLEAN, truth : [Keys -> Blocks \cup {NoBlock}]]
  /\ con.todo \subseteq DOMAIN repo
  /\ con.pc = "keys" => con.todo # {} /\ con.left \subseteq DOMAIN Coming.diff

(* The host has the first n intervals, and of the next one the keys it has *)
(* already put: a killed host puts them again.                             *)
HasKey(n, k) ==
  \/ /\ con.val[k] = Truth(n)[k]
     /\ con.pc = "keys" => k \in con.left \/ k \notin DOMAIN repo[n + 1].diff
  \/ /\ n < Len(repo) /\ k \in DOMAIN repo[n + 1].diff
     /\ con.val[k] = repo[n + 1].diff[k]
     /\ con.pc # "idle" /\ (con.pc = "recv" => con.todo # {})

AtPosition(n) ==
  /\ con.tip = Upto(n) /\ con.truth = Truth(n)
  /\ con.pc \in {"recv", "keys"} => \E m \in n .. Len(repo) : con.todo = n + 1 .. m
  /\ \A k \in Keys : HasKey(n, k)

(* The host began inside an interval: it will skip it and have a gap. *)
Midway ==
  /\ con.tip % Interval # 0 /\ con.truth = Nothing /\ con.pc # "keys"
  /\ con.pc = "recv" => con.todo # {} /\ Partial(Coming)

Positioned == Midway \/ \E n \in 0 .. Len(repo) : AtPosition(n)

ConInv == ConType /\ (~lossy /\ ~con.gap => Positioned)

LEMMA FirstFacts ==
  ASSUME RepoType, NEW S \in SUBSET DOMAIN repo, S # {}
  PROVE  First(S) \in S /\ \A j \in S : First(S) <= j
<1>1. Len(repo) \in Nat /\ S \subseteq 0 .. Len(repo)
  BY DEF RepoType
<1>2. \E x \in S : \A y \in S : x <= y
  BY <1>1, LeastExists
<1> QED
  BY <1>2 DEF First

(* What comes next, at a position. *)
LEMMA NextFacts ==
  ASSUME RepoType, NEW n \in 0 .. Len(repo), NEW m \in n .. Len(repo),
         con.todo = n + 1 .. m, con.todo # {}
  PROVE  /\ Coming = repo[n + 1] /\ Rest = n + 2 .. m /\ n + 1 \in DOMAIN repo
         /\ n + 1 <= m /\ n < Len(repo)
<1>1. Len(repo) \in Nat /\ DOMAIN repo = 1 .. Len(repo)
  BY DEF RepoType
<1>2. n + 1 <= m /\ con.todo \in SUBSET DOMAIN repo
  BY <1>1
<1>3. First(con.todo) \in con.todo /\ \A j \in con.todo : First(con.todo) <= j
  BY <1>2, FirstFacts
<1>4. n + 1 \in con.todo
  BY <1>1, <1>2
<1>5. First(con.todo) = n + 1
  BY <1>1, <1>2, <1>3, <1>4
<1>6. Rest = n + 2 .. m
  BY <1>1, <1>5 DEF Rest
<1> QED
  BY <1>1, <1>2, <1>5, <1>6 DEF Coming

(* What is above a tip: everything after a position; and, inside an        *)
(* interval, that interval first. *)
LEMMA ApplicableFacts ==
  ASSUME RepoType, Complete
  PROVE  /\ \A n \in 0 .. Len(repo) : Applicable(Upto(n)) = n + 1 .. Len(repo)
         /\ \A t \in Heights : t % Interval # 0 /\ Applicable(t) # {}
               => Partial(repo[First(Applicable(t))]) \/ con.tip # t
<1> USE LedgerConstants, LoopConstants
<1>1. Len(repo) \in Nat /\ DOMAIN repo = 1 .. Len(repo) /\ \A i \in DOMAIN repo : repo[i] \in Intervals
  BY DEF RepoType
<1>2. \A i \in DOMAIN repo : repo[i].to \in Nat /\ repo[i].from \in Nat /\ repo[i].from < repo[i].to
  BY <1>1 DEF Complete, Chained, Intervals
<1>3. \A i, j \in DOMAIN repo : i < j => repo[i].to < repo[j].to
  BY DEF Complete, Ascending
<1>4. ASSUME NEW n \in 0 .. Len(repo) PROVE Applicable(Upto(n)) = n + 1 .. Len(repo)
  <2>1. CASE n = 0
    <3>1. \A i \in DOMAIN repo : repo[i].to > 0
      BY <1>2
    <3> QED
      BY <1>1, <2>1, <3>1 DEF Applicable, Upto
  <2>2. CASE n # 0
    <3>1. n \in DOMAIN repo /\ Upto(n) = repo[n].to
      BY <1>1, <2>2 DEF Upto
    <3>2. \A i \in DOMAIN repo : repo[i].to > repo[n].to <=> i > n
      BY <1>1, <1>2, <1>3, <3>1
    <3> QED
      BY <1>1, <3>1, <3>2 DEF Applicable
  <2> QED
    BY <2>1, <2>2
<1>5. ASSUME NEW t \in Heights, t % Interval # 0, Applicable(t) # {}, con.tip = t
      PROVE  Partial(repo[First(Applicable(t))])
  <2> DEFINE f == First(Applicable(t))
  <2>1. f \in Applicable(t) /\ \A j \in Applicable(t) : f <= j
    BY <1>5, FirstFacts DEF Applicable
  <2> HIDE DEF f
  <2>2. f \in DOMAIN repo /\ repo[f].to > t /\ repo[f].from = Upto(f - 1)
    BY <2>1 DEF Applicable, Complete, Chained
  <2>3. Upto(f - 1) <= t /\ Upto(f - 1) # t
    <3>1. CASE f = 1
      <4>1. Upto(f - 1) = 0 /\ t \in Nat
        BY <3>1 DEF Upto
      <4>2. 0 % Interval = 0
        OBVIOUS
      <4> QED
        BY <1>5, <4>1, <4>2
    <3>2. CASE f # 1
      <4>1. f - 1 \in DOMAIN repo /\ Upto(f - 1) = repo[f - 1].to /\ f - 1 < f
        BY <1>1, <2>2, <3>2 DEF Upto
      <4>2. ~ (f - 1 \in Applicable(t))
        BY <1>1, <2>1, <2>2, <4>1
      <4>3. ~ (repo[f - 1].to > t) /\ repo[f - 1].to \in Nat
        BY <1>2, <4>1, <4>2 DEF Applicable
      <4>4. repo[f - 1].to % Interval = 0
        BY <4>1 DEF Complete, Chained
      <4>5. repo[f - 1].to <= t
        BY <4>3
      <4> QED
        BY <1>5, <4>1, <4>4, <4>5
    <3> QED
      BY <3>1, <3>2
  <2>4. Upto(f - 1) \in Nat
    BY <1>2, <2>2
  <2> QED
    BY <1>5, <2>2, <2>3, <2>4 DEF Partial, f
<1> QED
  BY <1>4, <1>5

LEMMA RebuildInit == SnapInit => ConInv
<1> SUFFICES ASSUME SnapInit PROVE ConInv
  OBVIOUS
<1> USE LedgerConstants, LoopConstants
<1>1. PICK t \in FreshTips : con = Consumer(t)
  BY DEF SnapInit
<1>2. t \in Heights /\ (t = 0 \/ t % Interval # 0)
  BY SnapshotAssumption
<1>3. /\ con = [pc |-> "idle", tip |-> t, val |-> Nothing, todo |-> {}, left |-> {},
                gap |-> FALSE, truth |-> Nothing]
      /\ repo = <<>> /\ Len(repo) = 0
  BY <1>1 DEF Consumer, SnapInit
<1>4. Nothing \in [Keys -> Blocks \cup {NoBlock}]
  BY DEF Nothing
<1>5. ConType
  BY <1>2, <1>3, <1>4 DEF ConType
<1>6. CASE t = 0
  <2>1. AtPosition(0)
    BY <1>3, <1>6 DEF AtPosition, HasKey, Upto, Truth
  <2> QED
    BY <1>3, <1>5, <2>1 DEF ConInv, Positioned
<1>7. CASE t # 0
  BY <1>2, <1>3, <1>5, <1>7 DEF ConInv, Positioned, Midway
<1> QED
  BY <1>6, <1>7

(* The intervals a host knows of stay where they are in index.json. *)
LEMMA RebuildStands ==
  ASSUME ConInv, RepoInv, RepoInv', UNCHANGED con, ~lossy' => ~lossy,
         Len(repo') >= Len(repo),
         \A i \in DOMAIN repo : i \in DOMAIN repo' /\ repo'[i] = repo[i]
  PROVE  ConInv'
<1> USE LedgerConstants, LoopConstants
<1>1. /\ Len(repo) \in Nat /\ DOMAIN repo = 1 .. Len(repo)
      /\ Len(repo') \in Nat /\ DOMAIN repo' = 1 .. Len(repo')
  BY DEF RepoInv, RepoType
<1>2. con.todo # {} => First(con.todo) \in DOMAIN repo
  <2>1. con.todo \in SUBSET DOMAIN repo
    BY DEF ConInv, ConType
  <2> QED
    BY <2>1, FirstFacts DEF RepoInv
<1>3. con.todo # {} => Coming' = Coming
  BY <1>2 DEF Coming, First
<1>4. ConType'
  BY <1>3 DEF ConInv, ConType
<1>5. ASSUME Midway PROVE Midway'
  BY <1>3, <1>5 DEF Midway, Partial
<1>6. ASSUME NEW n \in 0 .. Len(repo), AtPosition(n) PROVE AtPosition(n)' /\ n \in 0 .. Len(repo')
  <2>1. Upto(n)' = Upto(n) /\ Truth(n)' = Truth(n) /\ n \in 0 .. Len(repo')
    BY <1>1 DEF Upto, Truth
  <2>2. con'.pc \in {"recv", "keys"} => \E m \in n .. Len(repo') : con'.todo = n + 1 .. m
    BY <1>1, <1>6 DEF AtPosition
  <2>3. con.pc = "keys" => repo'[n + 1] = repo[n + 1]
    <3>1. con.pc = "keys" => n < Len(repo)
      BY <1>6, NextFacts DEF AtPosition, ConInv, ConType, RepoInv
    <3> QED
      BY <1>1, <3>1
  <2>4. n < Len(repo) => n < Len(repo') /\ repo'[n + 1] = repo[n + 1]
    BY <1>1
  <2>5. ASSUME NEW k \in Keys, HasKey(n, k) PROVE HasKey(n, k)'
    BY <2>1, <2>3, <2>4, <2>5 DEF HasKey
  <2> QED
    BY <1>6, <2>1, <2>2, <2>5 DEF AtPosition
<1>7. ~lossy' /\ ~con'.gap => Positioned'
  BY <1>5, <1>6 DEF ConInv, Positioned
<1> QED
  BY <1>4, <1>7 DEF ConInv

(* A host that skips an interval has a gap, and one that dies keeps what   *)
(* it has. *)
LEMMA SkippingKeeps ==
  ASSUME ConInv, RepoInv, DownloadFails \/ SkipPartial
  PROVE  ConInv'
<1>1. con' = [con EXCEPT !.todo = Rest, !.gap = TRUE] /\ con.pc = "recv" /\ UNCHANGED repo
  BY DEF DownloadFails, SkipPartial, conOthers, snapVars
<1>2. Rest \subseteq con.todo
  BY DEF Rest
<1>3. ConType' /\ con'.gap
  BY <1>1, <1>2 DEF ConInv, ConType
<1> QED
  BY <1>3 DEF ConInv

LEMMA StartingKeeps ==
  ASSUME ConInv, RepoInv, SyncStarts
  PROVE  ConInv'
<1> USE LedgerConstants, LoopConstants
<1>1. /\ con' = [con EXCEPT !.pc = "recv", !.todo = Applicable(con.tip)]
      /\ con.pc \in {"idle", "dead"} /\ Applicable(con.tip) # {} /\ UNCHANGED <<repo, lossy>>
  BY DEF SyncStarts, conOthers, snapVars
<1>2. Applicable(con.tip) \subseteq DOMAIN repo /\ DOMAIN repo = 1 .. Len(repo) /\ Len(repo) \in Nat
  BY DEF Applicable, RepoInv, RepoType
<1>3. con \in [pc : {"idle", "recv", "keys", "dead"}, tip : Heights,
               val : [Keys -> Blocks \cup {NoBlock}], todo : SUBSET Nat,
               left : SUBSET Keys, gap : BOOLEAN, truth : [Keys -> Blocks \cup {NoBlock}]]
  BY DEF ConInv, ConType
<1>4. /\ con'.pc = "recv" /\ con'.todo = Applicable(con.tip) /\ con'.tip = con.tip
      /\ con'.val = con.val /\ con'.gap = con.gap /\ con'.truth = con.truth
  BY <1>1, <1>3
<1>5. ConType'
  <2>1. Applicable(con.tip) \in SUBSET Nat
    BY <1>2
  <2>2. con' \in [pc : {"idle", "recv", "keys", "dead"}, tip : Heights,
                  val : [Keys -> Blocks \cup {NoBlock}], todo : SUBSET Nat,
                  left : SUBSET Keys, gap : BOOLEAN, truth : [Keys -> Blocks \cup {NoBlock}]]
    BY <1>1, <1>3, <2>1
  <2> QED
    BY <1>1, <1>2, <1>4, <2>2 DEF ConType
<1>6. ASSUME ~lossy, Midway PROVE Midway'
  <2>1. Complete /\ RepoType /\ con.tip \in Heights
    BY <1>3, <1>6 DEF RepoInv
  <2>2. Partial(repo[First(Applicable(con.tip))])
    BY <1>1, <1>6, <2>1, ApplicableFacts DEF Midway
  <2>3. Coming' = repo[First(Applicable(con.tip))]
    BY <1>1, <1>4 DEF Coming, First
  <2> QED
    BY <1>1, <1>4, <1>6, <2>2, <2>3 DEF Midway, Partial
<1>7. ASSUME ~lossy, NEW n \in 0 .. Len(repo), AtPosition(n) PROVE AtPosition(n)'
  <2>1. Applicable(con.tip) = n + 1 .. Len(repo)
    BY <1>7, ApplicableFacts DEF RepoInv, AtPosition
  <2>2. Upto(n)' = Upto(n) /\ Truth(n)' = Truth(n)
    BY <1>1 DEF Upto, Truth
  <2>3. con'.todo = n + 1 .. Len(repo') /\ Len(repo') \in n .. Len(repo')
    BY <1>1, <1>2, <1>4, <2>1
  <2>4. ASSUME NEW k \in Keys, HasKey(n, k) PROVE HasKey(n, k)'
    BY <1>1, <1>4, <2>2, <2>4 DEF HasKey
  <2> QED
    BY <1>4, <1>7, <2>2, <2>3, <2>4 DEF AtPosition
<1> QED
  BY <1>1, <1>4, <1>5, <1>6, <1>7 DEF ConInv, Positioned

LEMMA StoppingKeeps ==
  ASSUME ConInv, RepoInv, SyncEnds \/ ConsumerDies
  PROVE  ConInv'
<1> USE LedgerConstants, LoopConstants
<1>1. /\ UNCHANGED <<repo, lossy>> /\ con'.pc \in {"idle", "dead"}
      /\ con' = [con EXCEPT !.pc = con'.pc, !.todo = con'.todo, !.left = con'.left]
      /\ con'.todo = {} /\ (con'.pc = "idle" => con.pc = "recv" /\ con.todo = {})
      /\ con'.left \in SUBSET Keys
  BY DEF SyncEnds, ConsumerDies, conOthers, snapVars, ConInv, ConType
<1>2. con \in [pc : {"idle", "recv", "keys", "dead"}, tip : Heights,
               val : [Keys -> Blocks \cup {NoBlock}], todo : SUBSET Nat,
               left : SUBSET Keys, gap : BOOLEAN, truth : [Keys -> Blocks \cup {NoBlock}]]
  BY DEF ConInv, ConType
<1>3. /\ con'.tip = con.tip /\ con'.val = con.val /\ con'.gap = con.gap
      /\ con'.truth = con.truth
  BY <1>1, <1>2
<1>4. ConType'
  <2>1. con' \in [pc : {"idle", "recv", "keys", "dead"}, tip : Heights,
                  val : [Keys -> Blocks \cup {NoBlock}], todo : SUBSET Nat,
                  left : SUBSET Keys, gap : BOOLEAN, truth : [Keys -> Blocks \cup {NoBlock}]]
    BY <1>1, <1>2
  <2> QED
    BY <1>1, <2>1 DEF ConType
<1>5. Midway => Midway'
  BY <1>1, <1>3 DEF Midway
<1>6. ASSUME NEW n \in 0 .. Len(repo), AtPosition(n) PROVE AtPosition(n)'
  <2>1. Upto(n)' = Upto(n) /\ Truth(n)' = Truth(n)
    BY <1>1 DEF Upto, Truth
  <2>2. ASSUME NEW k \in Keys, HasKey(n, k) PROVE HasKey(n, k)'
    BY <1>1, <1>3, <2>1, <2>2 DEF HasKey
  <2> QED
    BY <1>1, <1>3, <1>6, <2>1, <2>2 DEF AtPosition
<1> QED
  BY <1>1, <1>3, <1>4, <1>5, <1>6 DEF ConInv, Positioned

LEMMA ApplyingKeeps ==
  ASSUME ConInv, RepoInv, ApplyInterval
  PROVE  ConInv'
<1> USE LedgerConstants, LoopConstants
<1>1. /\ con' = [con EXCEPT !.pc = "keys", !.left = DOMAIN Coming.diff]
      /\ con.pc = "recv" /\ con.todo # {} /\ ~Partial(Coming) /\ UNCHANGED <<repo, lossy>>
  BY DEF ApplyInterval, conOthers, snapVars
<1>2. con \in [pc : {"idle", "recv", "keys", "dead"}, tip : Heights,
               val : [Keys -> Blocks \cup {NoBlock}], todo : SUBSET Nat,
               left : SUBSET Keys, gap : BOOLEAN, truth : [Keys -> Blocks \cup {NoBlock}]]
      /\ con.todo \subseteq DOMAIN repo
  BY DEF ConInv, ConType
<1>3. /\ con'.tip = con.tip /\ con'.val = con.val /\ con'.gap = con.gap
      /\ con'.truth = con.truth /\ con'.pc = "keys" /\ con'.todo = con.todo
      /\ con'.left = DOMAIN Coming.diff
  BY <1>1, <1>2
<1>4. Coming \in Intervals
  <2>1. First(con.todo) \in DOMAIN repo
    BY <1>1, <1>2, FirstFacts DEF RepoInv
  <2> QED
    BY <2>1 DEF Coming, RepoInv, RepoType
<1>5. DOMAIN Coming.diff \in SUBSET Keys
  BY <1>4 DEF Intervals
<1>6. ConType'
  <2>1. con' \in [pc : {"idle", "recv", "keys", "dead"}, tip : Heights,
                  val : [Keys -> Blocks \cup {NoBlock}], todo : SUBSET Nat,
                  left : SUBSET Keys, gap : BOOLEAN, truth : [Keys -> Blocks \cup {NoBlock}]]
    BY <1>1, <1>2, <1>5
  <2>2. Coming' = Coming
    BY <1>1, <1>3 DEF Coming, First
  <2> QED
    BY <1>1, <1>2, <1>3, <2>1, <2>2 DEF ConType
<1>7. ~ Midway
  BY <1>1 DEF Midway
<1>8. ASSUME NEW n \in 0 .. Len(repo), AtPosition(n) PROVE AtPosition(n)'
  <2>1. Upto(n)' = Upto(n) /\ Truth(n)' = Truth(n)
    BY <1>1 DEF Upto, Truth
  <2>2. PICK m \in n .. Len(repo) : con.todo = n + 1 .. m
    BY <1>1, <1>8 DEF AtPosition
  <2>3. Coming = repo[n + 1] /\ n < Len(repo)
    BY <1>1, <2>2, NextFacts DEF RepoInv
  <2>4. ASSUME NEW k \in Keys, HasKey(n, k) PROVE HasKey(n, k)'
    BY <1>1, <1>3, <2>1, <2>3, <2>4 DEF HasKey
  <2> QED
    BY <1>1, <1>3, <1>8, <2>1, <2>2, <2>4 DEF AtPosition
<1> QED
  BY <1>1, <1>3, <1>6, <1>7, <1>8 DEF ConInv, Positioned

LEMMA PuttingKeeps ==
  ASSUME ConInv, RepoInv, PutKey
  PROVE  ConInv'
<1> USE LedgerConstants, LoopConstants
<1>1. con.pc = "keys" /\ UNCHANGED <<repo, lossy>>
  BY DEF PutKey, conOthers, snapVars
<1>2. PICK q \in con.left :
        con' = [con EXCEPT !.left = con.left \ {q}, !.val[q] = Coming.diff[q]]
  BY DEF PutKey
<1>3. con \in [pc : {"idle", "recv", "keys", "dead"}, tip : Heights,
               val : [Keys -> Blocks \cup {NoBlock}], todo : SUBSET Nat,
               left : SUBSET Keys, gap : BOOLEAN, truth : [Keys -> Blocks \cup {NoBlock}]]
      /\ con.todo \subseteq DOMAIN repo /\ con.todo # {} /\ con.left \subseteq DOMAIN Coming.diff
  BY <1>1 DEF ConInv, ConType
<1>4. Coming.diff[q] \in Blocks /\ q \in Keys /\ q \in DOMAIN Coming.diff
  <2>1. First(con.todo) \in DOMAIN repo
    BY <1>1, <1>3, FirstFacts DEF RepoInv
  <2>2. Coming \in Intervals
    BY <2>1 DEF Coming, RepoInv, RepoType
  <2>3. Coming.diff \in UNION {[S -> Blocks] : S \in SUBSET Keys}
    BY <2>2 DEF Intervals
  <2>4. PICK S \in SUBSET Keys : Coming.diff \in [S -> Blocks]
    BY <2>3
  <2> QED
    BY <1>2, <1>3, <2>4
<1>5. /\ con'.tip = con.tip /\ con'.gap = con.gap
      /\ con'.truth = con.truth /\ con'.pc = "keys" /\ con'.todo = con.todo
      /\ con'.left = con.left \ {q} /\ con'.val = [con.val EXCEPT ![q] = Coming.diff[q]]
  BY <1>1, <1>2, <1>3
<1>6. \A k \in Keys : con'.val[k] = IF k = q THEN Coming.diff[q] ELSE con.val[k]
  BY <1>3, <1>5
<1>7. ConType'
  <2>1. con'.val \in [Keys -> Blocks \cup {NoBlock}]
    BY <1>3, <1>4, <1>5
  <2>2. con' = [con EXCEPT !.left = con'.left, !.val = con'.val]
    BY <1>2, <1>3, <1>5
  <2>3. con' \in [pc : {"idle", "recv", "keys", "dead"}, tip : Heights,
                  val : [Keys -> Blocks \cup {NoBlock}], todo : SUBSET Nat,
                  left : SUBSET Keys, gap : BOOLEAN, truth : [Keys -> Blocks \cup {NoBlock}]]
    BY <1>3, <1>5, <2>1, <2>2
  <2>4. Coming' = Coming
    BY <1>1, <1>5 DEF Coming, First
  <2> QED
    BY <1>1, <1>3, <1>5, <2>3, <2>4 DEF ConType
<1>8. ~ Midway
  BY <1>1 DEF Midway
<1>9. ASSUME NEW n \in 0 .. Len(repo), AtPosition(n) PROVE AtPosition(n)'
  <2>1. Upto(n)' = Upto(n) /\ Truth(n)' = Truth(n)
    BY <1>1 DEF Upto, Truth
  <2>2. PICK m \in n .. Len(repo) : con.todo = n + 1 .. m
    BY <1>1, <1>9 DEF AtPosition
  <2>3. Coming = repo[n + 1] /\ n < Len(repo)
    BY <1>3, <2>2, NextFacts DEF RepoInv
  <2>4. ASSUME NEW k \in Keys, HasKey(n, k) PROVE HasKey(n, k)'
    <3>1. CASE k = q
      BY <1>1, <1>4, <1>5, <1>6, <2>3, <3>1 DEF HasKey
    <3>2. CASE k # q
      BY <1>1, <1>5, <1>6, <2>1, <2>4, <3>2 DEF HasKey
    <3> QED
      BY <3>1, <3>2
  <2> QED
    BY <1>1, <1>5, <1>9, <2>1, <2>2, <2>4 DEF AtPosition
<1> QED
  BY <1>1, <1>5, <1>7, <1>8, <1>9 DEF ConInv, Positioned

(* The tip that is put last makes an interval's keys count. *)
LEMMA AdvancingKeeps ==
  ASSUME ConInv, RepoInv, PutTip
  PROVE  ConInv'
<1> USE LedgerConstants, LoopConstants
<1>1. /\ con' = [con EXCEPT !.pc = "recv", !.tip = Coming.to, !.truth = Coming.truth,
                            !.todo = Rest]
      /\ con.pc = "keys" /\ con.left = {} /\ UNCHANGED <<repo, lossy>>
  BY DEF PutTip, conOthers, snapVars
<1>2. con \in [pc : {"idle", "recv", "keys", "dead"}, tip : Heights,
               val : [Keys -> Blocks \cup {NoBlock}], todo : SUBSET Nat,
               left : SUBSET Keys, gap : BOOLEAN, truth : [Keys -> Blocks \cup {NoBlock}]]
      /\ con.todo \subseteq DOMAIN repo /\ con.todo # {}
  BY <1>1 DEF ConInv, ConType
<1>3. Coming.to \in Heights /\ Coming.truth \in [Keys -> Blocks \cup {NoBlock}]
  <2>1. First(con.todo) \in DOMAIN repo
    BY <1>2, FirstFacts DEF RepoInv
  <2>2. Coming \in Intervals
    BY <2>1 DEF Coming, RepoInv, RepoType
  <2> QED
    BY <2>2 DEF Intervals
<1>4. /\ con'.tip = Coming.to /\ con'.val = con.val /\ con'.gap = con.gap
      /\ con'.truth = Coming.truth /\ con'.pc = "recv" /\ con'.todo = Rest
  BY <1>1, <1>2
<1>5. ConType'
  <2>1. Rest \subseteq con.todo
    BY DEF Rest
  <2>2. Rest \in SUBSET Nat
    BY <1>2, <2>1
  <2>3. con' \in [pc : {"idle", "recv", "keys", "dead"}, tip : Heights,
                  val : [Keys -> Blocks \cup {NoBlock}], todo : SUBSET Nat,
                  left : SUBSET Keys, gap : BOOLEAN, truth : [Keys -> Blocks \cup {NoBlock}]]
    BY <1>1, <1>2, <1>3, <2>2
  <2> QED
    BY <1>1, <1>2, <1>4, <2>1, <2>3 DEF ConType
<1>6. ~ Midway
  BY <1>1 DEF Midway
<1>7. ASSUME ~lossy, NEW n \in 0 .. Len(repo), AtPosition(n)
      PROVE  n + 1 \in 0 .. Len(repo) /\ AtPosition(n + 1)'
  <2>1. PICK m \in n .. Len(repo) : con.todo = n + 1 .. m
    BY <1>1, <1>7 DEF AtPosition
  <2>2. /\ Coming = repo[n + 1] /\ n < Len(repo) /\ Rest = n + 2 .. m
        /\ n + 1 \in DOMAIN repo /\ n + 1 <= m
    BY <1>2, <2>1, NextFacts DEF RepoInv
  <2>3. Len(repo) \in Nat
    BY DEF RepoInv, RepoType
  <2>4. /\ Upto(n + 1)' = repo[n + 1].to /\ Truth(n + 1)' = repo[n + 1].truth
        /\ n + 1 \in 0 .. Len(repo) /\ m \in n + 1 .. Len(repo)
    BY <1>1, <2>2, <2>3 DEF Upto, Truth
  <2>5. ASSUME NEW k \in Keys PROVE con.val[k] = repo[n + 1].truth[k]
    <3>1. HasKey(n, k)
      BY <1>7 DEF AtPosition
    <3>2. repo[n + 1].truth[k] = IF k \in DOMAIN repo[n + 1].diff THEN repo[n + 1].diff[k]
                                 ELSE Truth(n)[k]
      <4>1. Chained(n + 1) /\ (n + 1) - 1 = n
        BY <1>7, <2>2 DEF RepoInv, Complete
      <4> QED
        BY <4>1 DEF Chained
    <3> QED
      BY <1>1, <3>1, <3>2 DEF HasKey
  <2>6. \A k \in Keys : HasKey(n + 1, k)'
    BY <1>4, <2>4, <2>5 DEF HasKey
  <2>7. con'.todo = (n + 1) + 1 .. m
    BY <1>4, <2>2
  <2> QED
    BY <1>1, <1>4, <2>2, <2>4, <2>6, <2>7 DEF AtPosition
<1> QED
  BY <1>1, <1>4, <1>5, <1>6, <1>7 DEF ConInv, Positioned

RestoreInv == LoopBase /\ TrackInv /\ RepoInv /\ ConInv

LEMMA RestoreKept ==
  ASSUME GenesisSetsNothing, RestoreInv, [SnapNext]_allVars
  PROVE  RestoreInv'
<1>1. /\ LoopBase' /\ TrackInv' /\ RepoInv' /\ (~lossy' => ~lossy)
      /\ ~ RebuildStep /\ ~CreateSnapshot => UNCHANGED <<repo, con>>
  BY IndexStepKeeps DEF RestoreInv
<1>2. CASE RebuildStep
  BY <1>1, <1>2, SkippingKeeps, StartingKeeps, StoppingKeeps, ApplyingKeeps, PuttingKeeps,
     AdvancingKeeps DEF RestoreInv, RebuildStep, ConsumerStep
<1>3. CASE CreateSnapshot
  <2>1. /\ Len(repo') = Len(repo) + 1 /\ UNCHANGED con
        /\ \A i \in DOMAIN repo : i \in DOMAIN repo' /\ repo'[i] = repo[i]
    BY <1>3, CreateRepo DEF RestoreInv, CreateSnapshot
  <2>2. Len(repo) \in Nat
    BY DEF RestoreInv, RepoInv, RepoType
  <2>3. Len(repo') >= Len(repo)
    BY <2>1, <2>2
  <2> QED
    BY <1>1, <2>1, <2>3, RebuildStands DEF RestoreInv
<1>4. CASE ~ RebuildStep /\ ~ CreateSnapshot
  <2>1. UNCHANGED <<repo, con>> /\ Len(repo) \in Nat
    BY <1>1, <1>4 DEF RestoreInv, RepoInv, RepoType
  <2> QED
    BY <1>1, <2>1, RebuildStands DEF RestoreInv
<1> QED
  BY <1>2, <1>3, <1>4

LEMMA RestoredByInv == ConInv => RestoredMatches
<1> SUFFICES ASSUME ConInv, con.pc = "idle", con.tip > 0, con.truth # Nothing, ~lossy, ~con.gap
             PROVE  con.val = con.truth
  BY DEF RestoredMatches
<1>1. PICK n \in 0 .. Len(repo) : AtPosition(n)
  BY DEF ConInv, Positioned, Midway
<1>2. \A k \in Keys : con.val[k] = con.truth[k]
  BY <1>1 DEF AtPosition, HasKey
<1> QED
  BY <1>2 DEF ConInv, ConType

(* A host that rebuilt an index from intervals has the index: whatever the *)
(* order of executions, retries, rollbacks, restarts and killed imports,   *)
(* as long as the two history variables say nothing was lost.              *)
THEOREM RestoredMatchesHolds == GenesisSetsNothing => (SnapSpec => []RestoredMatches)
<1> SUFFICES ASSUME GenesisSetsNothing PROVE SnapSpec => []RestoredMatches
  OBVIOUS
<1>1. SnapInit => RestoreInv
  BY LoopInit, TrackInit, RepoInit, RebuildInit DEF RestoreInv
<1>2. RestoreInv /\ [SnapNext]_allVars => RestoreInv'
  BY RestoreKept
<1>3. RestoreInv => RestoredMatches
  BY RestoredByInv DEF RestoreInv
<1> QED
  BY <1>1, <1>2, <1>3, PTL DEF SnapSpec

-----------------------------------------------------------------------------
(***************************************************************************)
(* What was executed is what is recorded, on top of its parent.            *)
(***************************************************************************)

(* What the operator's constants have to ensure: when the next block is    *)
(* chosen above a record that is not the node's, the driver looks back.    *)
ReorgsInReach ==
  ~jumped /\ lp.pc = "tip" =>
    \A p \in Heights : p + 1 = lp.h /\ Disagrees(p) => LooksBack(p + 1)

(* Block 0, which no walk looks at, is on every branch. *)
OneGenesis ==
  StartBlock = 0 => \A a, b \in Blocks : Height[a] = 0 /\ Height[b] = 0 => a = b

RecordFits(h) ==
  hash[h] # NoBlock /\ h \notin crossed =>
    /\ body[h] = hash[h]
    /\ h > StartBlock /\ hash[h - 1] # NoBlock => Parent[hash[h]] = hash[h - 1]

HasHash == lp.pc \in {"guard", "run", "track", "commit"}

(* The block being driven, on the record below it. *)
FitsOn(p) ==
  p + 1 = lp.h /\ p >= StartBlock /\ hash[p] # NoBlock =>
    /\ Choosing => ~ Disagrees(p)
    /\ HasHash => Parent[lp.hash] = hash[p]

BlockFits ==
  ~ lp.crossed =>
    /\ lp.pc = "hash" => lp.data = Ancestry(best)[lp.h]
    /\ HasHash => lp.data = lp.hash
    /\ \A p \in Heights : FitsOn(p)

FitInv == LoopBase /\ (~jumped => BlockFits /\ \A h \in Heights : RecordFits(h))

(* Nothing fits worse when the records and the node stay, and the block is *)
(* not chosen anew. *)
LEMMA FitFrame ==
  ASSUME FitInv, LoopBase', UNCHANGED <<best, hash, body, crossed, jumped>>,
         ~Choosing',
         HasHash' => HasHash /\ UNCHANGED <<lp.h, lp.data, lp.hash, lp.crossed>>
  PROVE  FitInv'
<1>1. lp'.pc # "hash"
  BY DEF Choosing
<1>2. ASSUME ~jumped' PROVE BlockFits' /\ \A h \in Heights : RecordFits(h)'
  <2>1. BlockFits /\ \A h \in Heights : RecordFits(h)
    BY <1>2 DEF FitInv
  <2>2. \A h \in Heights : RecordFits(h)'
    BY <2>1 DEF RecordFits
  <2>3. ASSUME NEW p \in Heights, ~ lp'.crossed PROVE FitsOn(p)'
    <3>1. CASE HasHash'
      <4>1. FitsOn(p) /\ HasHash
        BY <2>1, <2>3, <3>1 DEF BlockFits
      <4> QED
        BY <3>1, <4>1 DEF FitsOn
    <3>2. CASE ~HasHash'
      BY <3>2 DEF FitsOn
    <3> QED
      BY <3>1, <3>2
  <2>4. ~ lp'.crossed => (HasHash' => lp'.data = lp'.hash)
    BY <2>1 DEF BlockFits
  <2> QED
    BY <1>1, <2>2, <2>3, <2>4 DEF BlockFits
<1> QED
  BY <1>2 DEF FitInv

(* The block that is chosen is above a record of the node's chain.         *)
LEMMA ChosenFits ==
  ASSUME MaxReorgDepth > 0, OneGenesis, ReorgsInReach, LoopBase, ~jumped, ChooseBlock,
         lp'.pc = "data", NEW p \in Heights, p + 1 = lp.h, p >= StartBlock, hash[p] # NoBlock
  PROVE  ~ Disagrees(p)
<1> USE LedgerConstants, LoopConstants
<1> DEFINE c == lp.h
<1>1. lp.pc = "tip" /\ ~ Undoes(c) /\ c \in 0 .. MaxHeight + 1 /\ IndexBase
  BY DEF ChooseBlock, LoopBase, LpType
<1>2. SUFFICES ASSUME Disagrees(p) PROVE FALSE
  OBVIOUS
<1>3. LooksBack(c) /\ ~ ReorgDetected(c)
  BY <1>1, <1>2 DEF ReorgsInReach, Undoes
<1> HIDE DEF c
<1>4. p + 1 = c
  BY DEF c
<1>5. /\ hash[p] \in Blocks /\ Height[hash[p]] = p /\ p <= Height[best] /\ best \in Blocks
      /\ Height[best] \in Nat
  BY <1>1 DEF IndexBase
<1>6. Ancestry(best)[p] \in Blocks /\ Height[Ancestry(best)[p]] = p
  BY <1>5, BlockAsked
<1>7. p # 0
  BY <1>2, <1>5, <1>6 DEF OneGenesis, Disagrees
<1>8. p \in WalkRange(c)
  <2>1. SatSub(c, MaxReorgDepth) <= p /\ SatSub(c, MaxReorgDepth) \in Nat
    BY <1>1, <1>4 DEF SatSub
  <2> QED
    BY <1>1, <1>4, <1>7, <2>1 DEF WalkRange
<1>9. WalkEnd(c) # p
  <2>1. p \notin WalkStops(c)
    BY <1>2, <1>5 DEF WalkStops, Disagrees
  <2> QED
    BY <1>1, <1>8, <2>1, WalkEndFacts
<1>10. WalkEnd(c) \in 0 .. MaxHeight /\ WalkEnd(c) < c
  BY <1>1, <1>4, WalkEndFacts
<1>11. WalkEnd(c) < p /\ p < c
  BY <1>4, <1>9, <1>10
<1> QED
  BY <1>1, <1>3, <1>11, DisagreementDetected

LEMMA ChoosingFits ==
  ASSUME MaxReorgDepth > 0, OneGenesis, ReorgsInReach, FitInv, LoopBase',
         NextCall \/ LoopRound \/ ChooseBlock
  PROVE  FitInv'
<1> USE LedgerConstants, LoopConstants
<1>1. UNCHANGED <<best, hash, body, crossed, jumped>> /\ LoopBase
  BY DEF NextCall, LoopRound, ChooseBlock, chooseOthers, ledger, ran, FitInv
<1>2. CASE lp'.pc # "data"
  <2>1. ~Choosing' /\ ~HasHash'
    BY <1>1, <1>2 DEF NextCall, LoopRound, ChooseBlock, Choosing, HasHash, Idle, LoopBase, LpType
  <2> QED
    BY <1>1, <2>1, FitFrame
<1>3. CASE lp'.pc = "data"
  <2>1. ChooseBlock /\ lp'.h = lp.h
    BY <1>1, <1>3 DEF NextCall, LoopRound, ChooseBlock, Idle, LoopBase, LpType
  <2>2. ASSUME ~jumped' PROVE BlockFits' /\ \A h \in Heights : RecordFits(h)'
    <3>1. \A h \in Heights : RecordFits(h)'
      BY <1>1, <2>2 DEF FitInv, RecordFits
    <3>2. ASSUME NEW p \in Heights PROVE FitsOn(p)'
      <4>1. p + 1 = lp.h /\ p >= StartBlock /\ hash[p] # NoBlock => ~ Disagrees(p)
        BY <1>1, <1>3, <2>1, <2>2, ChosenFits
      <4>2. Disagrees(p)' <=> Disagrees(p)
        BY <1>1 DEF Disagrees
      <4> QED
        BY <1>1, <1>3, <2>1, <4>1, <4>2 DEF FitsOn, HasHash
    <3> QED
      BY <1>3, <3>1, <3>2 DEF BlockFits, HasHash
  <2> QED
    BY <2>2 DEF FitInv
<1> QED
  BY <1>2, <1>3

(* The two calls to the node. *)
LEMMA FetchingFits ==
  ASSUME FitInv, LoopBase', GetData \/ GetHash
  PROVE  FitInv'
<1> USE LedgerConstants, LoopConstants
<1>1. /\ UNCHANGED <<best, hash, body, crossed, jumped, lp.h, lp.crossed>>
      /\ LoopBase /\ Choosing
  BY DEF GetData, GetHash, chooseOthers, ledger, ran, FitInv, LoopBase, LpType, Choosing
<1>2. ASSUME ~jumped' PROVE BlockFits' /\ \A h \in Heights : RecordFits(h)'
  <2>1. \A h \in Heights : RecordFits(h)'
    BY <1>1, <1>2 DEF FitInv, RecordFits
  <2>2. BlockFits
    BY <1>1, <1>2 DEF FitInv
  <2>3. CASE GetData
    <3>1. lp'.pc = "hash" /\ lp'.data = Ancestry(best)[lp.h]
      BY <1>1, <2>3 DEF GetData, LoopBase, LpType
    <3>2. ASSUME NEW p \in Heights, ~ lp'.crossed PROVE FitsOn(p)'
      <4>1. FitsOn(p)
        BY <1>1, <2>2, <3>2 DEF BlockFits
      <4>2. Disagrees(p)' <=> Disagrees(p)
        BY <1>1 DEF Disagrees
      <4> QED
        BY <1>1, <3>1, <4>1, <4>2 DEF FitsOn, HasHash
    <3> QED
      BY <1>1, <2>1, <3>1, <3>2 DEF BlockFits, HasHash
  <2>4. CASE GetHash
    <3>1. lp'.pc = "guard" /\ lp'.hash = Ancestry(best)[lp.h] /\ lp'.data = lp.data /\ lp.pc = "hash"
      BY <1>1, <2>4 DEF GetHash, LoopBase, LpType
    <3>2. lp.h <= Height[best] /\ best \in Blocks /\ Height[best] \in Nat
      BY <1>1, <3>1 DEF LoopBase, Fetched, IndexBase
    <3>3. ASSUME NEW p \in Heights, ~ lp'.crossed PROVE FitsOn(p)'
      <4>1. FitsOn(p)
        BY <1>1, <2>2, <3>3 DEF BlockFits
      <4>2. SUFFICES ASSUME p + 1 = lp.h, p >= StartBlock, hash[p] # NoBlock
                     PROVE  Parent[Ancestry(best)[p + 1]] = hash[p]
        BY <1>1, <3>1 DEF FitsOn, Choosing
      <4>3. hash[p] = Ancestry(best)[p]
        BY <1>1, <4>1, <4>2 DEF FitsOn, Disagrees
      <4>4. p \in 0 .. Height[best] /\ p # Height[best]
        BY <3>2, <4>2
      <4> QED
        BY <3>2, <4>3, <4>4, AncestryFacts
    <3> QED
      BY <1>1, <2>1, <2>2, <3>1, <3>3 DEF BlockFits
  <2> QED
    BY <2>1, <2>3, <2>4
<1> QED
  BY <1>2 DEF FitInv

(* From the two calls to the commit. *)
LEMMA ProcessingFits ==
  ASSUME FitInv, LoopBase', ProcessingStep, ~ GetData, ~ GetHash
  PROVE  FitInv'
<1>1. UNCHANGED <<best, hash, body, crossed, jumped>> /\ LpType
  BY ProcessingKeeps DEF FitInv, LoopBase
<1>2. /\ ~Choosing'
      /\ HasHash' => HasHash /\ UNCHANGED <<lp.h, lp.data, lp.hash, lp.crossed>>
  <2>1. CASE Attempt \/ StepFails
    BY <1>1, <2>1 DEF Attempt, StepFails, Idle, LpType, Choosing, HasHash
  <2>2. CASE RunBlock \/ (\E k \in Keys : TrackKey(k)) \/ BlockRan
    BY <1>1, <2>2 DEF RunBlock, TrackKey, BlockRan, LpType, Choosing, HasHash
  <2>3. CASE RejectBlock \/ CreateSnapshot \/ NoSnapshot
    BY <2>3 DEF RejectBlock, CreateSnapshot, NoSnapshot, Idle, Choosing, HasHash
  <2> QED
    BY <2>1, <2>2, <2>3 DEF ProcessingStep
<1> QED
  BY <1>1, <1>2, FitFrame

LEMMA CommitFits ==
  ASSUME FitInv, LoopBase', CommitBlock
  PROVE  FitInv'
<1> USE LedgerConstants, LoopConstants
<1> DEFINE g == lp.h
<1>1. /\ g \in Heights
      /\ \A h \in Heights : hash'[h] = IF h = g THEN lp.hash ELSE hash[h]
      /\ \A h \in Heights : body'[h] = IF h = g THEN lp.data ELSE body[h]
      /\ \A h \in Heights : h >= g => hash[h] = NoBlock
  BY CommitKeeps DEF FitInv
<1>2. /\ lp.pc = "commit" /\ lp' = [lp EXCEPT !.pc = "snap"] /\ jumped' = jumped
      /\ crossed' = IF lp.crossed THEN crossed \cup {g} ELSE crossed \ {g}
  BY DEF CommitBlock
<1>3. lp'.pc = "snap" /\ HasHash
  BY <1>2 DEF FitInv, LoopBase, LpType, HasHash
<1> HIDE DEF g
<1>4. ASSUME ~jumped PROVE \A h \in Heights : RecordFits(h)'
  <2> SUFFICES ASSUME NEW h \in Heights, hash'[h] # NoBlock, h \notin crossed'
               PROVE  /\ body'[h] = hash'[h]
                      /\ h > StartBlock /\ hash'[h - 1] # NoBlock => Parent[hash'[h]] = hash'[h - 1]
    BY DEF RecordFits
  <2>1. BlockFits /\ RecordFits(h)
    BY <1>4 DEF FitInv
  <2>2. h > StartBlock => h - 1 \in Heights /\ h - 1 >= StartBlock /\ (h - 1) + 1 = h
    OBVIOUS
  <2>3. CASE h = g
    <3>1. ~ lp.crossed
      BY <1>2, <2>3
    <3>2. lp.data = lp.hash /\ \A p \in Heights : FitsOn(p)
      BY <1>3, <2>1, <3>1 DEF BlockFits
    <3>3. h > StartBlock => hash'[h - 1] = hash[h - 1]
      BY <1>1, <2>2, <2>3
    <3>4. h > StartBlock /\ hash[h - 1] # NoBlock => Parent[lp.hash] = hash[h - 1]
      BY <1>3, <2>2, <2>3, <3>2 DEF FitsOn, g
    <3> QED
      BY <1>1, <2>3, <3>2, <3>3, <3>4
  <2>4. CASE h # g
    <3>1. h < g /\ h \notin crossed /\ hash'[h] = hash[h] /\ body'[h] = body[h]
      BY <1>1, <1>2, <2>4
    <3>2. h > StartBlock => hash'[h - 1] = hash[h - 1]
      BY <1>1, <2>2, <3>1
    <3> QED
      BY <2>1, <3>1, <3>2 DEF RecordFits
  <2> QED
    BY <2>3, <2>4
<1>5. BlockFits'
  BY <1>3 DEF BlockFits, FitsOn, HasHash, Choosing
<1> QED
  BY <1>2, <1>4, <1>5 DEF FitInv

LEMMA UndoFits ==
  ASSUME FitInv, LoopBase', Undo
  PROVE  FitInv'
<1> USE LedgerConstants, LoopConstants
<1>1. /\ indexed' \in Int
      /\ \A h \in Heights : hash'[h] = IF h > indexed' THEN NoBlock ELSE hash[h]
      /\ \A h \in Heights : body'[h] = IF h > indexed' THEN NoBlock ELSE body[h]
  BY UndoLowers DEF FitInv
<1>2. UNCHANGED <<crossed, jumped>> /\ lp'.pc = "top"
  BY DEF Undo, Idle
<1>3. ASSUME ~jumped, NEW h \in Heights PROVE RecordFits(h)'
  <2>1. RecordFits(h)
    BY <1>3 DEF FitInv
  <2>2. h > StartBlock => h - 1 \in Heights
    OBVIOUS
  <2>3. h > StartBlock /\ ~ (h > indexed') => hash'[h - 1] = hash[h - 1]
    BY <1>1, <2>2
  <2> QED
    BY <1>1, <1>2, <2>1, <2>3 DEF RecordFits
<1>4. BlockFits'
  BY <1>2 DEF BlockFits, FitsOn, HasHash, Choosing
<1> QED
  BY <1>2, <1>3, <1>4 DEF FitInv

(* A node that reorganises between the look back and the second call is    *)
(* remembered; before or after, it does not touch the block. *)
LEMMA NodeFits ==
  ASSUME FitInv, LoopBase', SnapNode
  PROVE  FitInv'
<1> USE LedgerConstants, LoopConstants
<1>1. /\ UNCHANGED <<indexed, hash, body, crossed, jumped>>
      /\ UNCHANGED <<lp.pc, lp.h, lp.data, lp.hash>> /\ (lp.crossed => lp'.crossed)
      /\ LpType /\ IndexBase
  BY NodeMoveKeeps DEF FitInv, LoopBase
<1>2. PICK t \in Blocks :
        \/ NodeGrows(t)
        \/ NodeReorganises(t) /\ lp' = [lp EXCEPT !.crossed = lp.crossed \/ Choosing]
  BY DEF SnapNode
<1>3. ASSUME ~jumped PROVE BlockFits' /\ \A h \in Heights : RecordFits(h)'
  <2>1. \A h \in Heights : RecordFits(h)'
    BY <1>1, <1>3 DEF FitInv, RecordFits
  <2>2. BlockFits /\ (Choosing' <=> Choosing) /\ (HasHash' <=> HasHash)
    BY <1>1, <1>3 DEF FitInv, Choosing, HasHash
  <2>3. ASSUME ~ lp'.crossed, ~ Choosing PROVE BlockFits'
    <3>1. ~ lp.crossed /\ lp'.pc # "hash" /\ ~ Choosing'
      BY <1>1, <2>2, <2>3 DEF Choosing
    <3>2. ASSUME NEW p \in Heights PROVE FitsOn(p)'
      <4>1. FitsOn(p)
        BY <2>2, <3>1 DEF BlockFits
      <4> QED
        BY <1>1, <2>2, <3>1, <4>1 DEF FitsOn
    <3> QED
      BY <1>1, <2>2, <3>1, <3>2 DEF BlockFits
  <2>4. ASSUME ~ lp'.crossed, NodeGrows(t) PROVE BlockFits'
    <3>1. /\ \A h \in 0 .. Height[best] : Ancestry(best)[h] = Ancestry(best')[h]
          /\ \A h \in Heights : hash[h] # NoBlock => Ancestry(best)[h] = Ancestry(best')[h]
      BY <1>1, <2>4, GrowthIsInvisible
    <3>2. ~ lp.crossed
      BY <1>1, <2>4
    <3>3. lp.pc = "hash" => lp.h \in 0 .. Height[best]
      BY <1>1 DEF FitInv, LoopBase, Fetched, LpType, IndexBase
    <3>4. ASSUME NEW p \in Heights PROVE FitsOn(p)'
      <4>1. FitsOn(p)
        BY <2>2, <3>2 DEF BlockFits
      <4>2. Disagrees(p)' <=> Disagrees(p)
        BY <1>1, <3>1 DEF Disagrees
      <4> QED
        BY <1>1, <2>2, <4>1, <4>2 DEF FitsOn
    <3> QED
      BY <1>1, <2>2, <3>1, <3>2, <3>3, <3>4 DEF BlockFits
  <2>5. ASSUME NodeReorganises(t), lp' = [lp EXCEPT !.crossed = lp.crossed \/ Choosing], Choosing
        PROVE  lp'.crossed
    <3>1. lp'.crossed = (lp.crossed \/ Choosing)
      BY <1>1, <2>5 DEF LpType
    <3> QED
      BY <2>5, <3>1
  <2>6. lp'.crossed => BlockFits'
    BY DEF BlockFits
  <2> QED
    BY <1>2, <2>1, <2>3, <2>4, <2>5, <2>6
<1> QED
  BY <1>1, <1>3 DEF FitInv

LEMMA FitKept ==
  ASSUME MaxReorgDepth > 0, OneGenesis, ReorgsInReach, FitInv, [SnapNext]_allVars
  PROVE  FitInv'
<1>1. LoopBase'
  BY LoopBaseKept DEF FitInv
<1>2. CASE DriverStep \/ StepFails
  BY <1>1, <1>2, ChoosingFits, UndoFits, FetchingFits, ProcessingFits, CommitFits
     DEF DriverStep, ProcessingStep
<1>3. CASE Restart
  <2>1. UNCHANGED <<best, hash, body, crossed, jumped>> /\ lp'.pc = "start"
    BY <1>3, RestartKeeps DEF FitInv, Restart, Idle
  <2> QED
    BY <1>1, <2>1, FitFrame DEF Choosing, HasHash
<1>4. CASE \E s \in Heights : ApplySnapshot(s)
  BY <1>1, <1>4 DEF ApplySnapshot, FitInv
<1>5. CASE RebuildStep \/ UNCHANGED allVars
  <2>1. UNCHANGED <<best, hash, body, crossed, jumped, lp>>
    BY <1>5, RebuildFrame DEF allVars
  <2>2. BlockFits => BlockFits'
    BY <2>1 DEF BlockFits, FitsOn, HasHash, Choosing, Disagrees
  <2>3. \A h \in Heights : RecordFits(h) => RecordFits(h)'
    BY <2>1 DEF RecordFits
  <2> QED
    BY <1>1, <2>1, <2>2, <2>3 DEF FitInv
<1>6. CASE SnapNode
  BY <1>1, <1>6, NodeFits
<1> QED
  BY <1>2, <1>3, <1>4, <1>5, <1>6 DEF SnapNext, SnapDone, RebuildStep

LEMMA FitInit == SnapInit => FitInv
<1> SUFFICES ASSUME SnapInit PROVE FitInv
  OBVIOUS
<1>1. LoopBase /\ lp.pc = "start" /\ hash = [h \in Heights |-> NoBlock]
  BY LoopInit DEF SnapInit, LedgerInit, Idle
<1>2. BlockFits
  BY <1>1 DEF BlockFits, FitsOn, HasHash, Choosing
<1>3. \A h \in Heights : RecordFits(h)
  BY <1>1 DEF RecordFits
<1> QED
  BY <1>1, <1>2, <1>3 DEF FitInv

(* What is recorded for a height is what was executed there, on top of its *)
(* parent, unless the node reorganised between the look back and the       *)
(* second call for that height: on either path of this driver, whatever    *)
(* fails, is rolled back or restarted, and however deep the reorganisation *)
(* is, as long as the driver looks back when it has to.                    *)
THEOREM SnapOneChainHolds ==
  MaxReorgDepth > 0 /\ OneGenesis => (SnapSpec /\ []ReorgsInReach => []SnapOneChain)
<1> SUFFICES ASSUME MaxReorgDepth > 0, OneGenesis
             PROVE  SnapSpec /\ []ReorgsInReach => []SnapOneChain
  OBVIOUS
<1>1. SnapInit => FitInv
  BY FitInit
<1>2. FitInv /\ ReorgsInReach /\ [SnapNext]_allVars => FitInv'
  BY FitKept
<1>3. FitInv => SnapOneChain
  <2> SUFFICES ASSUME FitInv PROVE SnapOneChain
    OBVIOUS
  <2>1. \A h \in StartBlock .. indexed : h \in Heights
    BY LedgerConstants DEF FitInv, LoopBase, IndexBase
  <2> QED
    BY <2>1 DEF FitInv, SnapOneChain, RecordFits
<1> QED
  BY <1>1, <1>2, <1>3, PTL DEF SnapSpec

(* Which the constants alone ensure when every fork branches off at or     *)
(* above a height that a walk reaches from the top.                        *)
THEOREM SnapOneChainInReach == ForksInReach => (SnapSpec => []SnapOneChain)
<1> SUFFICES ASSUME ForksInReach PROVE SnapSpec => []SnapOneChain
  OBVIOUS
<1> USE LedgerConstants
<1>1. PICK f \in Heights \ {0} :
        /\ f >= StartBlock
        /\ \A a, b \in Blocks : Height[a] = Height[b] /\ Height[a] <= f => a = b
        /\ MaxReorgDepth + f > MaxHeight /\ ReorgCheckThreshold + f >= MaxHeight
  BY DEF ForksInReach
<1>2. MaxReorgDepth > 0
  BY <1>1
<1>3. OneGenesis
  BY <1>1 DEF OneGenesis
<1>4. SnapInit => LoopBase
  BY LoopInit
<1>5. LoopBase /\ [SnapNext]_allVars => LoopBase'
  BY LoopBaseKept
<1>6. LoopBase => ReorgsInReach
  <2> SUFFICES ASSUME LoopBase, NEW p \in Heights, p + 1 = lp.h, Disagrees(p)
               PROVE  LooksBack(p + 1)
    BY DEF ReorgsInReach
  <2>1. /\ hash[p] \in Blocks /\ Height[hash[p]] = p /\ p <= Height[best] /\ best \in Blocks
        /\ Height[best] \in 0 .. MaxHeight
    BY DEF LoopBase, IndexBase, Disagrees
  <2>2. Ancestry(best)[p] \in Blocks /\ Height[Ancestry(best)[p]] = p
    BY <2>1, BlockAsked
  <2>3. f < p
    BY <1>1, <2>1, <2>2 DEF Disagrees
  <2>4. SatSub(Height[best], p + 1) <= ReorgCheckThreshold
    BY <1>1, <2>1, <2>3 DEF SatSub
  <2> QED
    BY <2>4 DEF LooksBack, NearTip
<1>7. SnapSpec /\ []ReorgsInReach => []SnapOneChain
  BY <1>2, <1>3, SnapOneChainHolds
<1> QED
  BY <1>4, <1>5, <1>6, <1>7, PTL DEF SnapSpec

-----------------------------------------------------------------------------
(***************************************************************************)
(* The library's pipeline.                                                 *)
(***************************************************************************)

(* The first block to fetch is below the exit height. *)
ExitAboveStart == \A e \in ExitHeights \ {NoExit} : e > StartBlock

LibType ==
  /\ currentHeight \in 0 .. MaxHeight + 1 /\ exitAt \in ExitHeights /\ moved \in BOOLEAN
  /\ blocks \in Seq(Blocks) /\ results \in Seq(Heights)
  /\ fet \in [pc : {"top", "tip", "undo", "store", "pick", "get", "send", "done"},
              h : 0 .. MaxHeight + 1, remote : Heights, target : Heights,
              block : Blocks \cup {NoBlock}, crossed : BOOLEAN]
  /\ prc \in [pc : {"recv", "commit", "report", "done"}, block : Blocks \cup {NoBlock}]
  /\ rst \in [pc : {"recv", "remove", "join"}, h : Heights]

(* current_height and the fetcher's height are never past the height after *)
(* the index, except for current_height until a rollback is stored.        *)
Cursor ==
  /\ FreshDb => /\ currentHeight = StartBlock
                /\ fet.pc \notin {"undo", "store"}
                /\ fet.pc \in {"tip", "pick", "get"} => fet.h = StartBlock
  /\ ~FreshDb => /\ fet.pc # "store" => currentHeight <= indexed + 1
                 /\ fet.pc \in {"tip", "store", "pick", "get"} => fet.h <= indexed + 1

BelowExit(h) == exitAt # NoExit => h < exitAt

(* The rollback goes to the highest agreeing record; what is fetched goes  *)
(* above agreeing records. *)
Fetching ==
  /\ \A t \in Heights : fet.pc = "undo" /\ t = fet.target =>
       hash[t] # NoBlock /\ ~Disagrees(t) /\ t + 1 \in Heights /\ Disagrees(t + 1)
  /\ \A c \in 0 .. MaxHeight + 1 : c = fet.h =>
       /\ fet.pc \in {"store", "pick", "get"} => AgreesBelow(c)
       /\ fet.pc = "get" => c <= fet.remote /\ BelowExit(c)
  /\ fet.pc \in {"store", "pick", "get", "undo"} => fet.remote <= Height[best]

Members(s) == {s[i] : i \in DOMAIN s}

(* The blocks between the fetcher and the index. *)
Flying ==
  Members(blocks)
  \cup {b \in {fet.block} : fet.pc = "send"} \cup {b \in {prc.block} : prc.pc = "commit"}

Good(b) ==
  /\ b \in Blocks /\ Height[b] <= Height[best] /\ b = Ancestry(best)[Height[b]]
  /\ AgreesBelow(Height[b]) /\ (FreshDb => Height[b] = StartBlock) /\ BelowExit(Height[b])

(* The heights between the index and current_height. *)
Told ==
  Members(results)
  \cup {h \in {rst.h} : rst.pc = "remove"} \cup {Height[b] : b \in {c \in {prc.block} : prc.pc = "report"}}

Reported(h) == h \in Heights /\ hash[h] # NoBlock /\ ~Disagrees(h)

InFlight ==
  /\ \A b \in Flying : Good(b)
  /\ \A h \in Told : Reported(h)
  /\ prc.pc \in {"commit", "report"} => prc.block \in Blocks

(* The heights come back in ascending order. *)
InOrder ==
  /\ \A i, j \in DOMAIN results : i < j => results[i] < results[j]
  /\ rst.pc = "remove" => \A i \in DOMAIN results : rst.h < results[i]
  /\ prc.pc = "report" => /\ \A i \in DOMAIN results : results[i] < Height[prc.block]
                          /\ rst.pc = "remove" => rst.h < Height[prc.block]

(* While the node has not reorganised, nothing is rolled back, and the     *)
(* result loop ends with the last block it waited for. *)
Exiting ==
  /\ \A h \in Heights : h = indexed => BelowExit(h)
  /\ ~moved => /\ \A h \in Heights : ~Disagrees(h)
               /\ fet.pc \notin {"undo", "store"}
               /\ rst.pc = "join" => /\ exitAt # NoExit /\ indexed = exitAt - 1 /\ ~FreshDb
                                     /\ results = <<>> /\ prc.pc # "report"

LibIndex == IndexBase /\ Linked /\ Dense

LibInv ==
  LibIndex /\ LibType /\ Cursor /\ Fetching /\ InFlight /\ InOrder /\ Exiting

LEMMA LibConstants ==
  /\ PipelineSize \in Nat /\ ExitHeights \ {NoExit} \subseteq Nat
BY LibAssumption

LEMMA AppendRange ==
  ASSUME NEW S, NEW s \in Seq(S), NEW e \in S
  PROVE  /\ Append(s, e) \in Seq(S)
         /\ Members(Append(s, e)) = Members(s) \cup {e}
         /\ \A i \in DOMAIN Append(s, e) :
              IF i \in DOMAIN s THEN Append(s, e)[i] = s[i] ELSE Append(s, e)[i] = e
<1>1. /\ Append(s, e) \in Seq(S) /\ Len(s) \in Nat /\ DOMAIN s = 1 .. Len(s)
      /\ DOMAIN Append(s, e) = 1 .. Len(s) + 1
      /\ \A i \in 1 .. Len(s) : Append(s, e)[i] = s[i]
      /\ Append(s, e)[Len(s) + 1] = e
  OBVIOUS
<1>2. \A i \in 1 .. Len(s) + 1 : i \in 1 .. Len(s) \/ i = Len(s) + 1
  BY <1>1
<1>3. Len(s) + 1 \in 1 .. Len(s) + 1 /\ Len(s) + 1 \notin 1 .. Len(s)
      /\ \A i \in 1 .. Len(s) : i \in 1 .. Len(s) + 1
  BY <1>1
<1> QED
  BY <1>1, <1>2, <1>3 DEF Members

LEMMA TailRange ==
  ASSUME NEW S, NEW s \in Seq(S), s # <<>>
  PROVE  /\ Tail(s) \in Seq(S) /\ Head(s) \in Members(s) /\ Members(Tail(s)) \subseteq Members(s)
         /\ Head(s) = s[1] /\ 1 \in DOMAIN s
         /\ \A i \in DOMAIN Tail(s) : i + 1 \in DOMAIN s /\ 1 < i + 1 /\ Tail(s)[i] = s[i + 1]
<1>1. /\ Tail(s) \in Seq(S) /\ Len(s) \in Nat \ {0} /\ DOMAIN s = 1 .. Len(s)
      /\ DOMAIN Tail(s) = 1 .. Len(s) - 1
      /\ \A i \in 1 .. Len(s) - 1 : Tail(s)[i] = s[i + 1]
      /\ Head(s) = s[1]
  OBVIOUS
<1>2. \A i \in 1 .. Len(s) - 1 : i + 1 \in 1 .. Len(s) /\ 1 < i + 1
  BY <1>1
<1>3. 1 \in 1 .. Len(s)
  BY <1>1
<1> QED
  BY <1>1, <1>2, <1>3 DEF Members

LEMMA LibInitInv == ExitAboveStart /\ LibInit => LibInv
<1> SUFFICES ASSUME ExitAboveStart, LibInit PROVE LibInv
  OBVIOUS
<1> USE LedgerConstants, LibConstants
<1>1. /\ best \in Blocks /\ indexed = 0 /\ hash = [h \in Heights |-> NoBlock]
      /\ moved = FALSE /\ currentHeight = StartBlock /\ exitAt \in ExitHeights
      /\ blocks = <<>> /\ results = <<>> /\ DOMAIN results = {} /\ DOMAIN blocks = {}
      /\ fet = [pc |-> "top", h |-> 0, remote |-> 0, target |-> 0,
                block |-> NoBlock, crossed |-> FALSE]
      /\ prc = [pc |-> "recv", block |-> NoBlock] /\ rst = [pc |-> "recv", h |-> 0]
  BY DEF LibInit, LedgerInit, Fetcher, Processor, Results
<1>2. FreshDb /\ \A h \in Heights : hash[h] = NoBlock
  BY <1>1 DEF FreshDb
<1>3. LibIndex
  BY <1>1, <1>2 DEF LibIndex, IndexBase, Linked, Dense
<1>4. LibType
  <2>1. 0 \in Heights /\ 0 \in 0 .. MaxHeight + 1 /\ StartBlock \in 0 .. MaxHeight + 1
    OBVIOUS
  <2>2. /\ fet \in [pc : {"top", "tip", "undo", "store", "pick", "get", "send", "done"},
                    h : 0 .. MaxHeight + 1, remote : Heights, target : Heights,
                    block : Blocks \cup {NoBlock}, crossed : BOOLEAN]
        /\ prc \in [pc : {"recv", "commit", "report", "done"}, block : Blocks \cup {NoBlock}]
        /\ rst \in [pc : {"recv", "remove", "join"}, h : Heights]
    BY <1>1, <2>1
  <2>3. blocks \in Seq(Blocks) /\ results \in Seq(Heights)
    BY <1>1
  <2> QED
    BY <1>1, <2>1, <2>2, <2>3 DEF LibType
<1>5. Cursor /\ Fetching /\ InOrder
  BY <1>1, <1>2 DEF Cursor, Fetching, InOrder
<1>6. InFlight
  <2>1. Flying = {} /\ Told = {}
    BY <1>1 DEF Flying, Told, Members
  <2> QED
    BY <1>1, <2>1 DEF InFlight
<1>7. Exiting
  BY <1>1, <1>2 DEF Exiting, BelowExit, Disagrees, ExitAboveStart
<1> QED
  BY <1>3, <1>4, <1>5, <1>6, <1>7 DEF LibInv

(* Steps that change neither the node nor the index. *)
LEMMA LibFrame ==
  ASSUME LibInv, UNCHANGED <<best, moved, exitAt, indexed, hash>>
  PROVE  /\ LibIndex' /\ (FreshDb' <=> FreshDb)
         /\ \A h : (Disagrees(h)' <=> Disagrees(h)) /\ (BelowExit(h)' <=> BelowExit(h))
         /\ \A h : (Reported(h)' <=> Reported(h)) /\ (AgreesBelow(h)' <=> AgreesBelow(h))
         /\ \A b : Good(b)' <=> Good(b)
<1>1. LibIndex' /\ (FreshDb' <=> FreshDb)
  BY DEF LibInv, LibIndex, IndexBase, Linked, Dense, FreshDb
<1>2. \A h : (Disagrees(h)' <=> Disagrees(h)) /\ (BelowExit(h)' <=> BelowExit(h))
  BY DEF Disagrees, BelowExit
<1>3. \A h : (Reported(h)' <=> Reported(h)) /\ (AgreesBelow(h)' <=> AgreesBelow(h))
  BY DEF Reported, AgreesBelow, Disagrees
<1>4. \A b : Good(b)' <=> Good(b)
  BY DEF Good, AgreesBelow, Disagrees, BelowExit, FreshDb
<1> QED
  BY <1>1, <1>2, <1>3, <1>4

(* The fetcher's steps but the rollback. *)
LEMMA FetchingFrame ==
  ASSUME LibInv, UNCHANGED <<best, moved, exitAt, indexed, hash, results, prc, rst>>,
         LibType', Cursor', Fetching', fet'.pc \in {"undo", "store"} => moved \/ fet.pc \in {"undo", "store"},
         \A b \in Flying' : b \in Flying \/ Good(b)
  PROVE  LibInv'
<1>1. /\ LibIndex' /\ \A h : (Disagrees(h)' <=> Disagrees(h)) /\ (BelowExit(h)' <=> BelowExit(h))
      /\ \A h : Reported(h)' <=> Reported(h)
      /\ \A b : Good(b)' <=> Good(b)
      /\ FreshDb' <=> FreshDb
  BY LibFrame
<1>2. Told' = Told
  BY DEF Told
<1>3. InFlight'
  BY <1>1, <1>2 DEF LibInv, InFlight
<1>4. InOrder'
  BY DEF LibInv, InOrder
<1>5. Exiting'
  BY <1>1 DEF LibInv, Exiting
<1> QED
  BY <1>1, <1>3, <1>4, <1>5 DEF LibInv

LibReorgsInReach ==
  fet.pc = "tip" =>
    \A c \in 0 .. MaxHeight + 1 : c = fet.h /\ ~AgreesBelow(c) =>
      NearTip(Height[best], c) /\ EndsWell(c)

(* The fetcher's look at the node: what it does not undo is above agreeing *)
(* records. *)
LEMMA TipKeeps ==
  ASSUME LibInv, LibReorgsInReach, LibTip
  PROVE  LibInv'
<1> USE LedgerConstants, LibConstants
<1> DEFINE undo == NearTip(Height[best], fet.h) /\ ReorgDetected(fet.h)
<1>1. /\ UNCHANGED <<best, moved, exitAt, indexed, hash, results, prc, rst, currentHeight, blocks>>
      /\ fet.pc = "tip"
      /\ fet' = [fet EXCEPT !.pc = IF undo THEN "undo" ELSE "pick", !.remote = Height[best],
                            !.target = IF undo THEN WalkEnd(fet.h) ELSE 0]
  BY DEF LibTip, fetcherOthers, index
<1>2. /\ IndexBase /\ Linked /\ Dense /\ LibType /\ Height[best] \in Heights
      /\ fet.h \in 0 .. MaxHeight + 1
  BY DEF LibInv, LibIndex, LibType, IndexBase
<1>3. WalkEnd(fet.h) \in Heights
  BY <1>2, WalkEndFacts
<1> HIDE DEF undo
<1>4. /\ fet'.pc = (IF undo THEN "undo" ELSE "pick") /\ fet'.h = fet.h
      /\ fet'.remote = Height[best] /\ fet'.target = IF undo THEN WalkEnd(fet.h) ELSE 0
  BY <1>1, <1>2 DEF LibType
<1>5. LibType'
  <2>1. fet' \in [pc : {"top", "tip", "undo", "store", "pick", "get", "send", "done"},
                  h : 0 .. MaxHeight + 1, remote : Heights, target : Heights,
                  block : Blocks \cup {NoBlock}, crossed : BOOLEAN]
    <3>0. 0 \in Heights
      OBVIOUS
    <3>1. \E p \in {"undo", "pick"}, t \in Heights :
            fet' = [fet EXCEPT !.pc = p, !.remote = Height[best], !.target = t]
      <4>1. CASE undo
        BY <1>1, <1>3, <4>1
      <4>2. CASE ~ undo
        BY <1>1, <3>0, <4>2
      <4> QED
        BY <4>1, <4>2
    <3> QED
      BY <1>2, <3>1 DEF LibType
  <2> QED
    BY <1>1, <1>2, <2>1 DEF LibType
<1>6. ~AgreesBelow(fet.h) => NearTip(Height[best], fet.h) /\ EndsWell(fet.h)
  BY <1>1, <1>2 DEF LibReorgsInReach
<1>7. ~ undo => AgreesBelow(fet.h)
  BY <1>2, <1>6, WalkNotices DEF undo
<1>8. ASSUME undo
      PROVE  \E d \in Heights : WalkEnd(fet.h) < d /\ d < fet.h /\ d <= indexed /\ Disagrees(d)
  BY <1>2, <1>8, DetectedFacts DEF undo
<1>9. ASSUME undo, NEW t \in Heights, t = WalkEnd(fet.h)
      PROVE  hash[t] # NoBlock /\ ~Disagrees(t) /\ t + 1 \in Heights /\ Disagrees(t + 1)
  <2>1. PICK d \in Heights : t < d /\ d < fet.h /\ d <= indexed /\ Disagrees(d)
    BY <1>8, <1>9
  <2>2. hash[t] # NoBlock /\ ~Disagrees(t)
    BY <1>6, <1>9, <2>1 DEF AgreesBelow, EndsWell, Disagrees
  <2>3. t + 1 \in Heights /\ t + 1 < fet.h /\ t + 1 <= d /\ ~(t + 1 <= t)
    BY <1>2, <2>1
  <2>4. hash[t + 1] # NoBlock
    <3>1. ~ FreshDb /\ indexed \in Heights
      BY <1>2, <2>1 DEF FreshDb, IndexBase, Disagrees
    <3> QED
      BY <1>2, <2>1, <2>2, <2>3, <3>1 DEF Dense
  <2>5. t + 1 \notin WalkStops(fet.h) /\ t + 1 \in WalkRange(fet.h)
    <3>1. \A h \in WalkStops(fet.h) : h <= t
      BY <1>2, <1>9, WalkEndFacts
    <3>2. t < t + 1
      OBVIOUS
    <3>3. \A h \in 0 .. MaxHeight : t < h /\ h < fet.h => h \in WalkRange(fet.h)
      BY <1>2, <1>9, WalkEndFacts
    <3> QED
      BY <2>3, <3>1, <3>2, <3>3
  <2> QED
    BY <2>2, <2>3, <2>4, <2>5 DEF WalkStops, Disagrees
<1>10. FreshDb => ~ undo
  BY <1>2, <1>8 DEF FreshDb, IndexBase, Disagrees
<1>11. Cursor'
  BY <1>1, <1>4, <1>10 DEF LibInv, Cursor, FreshDb
<1>12. Fetching'
  <2>1. \A h : (Disagrees(h)' <=> Disagrees(h)) /\ (AgreesBelow(h)' <=> AgreesBelow(h))
    BY <1>1, LibFrame
  <2>2. \A t \in Heights : fet'.pc = "undo" /\ t = fet'.target =>
          hash'[t] # NoBlock /\ ~Disagrees(t)' /\ t + 1 \in Heights /\ Disagrees(t + 1)'
    BY <1>1, <1>4, <1>9, <2>1
  <2> QED
    BY <1>1, <1>2, <1>4, <1>7, <2>1, <2>2 DEF Fetching
<1>13. fet'.pc \in {"undo", "store"} => moved
  <2>1. undo => \E d \in Heights : Disagrees(d)
    BY <1>8
  <2> QED
    BY <1>4, <2>1 DEF LibInv, Exiting
<1>14. Flying' \subseteq Flying
  BY <1>1, <1>4 DEF Flying
<1> QED
  BY <1>1, <1>5, <1>11, <1>12, <1>13, <1>14, FetchingFrame

LEMMA FetcherKeeps ==
  ASSUME LibInv, LibLoad \/ LibStore \/ LibPick \/ LibGet \/ LibSend \/ LibFetchFails
  PROVE  LibInv'
<1> USE LedgerConstants, LibConstants
<1> DEFINE idle == [pc |-> "top", h |-> 0, remote |-> 0, target |-> 0,
                    block |-> NoBlock, crossed |-> FALSE]
<1>1. UNCHANGED <<best, moved, exitAt, indexed, hash, results, prc, rst>>
  BY DEF LibLoad, LibStore, LibPick, LibGet, LibSend, LibFetchFails, fetcherOthers, index
<1>2. /\ LibIndex /\ LibType /\ Cursor /\ Fetching /\ InFlight /\ indexed \in Heights
      /\ best \in Blocks /\ Height[best] \in Heights /\ IndexBase
  BY DEF LibInv, LibIndex, LibType, IndexBase
<1>3. /\ \A h : (Disagrees(h)' <=> Disagrees(h)) /\ (BelowExit(h)' <=> BelowExit(h))
      /\ \A h : AgreesBelow(h)' <=> AgreesBelow(h)
      /\ FreshDb' <=> FreshDb
  BY <1>1, LibFrame
<1>a. fet \in [pc : {"top", "tip", "undo", "store", "pick", "get", "send", "done"},
               h : 0 .. MaxHeight + 1, remote : Heights, target : Heights,
               block : Blocks \cup {NoBlock}, crossed : BOOLEAN]
  BY <1>2 DEF LibType
<1>4. CASE fet' = idle /\ UNCHANGED <<currentHeight, blocks>> /\ fet.pc # "store"
  <2>1. LibType'
    BY <1>1, <1>2, <1>4 DEF LibType
  <2>2. Cursor' /\ Fetching'
    BY <1>1, <1>2, <1>3, <1>4 DEF Cursor, Fetching
  <2>3. Flying' \subseteq Flying
    BY <1>1, <1>4 DEF Flying
  <2> QED
    BY <1>1, <1>4, <2>1, <2>2, <2>3, FetchingFrame
<1>5. CASE LibLoad
  <2>1. /\ fet' = [pc |-> "tip", h |-> currentHeight, remote |-> 0, target |-> 0,
                   block |-> NoBlock, crossed |-> FALSE]
        /\ UNCHANGED <<currentHeight, blocks>> /\ fet.pc = "top"
    BY <1>5 DEF LibLoad, Fetcher
  <2>2. LibType'
    BY <1>1, <1>2, <2>1 DEF LibType
  <2>3. Cursor' /\ Fetching'
    BY <1>1, <1>2, <1>3, <2>1 DEF Cursor, Fetching
  <2>4. Flying' \subseteq Flying
    BY <1>1, <2>1 DEF Flying
  <2> QED
    BY <1>1, <2>1, <2>2, <2>3, <2>4, FetchingFrame
<1>6. CASE LibStore
  <2>1. fet' = [fet EXCEPT !.pc = "pick"] /\ currentHeight' = fet.h /\ UNCHANGED blocks /\ fet.pc = "store"
    BY <1>6 DEF LibStore
  <2>2. fet'.pc = "pick" /\ fet'.h = fet.h /\ fet'.remote = fet.remote /\ fet'.target = fet.target
    BY <1>a, <2>1
  <2>3. LibType'
    BY <1>1, <1>2, <1>a, <2>1 DEF LibType
  <2>4. Cursor' /\ Fetching'
    BY <1>1, <1>2, <1>3, <2>1, <2>2 DEF Cursor, Fetching
  <2>5. Flying' \subseteq Flying
    BY <1>1, <2>1, <2>2 DEF Flying
  <2> QED
    BY <1>1, <2>2, <2>3, <2>4, <2>5, FetchingFrame
<1>7. CASE LibPick
  <2>1. /\ UNCHANGED <<currentHeight, blocks>> /\ fet.pc = "pick"
        /\ \/ fet' = idle
           \/ fet' = [pc |-> "done", h |-> 0, remote |-> 0, target |-> 0,
                      block |-> NoBlock, crossed |-> FALSE]
           \/ fet' = [fet EXCEPT !.pc = "get"] /\ ~ (fet.h > fet.remote)
              /\ (exitAt # NoExit => ~ (fet.h >= exitAt))
    BY <1>7 DEF LibPick, Fetcher
  <2>2. CASE fet' = [pc |-> "done", h |-> 0, remote |-> 0, target |-> 0,
                     block |-> NoBlock, crossed |-> FALSE]
    <3>1. LibType'
      BY <1>1, <1>2, <2>1, <2>2 DEF LibType
    <3>2. Cursor' /\ Fetching'
      BY <1>1, <1>2, <1>3, <2>1, <2>2 DEF Cursor, Fetching
    <3>3. Flying' \subseteq Flying
      BY <1>1, <2>1, <2>2 DEF Flying
    <3> QED
      BY <1>1, <2>2, <3>1, <3>2, <3>3, FetchingFrame
  <2>3. CASE fet' = [fet EXCEPT !.pc = "get"] /\ ~ (fet.h > fet.remote)
             /\ (exitAt # NoExit => ~ (fet.h >= exitAt))
    <3>1. fet'.pc = "get" /\ fet'.h = fet.h /\ fet'.remote = fet.remote /\ fet'.target = fet.target
      BY <1>a, <2>3
    <3>2. LibType'
      BY <1>1, <1>2, <1>a, <2>1, <2>3 DEF LibType
    <3>3. fet.h <= fet.remote /\ BelowExit(fet.h)
      <4>1. exitAt # NoExit => exitAt \in Nat
        BY <1>2 DEF LibType
      <4> QED
        BY <1>a, <2>3, <4>1 DEF BelowExit
    <3>4. Cursor' /\ Fetching'
      BY <1>1, <1>2, <1>3, <2>1, <3>1, <3>3 DEF Cursor, Fetching
    <3>5. Flying' \subseteq Flying
      BY <1>1, <2>1, <3>1 DEF Flying
    <3> QED
      BY <1>1, <3>1, <3>2, <3>4, <3>5, FetchingFrame
  <2> QED
    BY <1>4, <2>1, <2>2, <2>3
<1>8. CASE LibGet
  <2>1. /\ fet' = [pc |-> "send", h |-> 0, remote |-> 0, target |-> 0,
                   block |-> Ancestry(best)[fet.h], crossed |-> FALSE]
        /\ UNCHANGED <<currentHeight, blocks>> /\ fet.pc = "get"
    BY <1>8 DEF LibGet, Fetcher
  <2>2. /\ fet.h <= Height[best] /\ AgreesBelow(fet.h) /\ BelowExit(fet.h)
        /\ FreshDb => fet.h = StartBlock
    <3>1. fet.h <= fet.remote /\ fet.remote <= Height[best] /\ AgreesBelow(fet.h) /\ BelowExit(fet.h)
      BY <1>2, <1>a, <2>1 DEF Fetching
    <3>2. fet.h <= Height[best]
      BY <1>2, <1>a, <3>1
    <3> QED
      BY <1>2, <2>1, <3>1, <3>2 DEF Cursor
  <2>3. Ancestry(best)[fet.h] \in Blocks /\ Height[Ancestry(best)[fet.h]] = fet.h
    BY <1>2, <1>a, <2>2, BlockAsked
  <2>4. Good(Ancestry(best)[fet.h])
    BY <2>2, <2>3 DEF Good
  <2>5. LibType'
    BY <1>1, <1>2, <2>1, <2>3 DEF LibType
  <2>6. Cursor' /\ Fetching'
    BY <1>1, <1>2, <1>3, <2>1 DEF Cursor, Fetching
  <2>7. Flying' \subseteq Flying \cup {Ancestry(best)[fet.h]}
    BY <1>1, <2>1 DEF Flying
  <2> QED
    BY <1>1, <2>1, <2>4, <2>5, <2>6, <2>7, FetchingFrame
<1>9. CASE LibSend
  <2>1. fet' = idle /\ UNCHANGED currentHeight /\ blocks' = Append(blocks, fet.block) /\ fet.pc = "send"
    BY <1>9 DEF LibSend, Fetcher
  <2>2. fet.block \in Flying
    BY <2>1 DEF Flying
  <2>3. fet.block \in Blocks /\ blocks \in Seq(Blocks)
    BY <1>2, <2>2 DEF InFlight, Good, LibType
  <2>4. blocks' \in Seq(Blocks) /\ Members(blocks') = Members(blocks) \cup {fet.block}
    BY <2>1, <2>3, AppendRange
  <2>5. LibType'
    BY <1>1, <1>2, <2>1, <2>4 DEF LibType
  <2>6. Cursor' /\ Fetching'
    BY <1>1, <1>2, <1>3, <2>1 DEF Cursor, Fetching
  <2>7. Flying' \subseteq Flying
    BY <1>1, <2>1, <2>4 DEF Flying
  <2> QED
    BY <1>1, <2>1, <2>5, <2>6, <2>7, FetchingFrame
<1>10. CASE LibFetchFails
  BY <1>4, <1>10 DEF LibFetchFails, Fetcher
<1> QED
  BY <1>5, <1>6, <1>7, <1>8, <1>9, <1>10

(* A rollback leaves the records that agree: what is in flight rests on    *)
(* them, and what is reported is one of them. *)
LEMMA LibRollbackKeeps ==
  ASSUME LibInv, LibRollback
  PROVE  LibInv'
<1> USE LedgerConstants, LibConstants
<1>1. /\ IndexBase /\ Linked /\ Dense /\ LibType /\ Cursor /\ Fetching /\ InFlight /\ Exiting
      /\ indexed \in Heights
  BY DEF LibInv, LibIndex, IndexBase
<1>2. PICK t \in Heights : t = fet.target
  BY <1>1 DEF LibType
<1>3. /\ fet.pc = "undo" /\ RollbackTo(t) /\ fet' = [fet EXCEPT !.pc = "store", !.h = t + 1, !.target = 0]
      /\ UNCHANGED <<best, moved, exitAt, currentHeight, blocks, results, prc, rst>>
  BY <1>2 DEF LibRollback, fetcherOthers
<1>4. hash[t] # NoBlock /\ ~Disagrees(t) /\ t + 1 \in Heights /\ Disagrees(t + 1)
  BY <1>1, <1>2, <1>3 DEF Fetching
<1>5. /\ IndexBase' /\ Linked' /\ Dense' /\ ~ FreshDb' /\ ~ FreshDb /\ indexed' = t /\ t <= indexed
      /\ \A h \in Heights : hash'[h] = IF h > t THEN NoBlock ELSE hash[h]
  BY <1>1, <1>3, <1>4, RollbackCuts
<1>6. \A h \in Heights : h <= t => ~Disagrees(h)
  BY <1>1, <1>4, AgreementGoesDown DEF Disagrees
<1>7. \A h \in Heights : Disagrees(h)' => Disagrees(h) /\ h <= t
  BY <1>3, <1>5 DEF Disagrees
<1>8. \A h \in Heights : ~ Disagrees(h)'
  BY <1>6, <1>7
<1>9. \A h \in Heights : Reported(h) => h <= t
  <2>1. ASSUME NEW h \in Heights, Reported(h), ~ (h <= t) PROVE FALSE
    <3>1. t + 1 <= h
      BY <2>1
    <3>2. ~Disagrees(t + 1)
      BY <1>1, <1>4, <2>1, <3>1, AgreementGoesDown DEF Reported, Disagrees
    <3> QED
      BY <1>4, <3>2
  <2> QED
    BY <2>1
<1>a. fet \in [pc : {"top", "tip", "undo", "store", "pick", "get", "send", "done"},
               h : 0 .. MaxHeight + 1, remote : Heights, target : Heights,
               block : Blocks \cup {NoBlock}, crossed : BOOLEAN]
  BY <1>1 DEF LibType
<1>b. t + 1 \in 0 .. MaxHeight + 1 /\ 0 \in Heights
  BY <1>4
<1>10. /\ fet'.pc = "store" /\ fet'.h = t + 1 /\ fet'.remote = fet.remote
       /\ t + 1 \in 0 .. MaxHeight + 1
  BY <1>3, <1>a, <1>b
<1>11. LibType'
  <2>1. fet' \in [pc : {"top", "tip", "undo", "store", "pick", "get", "send", "done"},
                  h : 0 .. MaxHeight + 1, remote : Heights, target : Heights,
                  block : Blocks \cup {NoBlock}, crossed : BOOLEAN]
    BY <1>3, <1>a, <1>b
  <2> QED
    BY <1>1, <1>3, <2>1 DEF LibType
<1>12. Cursor' /\ Fetching'
  <2>1. \A c : AgreesBelow(c)'
    BY <1>8 DEF AgreesBelow
  <2> QED
    BY <1>1, <1>3, <1>5, <1>10, <2>1 DEF Cursor, Fetching
<1>13. InFlight'
  <2>1. Flying' \subseteq Flying /\ Told' = Told
    BY <1>3, <1>10 DEF Flying, Told
  <2>2. \A b : Good(b) => Good(b)'
    BY <1>3, <1>5, <1>8 DEF Good, AgreesBelow, BelowExit
  <2>3. \A h : Reported(h) => Reported(h)'
    BY <1>5, <1>8, <1>9 DEF Reported
  <2> QED
    BY <1>1, <1>3, <2>1, <2>2, <2>3 DEF InFlight
<1>14. InOrder'
  BY <1>3 DEF LibInv, InOrder
<1>15. Exiting'
  <2>1. moved
    BY <1>1, <1>3 DEF Exiting
  <2>2. BelowExit(t)'
    <3>1. exitAt # NoExit => exitAt \in Nat
      BY <1>1 DEF LibType
    <3> QED
      BY <1>1, <1>3, <1>5, <3>1 DEF Exiting, BelowExit
  <2> QED
    BY <1>3, <1>5, <2>1, <2>2 DEF Exiting
<1> QED
  BY <1>5, <1>11, <1>12, <1>13, <1>14, <1>15 DEF LibInv, LibIndex

(* The channels and the result loop do not touch the index. *)
LEMMA ChannelsKeep ==
  ASSUME LibInv, LibRecv \/ LibReport \/ LibProcessorEnds \/ LibResult \/ LibResultDone
  PROVE  LibInv'
<1> USE LedgerConstants, LibConstants
<1>1. UNCHANGED <<best, moved, exitAt, indexed, hash, fet>>
  BY DEF LibRecv, LibReport, LibProcessorEnds, LibResult, LibResultDone, processorOthers,
         resultOthers, index
<1>2. /\ LibIndex /\ LibType /\ Cursor /\ Fetching /\ InFlight /\ InOrder /\ Exiting
      /\ indexed \in Heights /\ \A h \in Heights : hash[h] # NoBlock => h <= indexed
  BY DEF LibInv, LibIndex, IndexBase
<1>3. /\ LibIndex' /\ (FreshDb' <=> FreshDb)
      /\ \A h : (Disagrees(h)' <=> Disagrees(h)) /\ (BelowExit(h)' <=> BelowExit(h))
      /\ \A h : (Reported(h)' <=> Reported(h)) /\ (AgreesBelow(h)' <=> AgreesBelow(h))
      /\ \A b : Good(b)' <=> Good(b)
  BY <1>1, LibFrame
<1>4. Fetching'
  BY <1>1, <1>2, <1>3 DEF Fetching
<1>5. /\ prc \in [pc : {"recv", "commit", "report", "done"}, block : Blocks \cup {NoBlock}]
      /\ rst \in [pc : {"recv", "remove", "join"}, h : Heights]
      /\ blocks \in Seq(Blocks) /\ results \in Seq(Heights)
  BY <1>2 DEF LibType
<1>6. CASE LibRecv
  <2>1. /\ blocks # <<>> /\ blocks' = Tail(blocks) /\ prc' = [pc |-> "commit", block |-> Head(blocks)]
        /\ UNCHANGED <<currentHeight, results, rst>> /\ prc.pc = "recv"
    BY <1>6 DEF LibRecv, processorOthers
  <2>2. /\ blocks' \in Seq(Blocks) /\ Members(blocks') \subseteq Members(blocks)
        /\ Head(blocks) \in Members(blocks)
    BY <1>5, <2>1, TailRange
  <2>3. Flying' \subseteq Flying /\ Told' \subseteq Told
    BY <1>1, <2>1, <2>2 DEF Flying, Told
  <2>4. Head(blocks) \in Blocks
    BY <1>2, <2>2 DEF InFlight, Flying, Good
  <2>5. LibType' /\ InFlight'
    BY <1>1, <1>2, <1>3, <2>1, <2>2, <2>3, <2>4 DEF LibType, InFlight
  <2>6. Cursor' /\ InOrder' /\ Exiting'
    BY <1>1, <1>2, <1>3, <2>1 DEF Cursor, InOrder, Exiting
  <2> QED
    BY <1>3, <1>4, <2>5, <2>6 DEF LibInv
<1>7. CASE LibReport
  <2> DEFINE h == Height[prc.block]
  <2>1. /\ results' = Append(results, h) /\ prc' = [pc |-> "recv", block |-> NoBlock]
        /\ UNCHANGED <<currentHeight, blocks, rst>> /\ prc.pc = "report"
    BY <1>7 DEF LibReport, processorOthers, Processor
  <2>2. h \in Heights /\ Reported(h)
    BY <1>2, <2>1 DEF InFlight, Told
  <2>3. h \in Told
    BY <2>1 DEF Told
  <2> HIDE DEF h
  <2>4. /\ results' \in Seq(Heights) /\ Members(results') = Members(results) \cup {h}
        /\ \A i \in DOMAIN results' :
             IF i \in DOMAIN results THEN results'[i] = results[i] ELSE results'[i] = h
    BY <1>5, <2>1, <2>2, AppendRange
  <2>5. Flying' \subseteq Flying /\ Told' \subseteq Told
    BY <1>1, <2>1, <2>3, <2>4 DEF Flying, Told
  <2>6. LibType' /\ InFlight'
    BY <1>1, <1>2, <1>3, <2>1, <2>4, <2>5 DEF LibType, InFlight
  <2>7. InOrder'
    <3>1. /\ \A i, j \in DOMAIN results : i < j => results[i] < results[j]
          /\ \A i \in DOMAIN results : results[i] < h
          /\ rst.pc = "remove" => rst.h < h /\ \A i \in DOMAIN results : rst.h < results[i]
      BY <1>2, <2>1 DEF InOrder, h
    <3>2. \A i, j \in DOMAIN results' : i < j /\ j \in DOMAIN results => i \in DOMAIN results
      <4>1. DOMAIN results' = 1 .. Len(results') /\ DOMAIN results = 1 .. Len(results)
            /\ Len(results) \in Nat /\ Len(results') \in Nat
        BY <1>5, <2>4
      <4> QED
        BY <4>1
    <3>3. \A i, j \in DOMAIN results' : i < j /\ j \notin DOMAIN results => i \in DOMAIN results
      <4>1. DOMAIN results' = 1 .. Len(results) + 1 /\ DOMAIN results = 1 .. Len(results)
            /\ Len(results) \in Nat
        BY <1>5, <2>1, <2>2
      <4> QED
        BY <4>1
    <3>4. \A i, j \in DOMAIN results' : i < j => results'[i] < results'[j]
      BY <2>4, <3>1, <3>2, <3>3
    <3>5. rst.pc = "remove" => \A i \in DOMAIN results' : rst.h < results'[i]
      BY <2>4, <3>1
    <3> QED
      BY <2>1, <3>4, <3>5 DEF InOrder
  <2>8. Cursor' /\ Exiting'
    BY <1>1, <1>2, <1>3, <2>1 DEF Cursor, Exiting
  <2> QED
    BY <1>3, <1>4, <2>6, <2>7, <2>8 DEF LibInv
<1>8. CASE LibProcessorEnds
  <2>1. /\ prc' = [pc |-> "done", block |-> NoBlock] /\ UNCHANGED <<currentHeight, blocks, results, rst>>
        /\ prc.pc = "recv"
    BY <1>8 DEF LibProcessorEnds, processorOthers, Processor
  <2>2. Flying' \subseteq Flying /\ Told' \subseteq Told
    BY <1>1, <2>1 DEF Flying, Told
  <2>3. LibType' /\ InFlight' /\ Cursor' /\ InOrder' /\ Exiting'
    BY <1>1, <1>2, <1>3, <2>1, <2>2 DEF LibType, InFlight, Cursor, InOrder, Exiting
  <2> QED
    BY <1>3, <1>4, <2>3 DEF LibInv
<1>9. CASE LibResult
  <2>1. /\ results # <<>> /\ results' = Tail(results) /\ currentHeight' = Head(results) + 1
        /\ rst' = [pc |-> "remove", h |-> Head(results)] /\ rst.pc = "recv"
        /\ UNCHANGED <<blocks, prc>>
    BY <1>9 DEF LibResult, resultOthers
  <2>2. /\ results' \in Seq(Heights) /\ Members(results') \subseteq Members(results)
        /\ Head(results) \in Members(results) /\ Head(results) = results[1] /\ 1 \in DOMAIN results
        /\ \A i \in DOMAIN results' : i + 1 \in DOMAIN results /\ 1 < i + 1 /\ results'[i] = results[i + 1]
    BY <1>5, <2>1, TailRange
  <2>3. Flying' = Flying /\ Told' \subseteq Told
    BY <1>1, <2>1, <2>2 DEF Flying, Told
  <2>4. Reported(Head(results)) /\ Head(results) \in Heights
    BY <1>2, <2>2 DEF InFlight, Told, Reported
  <2>5. LibType' /\ InFlight'
    <3>1. rst' \in [pc : {"recv", "remove", "join"}, h : Heights]
          /\ currentHeight' \in 0 .. MaxHeight + 1
      BY <2>1, <2>4
    <3>2. LibType'
      BY <1>1, <1>2, <2>1, <2>2, <3>1 DEF LibType
    <3>3. InFlight'
      BY <1>2, <1>3, <2>1, <2>3 DEF InFlight
    <3> QED
      BY <3>2, <3>3
  <2>6. ~FreshDb /\ Head(results) <= indexed
    BY <1>2, <2>4 DEF Reported, FreshDb
  <2>7. Cursor'
    BY <1>1, <1>2, <1>3, <2>1, <2>4, <2>6 DEF Cursor
  <2>8. InOrder'
    <3>1. \A i, j \in DOMAIN results' : i < j => i + 1 < j + 1
      <4>1. DOMAIN results' = 1 .. Len(results') /\ Len(results') \in Nat
        BY <2>2
      <4> QED
        BY <4>1
    <3>2. \A i, j \in DOMAIN results' : i < j => results'[i] < results'[j]
      BY <1>2, <2>2, <3>1 DEF InOrder
    <3>3. \A i \in DOMAIN results' : Head(results) < results'[i]
      BY <1>2, <2>2 DEF InOrder
    <3>4. prc.pc = "report" => /\ \A i \in DOMAIN results' : results'[i] < Height[prc.block]
                               /\ Head(results) < Height[prc.block]
      BY <1>2, <2>2 DEF InOrder
    <3> QED
      BY <2>1, <3>2, <3>3, <3>4 DEF InOrder
  <2>9. Exiting'
    BY <1>1, <1>2, <1>3, <2>1 DEF Exiting
  <2> QED
    BY <1>3, <1>4, <2>5, <2>7, <2>8, <2>9 DEF LibInv
<1>10. CASE LibResultDone
  <2>1. /\ UNCHANGED <<currentHeight, blocks, results, prc>> /\ rst.pc = "remove"
        /\ \/ rst' = [pc |-> "recv", h |-> 0]
           \/ rst' = [pc |-> "join", h |-> 0] /\ exitAt # NoExit /\ rst.h + 1 >= exitAt
    BY <1>10 DEF LibResultDone, resultOthers, Results
  <2>2. Flying' = Flying /\ Told' \subseteq Told
    BY <1>1, <2>1 DEF Flying, Told
  <2>3. rst'.pc \in {"recv", "join"} /\ LibType'
    <3>1. [pc |-> "recv", h |-> 0] \in [pc : {"recv", "remove", "join"}, h : Heights]
          /\ [pc |-> "join", h |-> 0] \in [pc : {"recv", "remove", "join"}, h : Heights]
      OBVIOUS
    <3> QED
      BY <1>1, <1>2, <2>1, <3>1 DEF LibType
  <2>4. InFlight' /\ Cursor' /\ InOrder'
    BY <1>1, <1>2, <1>3, <2>1, <2>2, <2>3 DEF InFlight, Cursor, InOrder
  <2>5. ASSUME exitAt # NoExit, rst.h + 1 >= exitAt
        PROVE  indexed = exitAt - 1 /\ ~FreshDb /\ results = <<>> /\ prc.pc # "report"
    <3>1. Reported(rst.h) /\ exitAt \in Nat /\ indexed < exitAt
      BY <1>2, <2>1, <2>5 DEF InFlight, Told, LibType, Exiting, BelowExit
    <3>2. rst.h \in Heights /\ rst.h <= indexed /\ ~FreshDb
      BY <1>2, <3>1 DEF Reported, FreshDb
    <3>3. rst.h = indexed /\ indexed = exitAt - 1
      BY <1>2, <2>5, <3>1, <3>2
    <3>4. \A h \in Told : h <= indexed /\ h \in Heights
      BY <1>2 DEF InFlight, Reported
    <3>5. results = <<>>
      <4>1. ASSUME results # <<>> PROVE FALSE
        <5>1. 1 \in DOMAIN results /\ results[1] \in Members(results)
          BY <1>5, <4>1, TailRange
        <5>2. results[1] <= indexed /\ results[1] \in Heights
          BY <3>4, <5>1 DEF Told
        <5>3. rst.h < results[1]
          BY <1>2, <2>1, <5>1 DEF InOrder
        <5> QED
          BY <1>2, <3>3, <5>2, <5>3
      <4> QED
        BY <4>1
    <3>6. prc.pc # "report"
      <4>1. prc.pc = "report" => Height[prc.block] \in Told
        BY DEF Told
      <4>2. prc.pc = "report" => rst.h < Height[prc.block]
        BY <1>2, <2>1 DEF InOrder
      <4> QED
        BY <1>2, <3>3, <3>4, <4>1, <4>2
    <3> QED
      BY <3>2, <3>3, <3>5, <3>6
  <2>6. Exiting'
    BY <1>1, <1>2, <1>3, <2>1, <2>5 DEF Exiting
  <2> QED
    BY <1>3, <1>4, <2>3, <2>4, <2>6 DEF LibInv
<1> QED
  BY <1>6, <1>7, <1>8, <1>9, <1>10

(* The block that is committed is above every record, all of which agree,  *)
(* and so is its height above the ones on their way to current_height.     *)
LEMMA LibCommitKeeps ==
  ASSUME LibInv, LibCommit
  PROVE  LibInv'
<1> USE LedgerConstants, LibConstants
<1>1. /\ IndexBase /\ Linked /\ Dense /\ LibType /\ Cursor /\ Fetching /\ InFlight /\ InOrder
      /\ Exiting /\ indexed \in Heights
  BY DEF LibInv, LibIndex, IndexBase
<1>2. PICK b \in Blocks : b = prc.block /\ Good(b)
  BY <1>1 DEF InFlight, Flying, LibCommit
<1>3. PICK g \in Heights : g = Height[b]
  OBVIOUS
<1>4. /\ prc.pc = "commit" /\ Accepts(g) /\ Commit(b) /\ prc' = [prc EXCEPT !.pc = "report"]
      /\ UNCHANGED <<best, moved, exitAt, currentHeight, fet, rst, blocks, results>>
  BY <1>2, <1>3 DEF LibCommit, processorOthers
<1>5. prc'.pc = "report" /\ prc'.block = b /\ LibType'
  BY <1>1, <1>2, <1>4 DEF LibType
<1>6. /\ g <= Height[best] /\ b = Ancestry(best)[g] /\ AgreesBelow(g) /\ (FreshDb => g = StartBlock)
      /\ BelowExit(g)
  BY <1>2, <1>3 DEF Good
<1>7. /\ IndexBase' /\ Linked' /\ Dense' /\ ~ FreshDb' /\ indexed' = g
      /\ \A h \in Heights : hash'[h] = IF h = g THEN b ELSE hash[h]
      /\ \A h \in Heights : hash[h] # NoBlock => h < g
  BY <1>1, <1>3, <1>4, <1>6, CommitExtends
<1>8. FreshDb \/ g = indexed + 1
  BY <1>4 DEF Accepts
<1>9. \A h \in Heights : ~ Disagrees(h)
  BY <1>6, <1>7 DEF AgreesBelow, Disagrees
<1>10. \A h \in Heights : ~ Disagrees(h)'
  BY <1>4, <1>6, <1>7, <1>9 DEF Disagrees
<1>11. \A c : AgreesBelow(c)'
  BY <1>10 DEF AgreesBelow
<1>12. Cursor'
  <2>1. CASE FreshDb
    BY <1>1, <1>4, <1>6, <1>7, <2>1 DEF Cursor
  <2>2. CASE ~ FreshDb
    <3>1. currentHeight \in Int /\ fet.h \in Int
      BY <1>1 DEF LibType
    <3> QED
      BY <1>1, <1>4, <1>7, <1>8, <2>2, <3>1 DEF Cursor
  <2> QED
    BY <2>1, <2>2
<1>13. Fetching'
  <2>1. fet.pc # "undo"
    <3>1. \E t \in Heights : t = fet.target
      BY <1>1 DEF LibType
    <3> QED
      BY <1>1, <1>9, <3>1 DEF Fetching
  <2> QED
    BY <1>1, <1>4, <1>11, <2>1 DEF Fetching, BelowExit
<1>14. InFlight'
  <2>1. Flying' \subseteq Flying /\ Told' \subseteq Told \cup {g}
    BY <1>3, <1>4, <1>5 DEF Flying, Told
  <2>2. \A x : Good(x) => Good(x)'
    BY <1>4, <1>7, <1>11 DEF Good, BelowExit
  <2>3. \A h : Reported(h) => Reported(h)'
    BY <1>2, <1>7, <1>10, LedgerConstants DEF Reported
  <2>4. Reported(g)'
    BY <1>2, <1>7, <1>10 DEF Reported
  <2> QED
    BY <1>1, <1>5, <2>1, <2>2, <2>3, <2>4 DEF InFlight
<1>15. InOrder'
  <2>1. \A h \in Told : h < g
    BY <1>1, <1>7 DEF InFlight, Reported
  <2>2. \A i \in DOMAIN results : results[i] \in Told
    BY DEF Told, Members
  <2>3. rst.pc = "remove" => rst.h \in Told
    BY DEF Told
  <2> QED
    BY <1>1, <1>3, <1>4, <1>5, <2>1, <2>2, <2>3 DEF InOrder
<1>16. Exiting'
  <2>1. exitAt # NoExit => exitAt \in Nat /\ g < exitAt
    BY <1>1, <1>6 DEF LibType, BelowExit
  <2>2. moved \/ rst.pc # "join"
    BY <1>1, <1>8, <2>1 DEF Exiting
  <2> QED
    BY <1>1, <1>4, <1>7, <1>10, <2>1, <2>2 DEF Exiting, BelowExit
<1> QED
  BY <1>5, <1>7, <1>12, <1>13, <1>14, <1>15, <1>16 DEF LibInv, LibIndex

(* A node that grows changes none of its blocks. *)
LEMMA LibNodeKeeps ==
  ASSUME LibInv, ~ moved', LibNode
  PROVE  LibInv'
<1> USE LedgerConstants, LibConstants
<1>1. /\ IndexBase /\ Linked /\ Dense /\ LibType /\ Cursor /\ Fetching /\ InFlight /\ InOrder
      /\ Exiting /\ indexed \in Heights /\ best \in Blocks
  BY DEF LibInv, LibIndex, IndexBase
<1>2. UNCHANGED <<exitAt, currentHeight, blocks, results, fet, prc, rst>>
  BY DEF LibNode, NodeReorganises
<1>3. PICK t \in Blocks : NodeGrows(t)
  BY DEF LibNode, NodeReorganises
<1>4. indexed' = indexed /\ hash' = hash /\ best' \in Blocks /\ moved' \in BOOLEAN
  BY <1>1, <1>3 DEF NodeGrows, index, LibType
<1>5. Linked' /\ Dense' /\ (FreshDb' <=> FreshDb) /\ LibType' /\ Cursor' /\ InOrder'
  BY <1>1, <1>2, <1>4 DEF Linked, Dense, FreshDb, LibType, Cursor, InOrder
<1>6. /\ IndexBase' /\ Height[best'] = Height[best] + 1 /\ moved' = moved
      /\ \A h \in 0 .. Height[best] : Ancestry(best)[h] = Ancestry(best')[h]
      /\ \A h \in Heights : hash[h] # NoBlock => Ancestry(best)[h] = Ancestry(best')[h]
  BY <1>1, <1>3, GrowthIsInvisible DEF NodeGrows
<1>7. \A h \in Heights : Disagrees(h)' <=> Disagrees(h)
  BY <1>4, <1>6 DEF Disagrees
<1>8. \A c : AgreesBelow(c)' <=> AgreesBelow(c)
  BY <1>7 DEF AgreesBelow
<1>9. Fetching'
  <2>1. fet.remote \in Int
    BY <1>1 DEF LibType
  <2>2. \A h \in Heights : h + 1 \in Heights => (Disagrees(h + 1)' <=> Disagrees(h + 1))
    BY <1>7
  <2> QED
    BY <1>1, <1>2, <1>4, <1>6, <1>7, <1>8, <2>1, <2>2 DEF Fetching, BelowExit
<1>10. InFlight'
  <2>1. Flying' = Flying /\ Told' = Told
    BY <1>2 DEF Flying, Told
  <2>2. \A x : Good(x) => Good(x)'
    <3> SUFFICES ASSUME NEW x, Good(x) PROVE Good(x)'
      OBVIOUS
    <3>1. x \in Blocks /\ Height[x] \in 0 .. Height[best] /\ Height[x] <= Height[best']
      BY <1>1, <1>6 DEF Good
    <3>2. x = Ancestry(best')[Height[x]]
      BY <1>6, <3>1 DEF Good
    <3> QED
      BY <1>2, <1>5, <1>8, <3>1, <3>2 DEF Good, BelowExit
  <2>3. \A h : Reported(h) => Reported(h)'
    BY <1>4, <1>7 DEF Reported
  <2> QED
    BY <1>1, <1>2, <2>1, <2>2, <2>3 DEF InFlight
<1>11. Exiting'
  BY <1>1, <1>2, <1>4, <1>5, <1>6, <1>7 DEF Exiting, BelowExit
<1> QED
  BY <1>5, <1>6, <1>9, <1>10, <1>11 DEF LibInv, LibIndex

LEMMA LibInvKept ==
  LibInv /\ LibReorgsInReach /\ ~ moved' /\ [LibNext]_libVars => LibInv'
<1> SUFFICES ASSUME LibInv, LibReorgsInReach, ~ moved', [LibNext]_libVars PROVE LibInv'
  OBVIOUS
<1>1. CASE UNCHANGED libVars
  BY <1>1 DEF libVars, LibInv, LibIndex, IndexBase, Linked, Dense, LibType, Cursor, Fetching,
              InFlight, InOrder, Exiting, FreshDb, AgreesBelow, BelowExit, Flying, Told, Good,
              Reported, Disagrees
<1>2. CASE LibFetcherStep \/ LibFetchFails
  BY <1>2, FetcherKeeps, TipKeeps, LibRollbackKeeps DEF LibFetcherStep
<1>3. CASE LibProcessorStep \/ LibResultStep
  BY <1>3, ChannelsKeep, LibCommitKeeps DEF LibProcessorStep, LibResultStep
<1>4. CASE LibNode
  BY <1>4, LibNodeKeeps
<1> QED
  BY <1>1, <1>2, <1>3, <1>4 DEF LibNext, LibRetry, LibEnded

(* Before the node reorganises there is nothing to look for.               *)
LEMMA LibNothingToFind == LibInv /\ ~ moved => LibReorgsInReach
BY DEF LibInv, Exiting, AgreesBelow, LibReorgsInReach

-----------------------------------------------------------------------------
(***************************************************************************)
(* The exit height, whenever the node reorganises.                         *)
(***************************************************************************)

(* What is fetched is a block the node has. *)
Asked ==
  /\ fet.pc = "undo" => fet.target <= Height[best]
  /\ fet.pc \in {"undo", "store", "pick", "get"} => fet.remote <= Height[best]
  /\ fet.pc = "get" => fet.h <= fet.remote

Carried ==
  /\ \A b \in Flying : b \in Blocks /\ Height[b] <= Height[best]
  /\ prc.pc \in {"commit", "report"} => prc.block \in Blocks

(* No height gets past exit height e on its way from the fetcher to        *)
(* current_height: the look at the exit height is before the fetch, and a  *)
(* rollback goes below the height it is for. *)
FetchedBelow(e) ==
  /\ currentHeight <= e
  /\ fet.pc \in {"tip", "store", "pick", "get"} => fet.h <= e
  /\ fet.pc = "undo" => fet.target < e
  /\ fet.pc = "get" => fet.h < e

CarriedBelow(e) ==
  /\ indexed < e
  /\ \A b \in Flying : Height[b] < e
  /\ \A h \in Told : h < e

ExitBound == \A e \in Nat : exitAt # NoExit /\ e = exitAt => FetchedBelow(e) /\ CarriedBelow(e)

ExitBase == IndexBase /\ LibType /\ Asked /\ Carried /\ ExitBound

ExitInv == ExitBase /\ (~ moved => LibInv)

LEMMA ExitInitInv == ExitAboveStart /\ LibInit => ExitInv
<1> SUFFICES ASSUME ExitAboveStart, LibInit PROVE ExitInv
  OBVIOUS
<1> USE LedgerConstants, LibConstants
<1>1. LibInv
  BY LibInitInv
<1>2. /\ indexed = 0 /\ currentHeight = StartBlock /\ blocks = <<>> /\ results = <<>>
      /\ fet.pc = "top" /\ prc.pc = "recv" /\ rst.pc = "recv"
      /\ DOMAIN results = {} /\ DOMAIN blocks = {}
  BY DEF LibInit, LedgerInit, Fetcher, Processor, Results
<1>3. Flying = {} /\ Told = {}
  BY <1>2 DEF Flying, Told, Members
<1>4. exitAt # NoExit => exitAt > StartBlock
  BY DEF LibInit, ExitAboveStart
<1>5. ExitBound
  BY <1>2, <1>3, <1>4 DEF ExitBound, FetchedBelow, CarriedBelow
<1>6. Asked /\ Carried
  BY <1>2, <1>3 DEF Asked, Carried
<1> QED
  BY <1>1, <1>5, <1>6 DEF ExitInv, ExitBase, LibInv, LibIndex

(* The fetcher's steps but the rollback. *)
LEMMA FetcherExitFrame ==
  ASSUME ExitBase, UNCHANGED <<best, moved, exitAt, indexed, hash, results, prc, rst>>,
         LibType', Asked',
         \A e \in Nat : exitAt # NoExit /\ e = exitAt /\ FetchedBelow(e) => FetchedBelow(e)',
         \A b \in Flying' :
           b \in Flying \/ (b \in Blocks /\ Height[b] <= Height[best] /\ BelowExit(Height[b]))
  PROVE  ExitBase'
<1>1. IndexBase'
  BY DEF ExitBase, IndexBase
<1>2. Carried'
  BY DEF ExitBase, Carried
<1>3. Told' = Told
  BY DEF Told
<1>4. ExitBound'
  BY <1>3 DEF ExitBase, ExitBound, CarriedBelow, BelowExit
<1> QED
  BY <1>1, <1>2, <1>4 DEF ExitBase

LEMMA FetcherStaysBelow ==
  ASSUME ExitBase, LibLoad \/ LibTip \/ LibStore \/ LibPick \/ LibGet \/ LibSend \/ LibFetchFails
  PROVE  ExitBase'
<1> USE LedgerConstants, LibConstants
<1> DEFINE idle == [pc |-> "top", h |-> 0, remote |-> 0, target |-> 0,
                    block |-> NoBlock, crossed |-> FALSE]
<1>1. UNCHANGED <<best, moved, exitAt, indexed, hash, results, prc, rst>>
  BY DEF LibLoad, LibTip, LibStore, LibPick, LibGet, LibSend, LibFetchFails, fetcherOthers, index
<1>2. /\ LibType /\ Asked /\ Carried /\ ExitBound /\ IndexBase /\ best \in Blocks
      /\ Height[best] \in Heights
  BY DEF ExitBase, IndexBase
<1>3. fet \in [pc : {"top", "tip", "undo", "store", "pick", "get", "send", "done"},
               h : 0 .. MaxHeight + 1, remote : Heights, target : Heights,
               block : Blocks \cup {NoBlock}, crossed : BOOLEAN]
  BY <1>2 DEF LibType
<1>4. CASE fet' = idle /\ UNCHANGED <<currentHeight, blocks>>
  <2>1. LibType' /\ Asked'
    BY <1>1, <1>2, <1>4 DEF LibType, Asked
  <2>2. \A e \in Nat : FetchedBelow(e) => FetchedBelow(e)'
    BY <1>4 DEF FetchedBelow
  <2>3. Flying' \subseteq Flying
    BY <1>1, <1>4 DEF Flying
  <2> QED
    BY <1>1, <2>1, <2>2, <2>3, FetcherExitFrame
<1>5. CASE LibLoad
  <2>1. /\ fet' = [pc |-> "tip", h |-> currentHeight, remote |-> 0, target |-> 0,
                   block |-> NoBlock, crossed |-> FALSE]
        /\ UNCHANGED <<currentHeight, blocks>>
    BY <1>5 DEF LibLoad, Fetcher
  <2>2. LibType' /\ Asked'
    BY <1>1, <1>2, <2>1 DEF LibType, Asked
  <2>3. \A e \in Nat : FetchedBelow(e) => FetchedBelow(e)'
    BY <2>1 DEF FetchedBelow
  <2>4. Flying' \subseteq Flying
    BY <1>1, <2>1 DEF Flying
  <2> QED
    BY <1>1, <2>2, <2>3, <2>4, FetcherExitFrame
<1>6. CASE LibTip
  <2> DEFINE undo == NearTip(Height[best], fet.h) /\ ReorgDetected(fet.h)
  <2>0. 0 \in Heights /\ WalkEnd(fet.h) \in Heights
    BY <1>3, WalkEndFacts
  <2>1. /\ fet.pc = "tip" /\ UNCHANGED <<currentHeight, blocks>>
        /\ fet' = [fet EXCEPT !.pc = IF undo THEN "undo" ELSE "pick", !.remote = Height[best],
                              !.target = IF undo THEN WalkEnd(fet.h) ELSE 0]
    BY <1>6 DEF LibTip
  <2>2. \A d \in Heights : undo /\ d = WalkEnd(fet.h) => d < fet.h /\ d <= Height[best]
    <3>1. undo => \E d \in Heights : WalkEnd(fet.h) < d /\ d < fet.h
      BY <1>2, <1>3, DetectedFacts
    <3>2. undo => WalkEnd(fet.h) <= Height[best]
      BY DEF ReorgDetected
    <3> QED
      BY <1>3, <3>1, <3>2
  <2> HIDE DEF undo
  <2>3. \E p \in {"undo", "pick"}, t \in Heights :
          /\ fet' = [fet EXCEPT !.pc = p, !.remote = Height[best], !.target = t]
          /\ p = "undo" => t < fet.h /\ t <= Height[best]
    BY <2>0, <2>1, <2>2
  <2>4. PICK p \in {"undo", "pick"}, t \in Heights :
          /\ fet' = [fet EXCEPT !.pc = p, !.remote = Height[best], !.target = t]
          /\ p = "undo" => t < fet.h /\ t <= Height[best]
    BY <2>3
  <2>5. fet'.pc = p /\ fet'.target = t /\ fet'.h = fet.h /\ fet'.remote = Height[best]
    BY <1>3, <2>4
  <2>6. LibType' /\ Asked'
    <3>1. fet' \in [pc : {"top", "tip", "undo", "store", "pick", "get", "send", "done"},
                    h : 0 .. MaxHeight + 1, remote : Heights, target : Heights,
                    block : Blocks \cup {NoBlock}, crossed : BOOLEAN]
      BY <1>2, <1>3, <2>4
    <3>2. LibType'
      BY <1>1, <1>2, <2>1, <3>1 DEF LibType
    <3>3. Asked'
      BY <1>1, <1>2, <2>4, <2>5 DEF Asked
    <3> QED
      BY <3>2, <3>3
  <2>7. \A e \in Nat : FetchedBelow(e) => FetchedBelow(e)'
    BY <1>3, <2>1, <2>4, <2>5 DEF FetchedBelow
  <2>8. Flying' \subseteq Flying
    BY <1>1, <2>1, <2>5 DEF Flying
  <2> QED
    BY <1>1, <2>6, <2>7, <2>8, FetcherExitFrame
<1>7. CASE LibStore
  <2>1. fet' = [fet EXCEPT !.pc = "pick"] /\ currentHeight' = fet.h /\ UNCHANGED blocks /\ fet.pc = "store"
    BY <1>7 DEF LibStore
  <2>2. fet'.pc = "pick" /\ fet'.h = fet.h /\ fet'.remote = fet.remote /\ fet'.target = fet.target
    BY <1>3, <2>1
  <2>3. LibType' /\ Asked'
    BY <1>1, <1>2, <1>3, <2>1, <2>2 DEF LibType, Asked
  <2>4. \A e \in Nat : FetchedBelow(e) => FetchedBelow(e)'
    BY <2>1, <2>2 DEF FetchedBelow
  <2>5. Flying' \subseteq Flying
    BY <1>1, <2>1, <2>2 DEF Flying
  <2> QED
    BY <1>1, <2>3, <2>4, <2>5, FetcherExitFrame
<1>8. CASE LibPick
  <2>1. /\ UNCHANGED <<currentHeight, blocks>> /\ fet.pc = "pick"
        /\ \/ fet' = idle
           \/ fet' = [pc |-> "done", h |-> 0, remote |-> 0, target |-> 0,
                      block |-> NoBlock, crossed |-> FALSE]
           \/ fet' = [fet EXCEPT !.pc = "get"] /\ ~ (fet.h > fet.remote)
              /\ (exitAt # NoExit => ~ (fet.h >= exitAt))
    BY <1>8 DEF LibPick, Fetcher
  <2>2. CASE fet' = [pc |-> "done", h |-> 0, remote |-> 0, target |-> 0,
                     block |-> NoBlock, crossed |-> FALSE]
    <3>1. LibType' /\ Asked'
      BY <1>1, <1>2, <2>1, <2>2 DEF LibType, Asked
    <3>2. \A e \in Nat : FetchedBelow(e) => FetchedBelow(e)'
      BY <2>1, <2>2 DEF FetchedBelow
    <3>3. Flying' \subseteq Flying
      BY <1>1, <2>1, <2>2 DEF Flying
    <3> QED
      BY <1>1, <3>1, <3>2, <3>3, FetcherExitFrame
  <2>3. CASE fet' = [fet EXCEPT !.pc = "get"] /\ ~ (fet.h > fet.remote)
             /\ (exitAt # NoExit => ~ (fet.h >= exitAt))
    <3>1. fet'.pc = "get" /\ fet'.h = fet.h /\ fet'.remote = fet.remote /\ fet'.target = fet.target
      BY <1>3, <2>3
    <3>2. LibType'
      BY <1>1, <1>2, <1>3, <2>1, <2>3 DEF LibType
    <3>a. Asked'
      BY <1>1, <1>2, <1>3, <2>1, <2>3, <3>1 DEF Asked
    <3>3. \A e \in Nat : exitAt # NoExit /\ e = exitAt /\ FetchedBelow(e) => FetchedBelow(e)'
      BY <1>3, <2>1, <2>3, <3>1 DEF FetchedBelow
    <3>4. Flying' \subseteq Flying
      BY <1>1, <2>1, <3>1 DEF Flying
    <3> QED
      BY <1>1, <3>2, <3>a, <3>3, <3>4, FetcherExitFrame
  <2> QED
    BY <1>4, <2>1, <2>2, <2>3
<1>9. CASE LibGet
  <2>1. /\ fet' = [pc |-> "send", h |-> 0, remote |-> 0, target |-> 0,
                   block |-> Ancestry(best)[fet.h], crossed |-> FALSE]
        /\ UNCHANGED <<currentHeight, blocks>> /\ fet.pc = "get"
    BY <1>9 DEF LibGet, Fetcher
  <2>2. fet.h <= Height[best]
    BY <1>2, <1>3, <2>1 DEF Asked
  <2>3. Ancestry(best)[fet.h] \in Blocks /\ Height[Ancestry(best)[fet.h]] = fet.h
    BY <1>2, <1>3, <2>2, BlockAsked
  <2>4. BelowExit(fet.h)
    BY <1>2, <2>1 DEF LibType, ExitBound, FetchedBelow, BelowExit
  <2>5. LibType' /\ Asked'
    BY <1>1, <1>2, <2>1, <2>3 DEF LibType, Asked
  <2>6. \A e \in Nat : FetchedBelow(e) => FetchedBelow(e)'
    BY <2>1 DEF FetchedBelow
  <2>7. Flying' \subseteq Flying \cup {Ancestry(best)[fet.h]}
    BY <1>1, <2>1 DEF Flying
  <2> QED
    BY <1>1, <2>2, <2>3, <2>4, <2>5, <2>6, <2>7, FetcherExitFrame
<1>10. CASE LibSend
  <2>1. fet' = idle /\ UNCHANGED currentHeight /\ blocks' = Append(blocks, fet.block) /\ fet.pc = "send"
    BY <1>10 DEF LibSend, Fetcher
  <2>2. fet.block \in Flying
    BY <2>1 DEF Flying
  <2>3. fet.block \in Blocks /\ blocks \in Seq(Blocks)
    BY <1>2, <2>2 DEF Carried, LibType
  <2>4. blocks' \in Seq(Blocks) /\ Members(blocks') = Members(blocks) \cup {fet.block}
    BY <2>1, <2>3, AppendRange
  <2>5. LibType' /\ Asked'
    BY <1>1, <1>2, <2>1, <2>4 DEF LibType, Asked
  <2>6. \A e \in Nat : FetchedBelow(e) => FetchedBelow(e)'
    BY <2>1 DEF FetchedBelow
  <2>7. Flying' \subseteq Flying
    BY <1>1, <2>1, <2>4 DEF Flying
  <2> QED
    BY <1>1, <2>5, <2>6, <2>7, FetcherExitFrame
<1>11. CASE LibFetchFails
  BY <1>4, <1>11 DEF LibFetchFails, Fetcher
<1> QED
  BY <1>5, <1>6, <1>7, <1>8, <1>9, <1>10, <1>11

LEMMA RollbackStaysBelow ==
  ASSUME ExitBase, LibRollback
  PROVE  ExitBase'
<1> USE LedgerConstants, LibConstants
<1>1. /\ IndexBase /\ LibType /\ Asked /\ Carried /\ ExitBound /\ indexed \in Heights
  BY DEF ExitBase, IndexBase
<1>2. PICK t \in Heights : t = fet.target
  BY <1>1 DEF LibType
<1>3. /\ fet.pc = "undo" /\ RollbackTo(t) /\ fet' = [fet EXCEPT !.pc = "store", !.h = t + 1, !.target = 0]
      /\ UNCHANGED <<best, moved, exitAt, currentHeight, blocks, results, prc, rst>>
  BY <1>2 DEF LibRollback, fetcherOthers
<1>4. fet \in [pc : {"top", "tip", "undo", "store", "pick", "get", "send", "done"},
               h : 0 .. MaxHeight + 1, remote : Heights, target : Heights,
               block : Blocks \cup {NoBlock}, crossed : BOOLEAN]
  BY <1>1 DEF LibType
<1>5. t + 1 \in 0 .. MaxHeight + 1 /\ 0 \in Heights
  OBVIOUS
<1>6. fet'.pc = "store" /\ fet'.h = t + 1 /\ fet'.remote = fet.remote
  BY <1>3, <1>4, <1>5
<1>7. LibType'
  <2>1. fet' \in [pc : {"top", "tip", "undo", "store", "pick", "get", "send", "done"},
                  h : 0 .. MaxHeight + 1, remote : Heights, target : Heights,
                  block : Blocks \cup {NoBlock}, crossed : BOOLEAN]
    BY <1>3, <1>4, <1>5
  <2> QED
    BY <1>1, <1>3, <2>1 DEF LibType
<1>8. IndexBase'
  <2>1. /\ indexed' = t
        /\ hash' = [h \in Heights |-> IF h \in t + 1 .. indexed THEN NoBlock ELSE hash[h]]
    BY <1>3 DEF RollbackTo
  <2>2. t <= Height[best]
    BY <1>1, <1>2, <1>3 DEF Asked
  <2>3. hash' \in [Heights -> Blocks \cup {NoBlock}]
    BY <1>1, <2>1 DEF IndexBase
  <2>4. \A h \in Heights : hash'[h] # NoBlock => hash'[h] = hash[h] /\ h <= t
    BY <1>1, <2>1 DEF IndexBase
  <2> QED
    BY <1>1, <1>3, <2>1, <2>2, <2>3, <2>4 DEF IndexBase
<1>9. Asked' /\ Carried' /\ Flying' \subseteq Flying /\ Told' = Told
  BY <1>1, <1>3, <1>6 DEF Asked, Carried, Flying, Told
<1>10. ExitBound'
  <2> SUFFICES ASSUME NEW e \in Nat, FetchedBelow(e), CarriedBelow(e)
               PROVE  FetchedBelow(e)' /\ CarriedBelow(e)'
    BY <1>1, <1>3 DEF ExitBound
  <2>1. t < e /\ indexed' = t
    BY <1>2, <1>3 DEF FetchedBelow, RollbackTo
  <2> QED
    BY <1>3, <1>6, <1>9, <2>1 DEF FetchedBelow, CarriedBelow
<1> QED
  BY <1>7, <1>8, <1>9, <1>10 DEF ExitBase

LEMMA CommitStaysBelow ==
  ASSUME ExitBase, LibCommit
  PROVE  ExitBase'
<1> USE LedgerConstants, LibConstants
<1>1. IndexBase /\ LibType /\ Asked /\ Carried /\ ExitBound /\ indexed \in Heights
  BY DEF ExitBase, IndexBase
<1>2. PICK b \in Blocks : b = prc.block /\ b \in Flying
  BY <1>1 DEF Carried, Flying, LibCommit
<1>3. PICK g \in Heights : g = Height[b]
  OBVIOUS
<1>4. /\ prc.pc = "commit" /\ (FreshDb \/ g = indexed + 1) /\ prc' = [prc EXCEPT !.pc = "report"]
      /\ hash' = [hash EXCEPT ![g] = b] /\ indexed' = g
      /\ UNCHANGED <<best, moved, exitAt, currentHeight, fet, rst, blocks, results>>
  BY <1>2, <1>3 DEF LibCommit, processorOthers, Accepts, Commit
<1>5. prc'.pc = "report" /\ prc'.block = b /\ LibType'
  BY <1>1, <1>2, <1>4 DEF LibType
<1>6. IndexBase'
  <2>1. g <= Height[best]
    BY <1>1, <1>2, <1>3 DEF Carried
  <2>2. \A h \in Heights : hash[h] # NoBlock => h <= g
    BY <1>1, <1>4 DEF IndexBase, FreshDb
  <2>3. hash' \in [Heights -> Blocks \cup {NoBlock}]
    BY <1>1, <1>4 DEF IndexBase
  <2>4. \A h \in Heights : hash'[h] = IF h = g THEN b ELSE hash[h]
    BY <1>1, <1>4 DEF IndexBase
  <2> QED
    BY <1>1, <1>3, <1>4, <2>1, <2>2, <2>3, <2>4 DEF IndexBase
<1>7. Flying' \subseteq Flying /\ Told' \subseteq Told \cup {g}
  BY <1>3, <1>4, <1>5 DEF Flying, Told
<1>8. Asked' /\ Carried'
  BY <1>1, <1>4, <1>5, <1>7 DEF Asked, Carried
<1>9. ExitBound'
  BY <1>1, <1>2, <1>3, <1>4, <1>7 DEF ExitBound, FetchedBelow, CarriedBelow
<1> QED
  BY <1>5, <1>6, <1>8, <1>9 DEF ExitBase

LEMMA ChannelsStayBelow ==
  ASSUME ExitBase, LibRecv \/ LibReport \/ LibProcessorEnds \/ LibResult \/ LibResultDone
  PROVE  ExitBase'
<1> USE LedgerConstants, LibConstants
<1>1. UNCHANGED <<best, moved, exitAt, indexed, hash, fet>>
  BY DEF LibRecv, LibReport, LibProcessorEnds, LibResult, LibResultDone, processorOthers,
         resultOthers, index
<1>2. IndexBase' /\ LibType /\ Asked' /\ Carried /\ ExitBound
  BY <1>1 DEF ExitBase, IndexBase, Asked
<1>3. /\ prc \in [pc : {"recv", "commit", "report", "done"}, block : Blocks \cup {NoBlock}]
      /\ rst \in [pc : {"recv", "remove", "join"}, h : Heights]
      /\ blocks \in Seq(Blocks) /\ results \in Seq(Heights)
  BY <1>2 DEF LibType
<1>4. ASSUME LibType', Flying' \subseteq Flying, Told' \subseteq Told,
             prc'.pc \in {"commit", "report"} => prc'.block \in Blocks,
             \A e \in Nat : CarriedBelow(e) /\ FetchedBelow(e) => currentHeight' <= e
      PROVE  ExitBase'
  <2>1. Carried' /\ ExitBound'
    BY <1>1, <1>2, <1>4 DEF Carried, ExitBound, CarriedBelow, FetchedBelow
  <2> QED
    BY <1>2, <1>4, <2>1 DEF ExitBase
<1>5. CASE LibRecv
  <2>1. /\ blocks # <<>> /\ blocks' = Tail(blocks) /\ prc' = [pc |-> "commit", block |-> Head(blocks)]
        /\ UNCHANGED <<currentHeight, results, rst>> /\ prc.pc = "recv"
    BY <1>5 DEF LibRecv, processorOthers
  <2>2. /\ blocks' \in Seq(Blocks) /\ Members(blocks') \subseteq Members(blocks)
        /\ Head(blocks) \in Members(blocks)
    BY <1>3, <2>1, TailRange
  <2>3. Flying' \subseteq Flying /\ Told' \subseteq Told
    BY <1>1, <2>1, <2>2 DEF Flying, Told
  <2>4. Head(blocks) \in Blocks
    BY <1>2, <2>2 DEF Carried, Flying
  <2>5. LibType'
    BY <1>1, <1>2, <2>1, <2>2, <2>4 DEF LibType
  <2> QED
    BY <1>4, <2>1, <2>3, <2>4, <2>5 DEF FetchedBelow
<1>6. CASE LibReport
  <2> DEFINE h == Height[prc.block]
  <2>1. /\ results' = Append(results, h) /\ prc' = [pc |-> "recv", block |-> NoBlock]
        /\ UNCHANGED <<currentHeight, blocks, rst>> /\ prc.pc = "report"
    BY <1>6 DEF LibReport, processorOthers, Processor
  <2>2. h \in Heights /\ h \in Told
    BY <1>2, <2>1 DEF Carried, Told
  <2> HIDE DEF h
  <2>a. h \in Heights /\ results \in Seq(Heights)
    BY <1>3, <2>2
  <2>b. /\ Append(results, h) \in Seq(Heights)
        /\ Members(Append(results, h)) = Members(results) \cup {h}
    BY <2>a, AppendRange
  <2>3. results' \in Seq(Heights) /\ Members(results') = Members(results) \cup {h}
    BY <2>1, <2>b
  <2>4. Flying' \subseteq Flying /\ Told' \subseteq Told
    BY <1>1, <2>1, <2>2, <2>3 DEF Flying, Told
  <2>5. LibType'
    BY <1>1, <1>2, <2>1, <2>3 DEF LibType
  <2> QED
    BY <1>4, <2>1, <2>4, <2>5 DEF FetchedBelow
<1>7. CASE LibProcessorEnds
  <2>1. /\ prc' = [pc |-> "done", block |-> NoBlock] /\ UNCHANGED <<currentHeight, blocks, results, rst>>
        /\ prc.pc = "recv"
    BY <1>7 DEF LibProcessorEnds, processorOthers, Processor
  <2>2. Flying' \subseteq Flying /\ Told' \subseteq Told /\ LibType'
    BY <1>1, <1>2, <2>1 DEF Flying, Told, LibType
  <2> QED
    BY <1>4, <2>1, <2>2 DEF FetchedBelow
<1>8. CASE LibResult
  <2>1. /\ results # <<>> /\ results' = Tail(results) /\ currentHeight' = Head(results) + 1
        /\ rst' = [pc |-> "remove", h |-> Head(results)] /\ rst.pc = "recv"
        /\ UNCHANGED <<blocks, prc>>
    BY <1>8 DEF LibResult, resultOthers
  <2>2. /\ results' \in Seq(Heights) /\ Members(results') \subseteq Members(results)
        /\ Head(results) \in Members(results) /\ Head(results) \in Heights
    BY <1>3, <2>1, TailRange
  <2>3. Flying' = Flying /\ Told' \subseteq Told /\ Head(results) \in Told
    BY <1>1, <2>1, <2>2 DEF Flying, Told
  <2>4. LibType'
    <3>1. rst' \in [pc : {"recv", "remove", "join"}, h : Heights]
          /\ currentHeight' \in 0 .. MaxHeight + 1
      BY <2>1, <2>2
    <3> QED
      BY <1>1, <1>2, <2>1, <2>2, <3>1 DEF LibType
  <2>5. \A e \in Nat : CarriedBelow(e) => currentHeight' <= e
    BY <2>1, <2>2, <2>3 DEF CarriedBelow
  <2> QED
    BY <1>2, <1>4, <2>1, <2>3, <2>4, <2>5 DEF Carried
<1>9. CASE LibResultDone
  <2>1. /\ UNCHANGED <<currentHeight, blocks, results, prc>> /\ rst.pc = "remove"
        /\ rst' \in {[pc |-> "recv", h |-> 0], [pc |-> "join", h |-> 0]}
    BY <1>9 DEF LibResultDone, resultOthers, Results
  <2>2. Flying' = Flying /\ Told' \subseteq Told
    BY <1>1, <2>1 DEF Flying, Told
  <2>3. LibType'
    <3>1. [pc |-> "recv", h |-> 0] \in [pc : {"recv", "remove", "join"}, h : Heights]
          /\ [pc |-> "join", h |-> 0] \in [pc : {"recv", "remove", "join"}, h : Heights]
      OBVIOUS
    <3> QED
      BY <1>1, <1>2, <2>1, <3>1 DEF LibType
  <2> QED
    BY <1>2, <1>4, <2>1, <2>2, <2>3 DEF FetchedBelow, Carried
<1> QED
  BY <1>5, <1>6, <1>7, <1>8, <1>9

LEMMA NodeStaysBelow ==
  ASSUME ExitBase, LibNode
  PROVE  ExitBase'
<1> USE LedgerConstants
<1>1. UNCHANGED <<exitAt, currentHeight, blocks, results, prc, rst>>
  BY DEF LibNode
<1>a. /\ LibType /\ fet' \in [pc : {"top", "tip", "undo", "store", "pick", "get", "send", "done"},
                             h : 0 .. MaxHeight + 1, remote : Heights, target : Heights,
                             block : Blocks \cup {NoBlock}, crossed : BOOLEAN]
      /\ fet'.pc = fet.pc /\ fet'.h = fet.h /\ fet'.remote = fet.remote
      /\ fet'.target = fet.target /\ fet'.block = fet.block
  <2>1. fet \in [pc : {"top", "tip", "undo", "store", "pick", "get", "send", "done"},
                 h : 0 .. MaxHeight + 1, remote : Heights, target : Heights,
                 block : Blocks \cup {NoBlock}, crossed : BOOLEAN]
    BY DEF ExitBase, LibType
  <2>2. PICK c \in BOOLEAN : fet' = fet \/ fet' = [fet EXCEPT !.crossed = c]
    BY <2>1 DEF LibNode, LookedBack
  <2> QED
    BY <2>1, <2>2 DEF ExitBase
<1>2. PICK t \in Blocks : NodeGrows(t) \/ NodeReorganises(t)
  BY DEF LibNode
<1>3. /\ best \in Blocks /\ best' = t /\ indexed' = indexed /\ hash' = hash /\ moved' \in BOOLEAN
      /\ indexed \in Heights
  BY <1>2 DEF ExitBase, IndexBase, LibType, NodeGrows, NodeReorganises, index
<1>4. Height[best] \in Nat /\ Height[t] \in Nat /\ Height[best] <= Height[t]
  <2>1. CASE Parent[t] = best
    <3>1. Height[t] # 0 => Height[best] = Height[t] - 1
      BY <1>3, <2>1, AncestryOfParent
    <3>2. Height[t] # 0
      BY <1>3, <2>1, ChainAssumption
    <3> QED
      BY <1>3, <3>1, <3>2
  <2>2. CASE Height[t] >= Height[best]
    BY <1>3, <2>2
  <2> QED
    BY <1>2, <2>1, <2>2 DEF NodeGrows, NodeReorganises
<1>5. IndexBase' /\ LibType'
  BY <1>1, <1>a, <1>3, <1>4 DEF ExitBase, IndexBase, LibType
<1>6. Flying' = Flying /\ Told' = Told
  BY <1>1, <1>a DEF Flying, Told
<1>7. Asked' /\ Carried'
  <2>1. /\ fet.remote \in Nat /\ fet.target \in Nat /\ Asked /\ Carried
        /\ \A b \in Flying : b \in Blocks /\ Height[b] \in Nat
    BY DEF ExitBase, LibType, Carried
  <2>2. Asked'
    BY <1>1, <1>a, <1>3, <1>4, <2>1 DEF Asked
  <2>3. \A b \in Flying : Height[b] <= Height[best']
    BY <1>3, <1>4, <2>1 DEF Carried
  <2> QED
    BY <1>1, <1>6, <2>1, <2>2, <2>3 DEF Carried
<1>8. ExitBound'
  BY <1>1, <1>a, <1>3, <1>6 DEF ExitBase, ExitBound, FetchedBelow, CarriedBelow
<1> QED
  BY <1>5, <1>7, <1>8 DEF ExitBase

LEMMA ExitBaseKept == ExitBase /\ [LibNext]_libVars => ExitBase'
<1> SUFFICES ASSUME ExitBase, [LibNext]_libVars PROVE ExitBase'
  OBVIOUS
<1>1. CASE UNCHANGED libVars
  BY <1>1 DEF libVars, ExitBase, IndexBase, LibType, Asked, Carried, ExitBound,
              FetchedBelow, CarriedBelow, Flying, Told
<1>2. CASE LibFetcherStep \/ LibFetchFails
  BY <1>2, FetcherStaysBelow, RollbackStaysBelow DEF LibFetcherStep
<1>3. CASE LibProcessorStep \/ LibResultStep
  BY <1>3, ChannelsStayBelow, CommitStaysBelow DEF LibProcessorStep, LibResultStep
<1>4. CASE LibNode
  BY <1>4, NodeStaysBelow
<1> QED
  BY <1>1, <1>2, <1>3, <1>4 DEF LibNext, LibRetry, LibEnded

LEMMA ExitInvKept == ExitInv /\ [LibNext]_libVars => ExitInv'
<1> SUFFICES ASSUME ExitInv, [LibNext]_libVars PROVE ExitInv'
  OBVIOUS
<1>1. ExitBase'
  BY ExitBaseKept DEF ExitInv
<1>2. ASSUME ~ moved' PROVE LibInv'
  <2>1. ~ moved
    <3>1. moved' = moved \/ moved' = TRUE
      BY DEF LibNext, LibFetcherStep, LibProcessorStep, LibResultStep, LibFetchFails, LibRetry,
             LibEnded, libVars, LibLoad, LibTip, LibRollback, LibStore, LibPick, LibGet, LibSend,
             fetcherOthers, LibRecv, LibCommit, LibReport, LibProcessorEnds, processorOthers,
             LibResult, LibResultDone, resultOthers, LibNode, NodeGrows, NodeReorganises
    <3> QED
      BY <1>2, <3>1
  <2> QED
    BY <1>2, <2>1, LibInvKept, LibNothingToFind DEF ExitInv
<1> QED
  BY <1>1, <1>2 DEF ExitInv

LEMMA ExitInvIsExit == ExitInv => LibStopsAtExit
<1> USE LibConstants
<1> SUFFICES ASSUME ExitInv, exitAt # NoExit
             PROVE  indexed < exitAt /\ (Stopped /\ ~moved => indexed = exitAt - 1 /\ results = <<>>)
  BY DEF LibStopsAtExit
<1>1. indexed < exitAt
  BY DEF ExitInv, ExitBase, LibType, ExitBound, CarriedBelow
<1>2. ~ moved => Exiting
  BY DEF ExitInv, LibInv
<1> QED
  BY <1>1, <1>2 DEF Exiting, Stopped

(* exit_at is exclusive in the library's pipeline, whenever the node       *)
(* reorganises and whatever handle_reorg undoes; and a run that stops      *)
(* before any reorganisation has indexed the block below exit_at, with no  *)
(* result left unread. *)
THEOREM LibExitHolds == ExitAboveStart => (LibSpec => []LibStopsAtExit)
<1> SUFFICES ASSUME ExitAboveStart PROVE LibSpec => []LibStopsAtExit
  OBVIOUS
<1>1. LibInit => ExitInv
  BY ExitInitInv
<1>2. ExitInv /\ [LibNext]_libVars => ExitInv'
  BY ExitInvKept
<1>3. ExitInv => LibStopsAtExit
  BY ExitInvIsExit
<1> QED
  BY <1>1, <1>2, <1>3, PTL DEF LibSpec
-----------------------------------------------------------------------------
(***************************************************************************)
(* One chain and current_height, whenever the node reorganises.            *)
(***************************************************************************)

(* No block but a crossed one is indexed on top of a record that is not    *)
(* its parent. *)
LinkedBut ==
  \A h \in Heights :
    h > StartBlock /\ hash[h] \notin crossedBlocks \cup {NoBlock} /\ hash[h - 1] # NoBlock
      => Parent[hash[h]] = hash[h - 1]

(* The record that a block of height h is put on is the node's.            *)
OnTip(h) == h > StartBlock => \A p \in Heights : p = h - 1 => ~Disagrees(p)

(* Nothing is between the fetcher and current_height while a rollback is   *)
(* decided, done and handed over; the record it leaves, like the one below *)
(* the height to fetch, is the node's unless the node has reorganised      *)
(* since it was looked at. *)
Backed ==
  /\ fet.pc \in {"undo", "store"} => ~Busy
  /\ fet.pc = "undo" => \A t \in Heights : t = fet.target =>
                          hash[t] # NoBlock /\ (~fet.crossed => ~Disagrees(t))
  /\ fet.pc = "store" => ~FreshDb /\ fet.h = indexed + 1
  /\ fet.pc \in {"store", "pick", "get"} /\ ~fet.crossed => OnTip(fet.h)

(* The blocks in flight are at most the next one, and what the result loop *)
(* is told is indexed. *)
Held ==
  /\ FreshDb => Told = {} /\ \A b \in Flying : Height[b] = StartBlock
  /\ ~FreshDb => /\ \A h \in Told : h <= indexed
                 /\ \A b \in Flying : Height[b] <= indexed + 1

(* A block in flight that is not a crossed one continues the record it     *)
(* will be put on. *)
Fits(b) ==
  Height[b] > StartBlock =>
    \A p \in Heights : p = Height[b] - 1 /\ hash[p] # NoBlock => Parent[b] = hash[p]

Fitting == \A b \in Flying \ crossedBlocks : Fits(b)

ChainPart == Cursor /\ Dense /\ LinkedBut /\ Backed /\ Held /\ Fitting

ChainInv == ExitBase /\ (~overtaken => ChainPart)

LEMMA ChainInitInv == ExitAboveStart /\ LibInit => ChainInv
<1> SUFFICES ASSUME ExitAboveStart, LibInit PROVE ChainInv
  OBVIOUS
<1> USE LedgerConstants, LibConstants
<1>1. ExitBase /\ Cursor /\ Dense
  BY LibInitInv, ExitInitInv DEF ExitInv, LibInv, LibIndex
<1>2. /\ blocks = <<>> /\ results = <<>> /\ fet.pc = "top" /\ prc.pc = "recv" /\ rst.pc = "recv"
      /\ DOMAIN results = {} /\ DOMAIN blocks = {} /\ \A h \in Heights : hash[h] = NoBlock
      /\ indexed = 0
  BY DEF LibInit, LedgerInit, Fetcher, Processor, Results
<1>3. Flying = {} /\ Told = {}
  BY <1>2 DEF Flying, Told, Members
<1> QED
  BY <1>1, <1>2, <1>3 DEF ChainInv, ChainPart, LinkedBut, Backed, Held, Fitting

(* The fetcher's steps but the rollback do not touch the index.            *)
LEMMA FetcherChainFrame ==
  ASSUME ChainPart, UNCHANGED <<best, indexed, hash, results, prc, rst>>,
         Cursor', Backed', crossedBlocks \subseteq crossedBlocks',
         \A b \in Flying' : b \in Flying \/ (/\ FreshDb => Height[b] = StartBlock
                                             /\ ~FreshDb => Height[b] <= indexed + 1
                                             /\ b \in crossedBlocks' \/ Fits(b))
  PROVE  ChainPart'
<1>1. /\ Dense /\ LinkedBut /\ Held /\ Fitting
  BY DEF ChainPart
<1>2. /\ Dense' /\ (FreshDb' <=> FreshDb) /\ Told' = Told /\ \A b : Fits(b)' <=> Fits(b)
  BY <1>1 DEF Dense, FreshDb, Told, Fits
<1>3. LinkedBut'
  BY <1>1 DEF LinkedBut
<1>4. Held' /\ Fitting'
  BY <1>1, <1>2 DEF Held, Fitting
<1> QED
  BY <1>2, <1>3, <1>4 DEF ChainPart

(* The look at the node: what is not undone goes on top of a record of the *)
(* node's. *)
LEMMA TipKeepsChain ==
  ASSUME ExitBase, ChainPart, LibReorgsInReach, LibTip, ~overtaken'
  PROVE  ChainPart'
<1> USE LedgerConstants, LibConstants
<1> DEFINE undo == NearTip(Height[best], fet.h) /\ ReorgDetected(fet.h)
<1>1. /\ UNCHANGED <<best, indexed, hash, results, prc, rst, currentHeight, blocks, crossedBlocks>>
      /\ fet.pc = "tip" /\ (undo => ~Busy)
      /\ fet' = [fet EXCEPT !.pc = IF undo THEN "undo" ELSE "pick", !.remote = Height[best],
                            !.target = IF undo THEN WalkEnd(fet.h) ELSE 0]
  BY DEF LibTip, fetcherOthers, index
<1>2. /\ IndexBase /\ LibType /\ Cursor /\ Dense /\ Height[best] \in Heights /\ indexed \in Heights
      /\ fet.h \in 0 .. MaxHeight + 1
  BY DEF ExitBase, ChainPart, LibType, IndexBase
<1>3. WalkEnd(fet.h) \in Heights
  BY <1>2, WalkEndFacts
<1>4. ~AgreesBelow(fet.h) => NearTip(Height[best], fet.h) /\ EndsWell(fet.h)
  BY <1>1, <1>2 DEF LibReorgsInReach
<1>5. ASSUME undo PROVE ~FreshDb /\ hash[WalkEnd(fet.h)] # NoBlock /\ ~Disagrees(WalkEnd(fet.h))
  <2>1. PICK d \in Heights : WalkEnd(fet.h) < d /\ d < fet.h /\ d <= indexed /\ Disagrees(d)
    BY <1>2, <1>5, DetectedFacts
  <2>2. ~AgreesBelow(fet.h)
    BY <2>1 DEF AgreesBelow
  <2>3. ~FreshDb
    BY <1>2, <2>1 DEF FreshDb, IndexBase, Disagrees
  <2> QED
    BY <1>3, <1>4, <2>2, <2>3 DEF EndsWell, Disagrees
<1>6. ASSUME ~undo PROVE OnTip(fet.h)
  <2> SUFFICES ASSUME fet.h > StartBlock, NEW p \in Heights, p = fet.h - 1, Disagrees(p)
               PROVE  FALSE
    BY DEF OnTip
  <2>1. p < fet.h /\ fet.h > 0
    BY <1>2
  <2>2. NearTip(Height[best], fet.h) /\ EndsWell(fet.h)
    BY <1>4, <2>1 DEF AgreesBelow
  <2>3. WalkEnd(fet.h) # p
    BY <1>3, <2>2 DEF EndsWell, Disagrees
  <2>4. WalkEnd(fet.h) < fet.h
    BY <1>2, <2>1, WalkEndFacts
  <2>5. WalkEnd(fet.h) < p
    BY <1>2, <1>3, <2>3, <2>4
  <2>6. ReorgDetected(fet.h)
    BY <1>2, <2>1, <2>5, DisagreementDetected DEF Disagrees
  <2> QED
    BY <1>6, <2>2, <2>6
<1> HIDE DEF undo
<1>7. /\ fet'.pc = (IF undo THEN "undo" ELSE "pick") /\ fet'.h = fet.h
      /\ fet'.target = (IF undo THEN WalkEnd(fet.h) ELSE 0)
  BY <1>1, <1>2 DEF LibType
<1>8. /\ (FreshDb' <=> FreshDb) /\ (Busy' <=> Busy) /\ \A h : Disagrees(h)' <=> Disagrees(h)
      /\ \A h : OnTip(h)' <=> OnTip(h)
  BY <1>1 DEF FreshDb, Busy, Disagrees, OnTip
<1>9. Cursor'
  BY <1>1, <1>2, <1>5, <1>7, <1>8 DEF Cursor
<1>10. Backed'
  BY <1>1, <1>5, <1>6, <1>7, <1>8 DEF Backed
<1>11. Flying' \subseteq Flying
  BY <1>1, <1>7 DEF Flying
<1> QED
  BY <1>1, <1>9, <1>10, <1>11, FetcherChainFrame

LEMMA FetcherKeepsChain ==
  ASSUME ExitBase, ChainPart,
         LibLoad \/ LibStore \/ LibPick \/ LibGet \/ LibSend \/ LibFetchFails
  PROVE  ChainPart'
<1> USE LedgerConstants, LibConstants
<1>1. /\ UNCHANGED <<best, indexed, hash, results, prc, rst>>
      /\ crossedBlocks \subseteq crossedBlocks'
  BY DEF LibLoad, LibStore, LibPick, LibGet, LibSend, LibFetchFails, fetcherOthers, index, marks
<1>2. /\ IndexBase /\ LibType /\ Asked /\ Carried /\ Cursor /\ Backed /\ Held
      /\ best \in Blocks /\ Height[best] \in Heights /\ indexed \in Heights
  BY DEF ExitBase, ChainPart, IndexBase
<1>3. fet \in [pc : {"top", "tip", "undo", "store", "pick", "get", "send", "done"},
               h : 0 .. MaxHeight + 1, remote : Heights, target : Heights,
               block : Blocks \cup {NoBlock}, crossed : BOOLEAN]
  BY <1>2 DEF LibType
<1>4. /\ (FreshDb' <=> FreshDb) /\ \A h : OnTip(h)' <=> OnTip(h)
  BY <1>1 DEF FreshDb, Disagrees, OnTip
<1>5. CASE /\ fet'.pc \in {"top", "send", "done"} /\ UNCHANGED currentHeight /\ fet.pc # "store"
           /\ \A b \in Flying' : b \in Flying \/ (/\ FreshDb => Height[b] = StartBlock
                                                  /\ ~FreshDb => Height[b] <= indexed + 1
                                                  /\ b \in crossedBlocks' \/ Fits(b))
  <2>1. Cursor' /\ Backed'
    BY <1>1, <1>2, <1>4, <1>5 DEF Cursor, Backed
  <2> QED
    BY <1>1, <1>5, <2>1, FetcherChainFrame
<1>6. CASE LibLoad
  <2>1. /\ fet'.pc = "tip" /\ fet'.h = currentHeight /\ UNCHANGED <<currentHeight, blocks>>
        /\ fet.pc = "top"
    BY <1>6 DEF LibLoad, Fetcher
  <2>2. Cursor' /\ Backed'
    BY <1>1, <1>2, <1>4, <2>1 DEF Cursor, Backed
  <2>3. Flying' \subseteq Flying
    BY <1>1, <2>1 DEF Flying
  <2> QED
    BY <1>1, <2>2, <2>3, FetcherChainFrame
<1>7. CASE LibStore
  <2>1. /\ fet' = [fet EXCEPT !.pc = "pick"] /\ currentHeight' = fet.h /\ UNCHANGED blocks
        /\ fet.pc = "store"
    BY <1>7 DEF LibStore
  <2>2. fet'.pc = "pick" /\ fet'.h = fet.h /\ fet'.crossed = fet.crossed
    BY <1>3, <2>1
  <2>3. Cursor' /\ Backed'
    BY <1>1, <1>2, <1>4, <2>1, <2>2 DEF Cursor, Backed
  <2>4. Flying' \subseteq Flying
    BY <1>1, <2>1, <2>2 DEF Flying
  <2> QED
    BY <1>1, <2>3, <2>4, FetcherChainFrame
<1>8. CASE LibPick
  <2>1. /\ UNCHANGED <<currentHeight, blocks>> /\ fet.pc = "pick"
        /\ fet'.pc \in {"top", "done"} \/ fet' = [fet EXCEPT !.pc = "get"]
    BY <1>8 DEF LibPick, Fetcher
  <2>2. CASE fet'.pc \in {"top", "done"}
    <3>1. Flying' \subseteq Flying
      BY <1>1, <2>1, <2>2 DEF Flying
    <3> QED
      BY <1>5, <2>1, <2>2, <3>1
  <2>3. CASE fet' = [fet EXCEPT !.pc = "get"]
    <3>1. fet'.pc = "get" /\ fet'.h = fet.h /\ fet'.crossed = fet.crossed
      BY <1>3, <2>3
    <3>2. Cursor' /\ Backed'
      BY <1>1, <1>2, <1>4, <2>1, <3>1 DEF Cursor, Backed
    <3>3. Flying' \subseteq Flying
      BY <1>1, <2>1, <3>1 DEF Flying
    <3> QED
      BY <1>1, <3>2, <3>3, FetcherChainFrame
  <2> QED
    BY <2>1, <2>2, <2>3
<1>9. CASE LibGet
  <2>1. PICK b : b = Ancestry(best)[fet.h]
    OBVIOUS
  <2>2. /\ fet'.pc = "send" /\ fet'.block = b /\ UNCHANGED <<currentHeight, blocks>> /\ fet.pc = "get"
        /\ crossedBlocks' = crossedBlocks \cup {x \in {b} : fet.crossed}
    BY <1>9, <2>1 DEF LibGet, Fetcher
  <2>3. PICK g \in Heights : g = fet.h /\ g <= Height[best]
    BY <1>2, <1>3, <2>2 DEF Asked
  <2>4. b \in Blocks /\ Height[b] = g
    BY <1>2, <2>1, <2>3, BlockAsked
  <2>5. (FreshDb => g = StartBlock) /\ (~FreshDb => g <= indexed + 1)
    BY <1>2, <2>2, <2>3 DEF Cursor
  <2>6. ASSUME ~fet.crossed PROVE Fits(b)
    <3> SUFFICES ASSUME g > StartBlock, NEW p \in Heights, p = g - 1, hash[p] # NoBlock
                 PROVE  Parent[b] = hash[p]
      BY <2>4 DEF Fits
    <3>1. ~Disagrees(p)
      BY <1>2, <2>2, <2>3, <2>6 DEF Backed, OnTip
    <3>2. hash[p] = Ancestry(best)[p]
      BY <3>1 DEF Disagrees
    <3>3. p \in 0 .. Height[best] /\ p # Height[best] /\ p + 1 = g
      BY <1>2, <2>3
    <3>4. Ancestry(best)[p] = Parent[Ancestry(best)[p + 1]]
      BY <1>2, <3>3, AncestryFacts
    <3> QED
      BY <2>1, <2>3, <3>2, <3>3, <3>4
  <2>7. Flying' \subseteq Flying \cup {b}
    BY <1>1, <2>2 DEF Flying
  <2>8. b \in crossedBlocks' \/ Fits(b)
    BY <2>2, <2>6
  <2> QED
    BY <1>5, <2>2, <2>4, <2>5, <2>7, <2>8
<1>10. CASE LibSend
  <2>1. /\ fet'.pc = "top" /\ UNCHANGED currentHeight /\ blocks' = Append(blocks, fet.block)
        /\ fet.pc = "send"
    BY <1>10 DEF LibSend, Fetcher
  <2>2. fet.block \in Flying
    BY <2>1 DEF Flying
  <2>3. fet.block \in Blocks /\ blocks \in Seq(Blocks)
    BY <1>2, <2>2 DEF Carried, LibType
  <2>4. Members(blocks') = Members(blocks) \cup {fet.block}
    BY <2>1, <2>3, AppendRange
  <2>5. Flying' \subseteq Flying
    BY <1>1, <2>1, <2>4 DEF Flying
  <2> QED
    BY <1>5, <2>1, <2>5
<1>11. CASE LibFetchFails
  <2>1. fet'.pc = "top" /\ UNCHANGED <<currentHeight, blocks>> /\ fet.pc # "store"
    BY <1>11 DEF LibFetchFails, Fetcher
  <2>2. Flying' \subseteq Flying
    BY <1>1, <2>1 DEF Flying
  <2> QED
    BY <1>5, <2>1, <2>2
<1> QED
  BY <1>6, <1>7, <1>8, <1>9, <1>10, <1>11

(* Nothing is in flight when the index is cut.                             *)
LEMMA RollbackKeepsChain ==
  ASSUME ExitBase, ChainPart, LibRollback
  PROVE  ChainPart'
<1> USE LedgerConstants, LibConstants
<1>1. /\ IndexBase /\ LibType /\ Dense /\ LinkedBut /\ Backed /\ indexed \in Heights
  BY DEF ExitBase, ChainPart, IndexBase
<1>2. PICK t \in Heights : t = fet.target
  BY <1>1 DEF LibType
<1>3. /\ fet.pc = "undo" /\ RollbackTo(t) /\ fet' = [fet EXCEPT !.pc = "store", !.h = t + 1, !.target = 0]
      /\ UNCHANGED <<best, currentHeight, blocks, results, prc, rst, crossedBlocks>>
  BY <1>2 DEF LibRollback, fetcherOthers, marks
<1>4. hash[t] # NoBlock /\ (~fet.crossed => ~Disagrees(t)) /\ ~Busy
  BY <1>1, <1>2, <1>3 DEF Backed
<1>5. /\ Dense' /\ ~ FreshDb' /\ ~ FreshDb /\ indexed' = t /\ t <= indexed
      /\ \A h \in Heights : hash'[h] = IF h > t THEN NoBlock ELSE hash[h]
  BY <1>1, <1>3, <1>4, RollbackIndex
<1>6. fet'.pc = "store" /\ fet'.h = t + 1 /\ fet'.crossed = fet.crossed
  BY <1>1, <1>3 DEF LibType
<1>7. Flying' = {} /\ Told' = {}
  <2>1. /\ blocks' = <<>> /\ results' = <<>> /\ prc'.pc = "recv" /\ rst'.pc = "recv"
        /\ DOMAIN blocks' = {} /\ DOMAIN results' = {}
    BY <1>3, <1>4 DEF Busy
  <2> QED
    BY <1>6, <2>1 DEF Flying, Told, Members
<1>8. Cursor'
  BY <1>5, <1>6 DEF Cursor
<1>9. LinkedBut'
  <2>1. \A h \in Heights : h > StartBlock => h - 1 \in Heights
    OBVIOUS
  <2> QED
    BY <1>1, <1>3, <1>5, <2>1 DEF LinkedBut
<1>10. Backed'
  <2>1. ~ Busy'
    BY <1>3, <1>4 DEF Busy
  <2>2. Disagrees(t)' <=> Disagrees(t)
    BY <1>3, <1>5 DEF Disagrees
  <2>3. ~fet.crossed => OnTip(fet.h)'
    <3>1. \A p \in Heights : p = (t + 1) - 1 => p = t
      OBVIOUS
    <3> QED
      BY <1>4, <1>6, <2>2, <3>1 DEF OnTip
  <2> QED
    BY <1>5, <1>6, <2>1, <2>3 DEF Backed
<1> QED
  BY <1>5, <1>7, <1>8, <1>9, <1>10 DEF ChainPart, Held, Fitting

(* A block is committed on top of the index, below whatever is fetched.    *)
LEMMA CommitKeepsChain ==
  ASSUME ExitBase, ChainPart, LibCommit
  PROVE  ChainPart'
<1> USE LedgerConstants, LibConstants
<1>1. /\ IndexBase /\ LibType /\ Carried /\ Cursor /\ Dense /\ LinkedBut /\ Backed /\ Held /\ Fitting
      /\ indexed \in Heights
  BY DEF ExitBase, ChainPart, IndexBase
<1>2. PICK b \in Blocks : b = prc.block /\ b \in Flying
  BY <1>1 DEF Carried, Flying, LibCommit
<1>3. PICK g \in Heights : g = Height[b]
  OBVIOUS
<1>4. /\ prc.pc = "commit" /\ Accepts(g) /\ Commit(b) /\ prc' = [prc EXCEPT !.pc = "report"]
      /\ UNCHANGED <<best, currentHeight, fet, rst, blocks, results, crossedBlocks>>
  BY <1>2, <1>3 DEF LibCommit, processorOthers, marks
<1>5. prc'.pc = "report" /\ prc'.block = b
  BY <1>1, <1>2, <1>4 DEF LibType
<1>6. (FreshDb => g = StartBlock) /\ (FreshDb \/ g = indexed + 1) /\ g <= Height[best]
  BY <1>1, <1>2, <1>3, <1>4 DEF Held, Accepts, Carried
<1>7. /\ Dense' /\ ~ FreshDb' /\ indexed' = g
      /\ \A h \in Heights : hash'[h] = IF h = g THEN b ELSE hash[h]
      /\ \A h \in Heights : hash[h] # NoBlock => h < g
  BY <1>1, <1>3, <1>4, <1>6, CommitIndex
<1>8. Cursor'
  <2>1. currentHeight \in Int /\ fet.h \in Int
    BY <1>1 DEF LibType
  <2>2. CASE FreshDb
    BY <1>1, <1>4, <1>6, <1>7, <2>1, <2>2 DEF Cursor
  <2>3. CASE ~ FreshDb
    BY <1>1, <1>4, <1>6, <1>7, <2>1, <2>3 DEF Cursor
  <2> QED
    BY <2>2, <2>3
<1>9. LinkedBut'
  <2> SUFFICES ASSUME NEW h \in Heights, h > StartBlock, hash'[h] \notin crossedBlocks \cup {NoBlock},
                      hash'[h - 1] # NoBlock
               PROVE  Parent[hash'[h]] = hash'[h - 1]
    BY <1>4 DEF LinkedBut
  <2>1. h - 1 \in Heights
    OBVIOUS
  <2>2. CASE h = g
    <3>1. hash'[h - 1] = hash[h - 1] /\ b \notin crossedBlocks
      BY <1>7, <2>1, <2>2
    <3>2. Fits(b)
      BY <1>1, <1>2, <3>1 DEF Fitting
    <3> QED
      BY <1>3, <1>7, <2>1, <2>2, <3>1, <3>2 DEF Fits
  <2>3. CASE h # g
    <3>1. h < g /\ h - 1 # g
      BY <1>7, <2>1, <2>3
    <3> QED
      BY <1>1, <1>7, <2>1, <2>3, <3>1 DEF LinkedBut
  <2> QED
    BY <2>2, <2>3
<1>10. Backed'
  <2>1. fet.pc \notin {"undo", "store"}
    BY <1>1, <1>4 DEF Backed, Busy
  <2>2. ASSUME fet.pc \in {"pick", "get"}, OnTip(fet.h) PROVE OnTip(fet.h)'
    <3> SUFFICES ASSUME fet.h > StartBlock, NEW p \in Heights, p = fet.h - 1 PROVE ~Disagrees(p)'
      BY <1>4 DEF OnTip
    <3>1. p # g
      BY <1>1, <1>6, <2>2 DEF Cursor, LibType
    <3>2. ~Disagrees(p)
      BY <2>2 DEF OnTip
    <3> QED
      BY <1>4, <1>7, <3>1, <3>2 DEF Disagrees
  <2> QED
    BY <1>1, <1>4, <2>1, <2>2 DEF Backed
<1>11. Flying' \subseteq Flying /\ Told' \subseteq Told \cup {g}
  BY <1>3, <1>4, <1>5 DEF Flying, Told
<1>12. \A x \in Flying : x \in Blocks /\ Height[x] \in Heights
  BY <1>1 DEF Carried
<1>13. Held'
  <2>1. \A h \in Told' : h <= g
    <3>1. \A h \in Told : ~FreshDb /\ h <= indexed
      BY <1>1 DEF Held
    <3>2. \A h \in Told : h \in Heights
      <4>1. \A i \in DOMAIN results : results[i] \in Heights
        BY <1>1 DEF LibType
      <4> QED
        BY <1>1, <1>4, <4>1 DEF Told, Members, LibType
    <3> QED
      BY <1>1, <1>6, <1>11, <3>1, <3>2
  <2>2. \A x \in Flying : Height[x] <= g + 1
    BY <1>1, <1>6, <1>12 DEF Held
  <2> QED
    BY <1>7, <1>11, <2>1, <2>2 DEF Held
<1>14. Fitting'
  <2> SUFFICES ASSUME NEW x \in Flying, x \notin crossedBlocks, Height[x] > StartBlock,
                      NEW p \in Heights, p = Height[x] - 1, hash'[p] # NoBlock
               PROVE  Parent[x] = hash'[p]
    BY <1>4, <1>11 DEF Fitting, Fits
  <2>1. p # g
    BY <1>1, <1>6, <1>12 DEF Held
  <2> QED
    BY <1>1, <1>7, <2>1 DEF Fitting, Fits
<1> QED
  BY <1>7, <1>8, <1>9, <1>10, <1>13, <1>14 DEF ChainPart

(* The channels and the result loop do not touch the index.                *)
LEMMA ChannelsKeepChain ==
  ASSUME ExitBase, ChainPart,
         LibRecv \/ LibReport \/ LibProcessorEnds \/ LibResult \/ LibResultDone
  PROVE  ChainPart'
<1> USE LedgerConstants, LibConstants
<1>1. UNCHANGED <<best, indexed, hash, fet, crossedBlocks>>
  BY DEF LibRecv, LibReport, LibProcessorEnds, LibResult, LibResultDone, processorOthers,
         resultOthers, index, marks
<1>2. /\ LibType /\ Carried /\ Cursor /\ Dense /\ LinkedBut /\ Backed /\ Held /\ Fitting
      /\ indexed \in Heights
  BY DEF ExitBase, ChainPart, IndexBase
<1>3. /\ prc \in [pc : {"recv", "commit", "report", "done"}, block : Blocks \cup {NoBlock}]
      /\ rst \in [pc : {"recv", "remove", "join"}, h : Heights]
      /\ blocks \in Seq(Blocks) /\ results \in Seq(Heights)
  BY <1>2 DEF LibType
<1>4. fet.pc \notin {"undo", "store"}
  <2>1. LibProcessorEnds \/ Busy
    BY DEF LibRecv, LibReport, LibResult, LibResultDone, Busy
  <2> QED
    BY <1>2, <2>1 DEF Backed, LibProcessorEnds
<1>5. /\ (FreshDb' <=> FreshDb) /\ Dense' /\ LinkedBut' /\ \A b : Fits(b)' <=> Fits(b)
      /\ \A h : OnTip(h)' <=> OnTip(h)
  BY <1>1, <1>2 DEF FreshDb, Dense, LinkedBut, Fits, OnTip, Disagrees
<1>6. Backed'
  BY <1>1, <1>2, <1>4, <1>5 DEF Backed
<1>7. ASSUME Flying' \subseteq Flying, Told' \subseteq Told, Cursor' PROVE ChainPart'
  BY <1>1, <1>2, <1>5, <1>6, <1>7 DEF ChainPart, Held, Fitting
<1>8. ASSUME UNCHANGED currentHeight PROVE Cursor'
  BY <1>1, <1>2, <1>5, <1>8 DEF Cursor
<1>9. CASE LibRecv
  <2>1. /\ blocks # <<>> /\ blocks' = Tail(blocks) /\ prc' = [pc |-> "commit", block |-> Head(blocks)]
        /\ UNCHANGED <<currentHeight, results, rst>> /\ prc.pc = "recv"
    BY <1>9 DEF LibRecv, processorOthers
  <2>2. Members(blocks') \subseteq Members(blocks) /\ Head(blocks) \in Members(blocks)
    BY <1>3, <2>1, TailRange
  <2>3. Flying' \subseteq Flying /\ Told' \subseteq Told
    BY <1>1, <2>1, <2>2 DEF Flying, Told
  <2> QED
    BY <1>7, <1>8, <2>1, <2>3
<1>10. CASE LibReport
  <2> DEFINE h == Height[prc.block]
  <2>1. /\ results' = Append(results, h) /\ prc' = [pc |-> "recv", block |-> NoBlock]
        /\ UNCHANGED <<currentHeight, blocks, rst>> /\ prc.pc = "report"
    BY <1>10 DEF LibReport, processorOthers, Processor
  <2>2. h \in Heights /\ h \in Told
    BY <1>2, <2>1 DEF Carried, Told
  <2> HIDE DEF h
  <2>3. Members(Append(results, h)) = Members(results) \cup {h}
    BY <1>3, <2>2, AppendRange
  <2>4. Flying' \subseteq Flying /\ Told' \subseteq Told
    BY <1>1, <2>1, <2>2, <2>3 DEF Flying, Told
  <2> QED
    BY <1>7, <1>8, <2>1, <2>4
<1>11. CASE LibProcessorEnds
  <2>1. /\ prc' = [pc |-> "done", block |-> NoBlock] /\ UNCHANGED <<currentHeight, blocks, results, rst>>
        /\ prc.pc = "recv"
    BY <1>11 DEF LibProcessorEnds, processorOthers, Processor
  <2>2. Flying' \subseteq Flying /\ Told' \subseteq Told
    BY <1>1, <2>1 DEF Flying, Told
  <2> QED
    BY <1>7, <1>8, <2>1, <2>2
<1>12. CASE LibResult
  <2>1. /\ results # <<>> /\ results' = Tail(results) /\ currentHeight' = Head(results) + 1
        /\ rst' = [pc |-> "remove", h |-> Head(results)] /\ rst.pc = "recv"
        /\ UNCHANGED <<blocks, prc>>
    BY <1>12 DEF LibResult, resultOthers
  <2>2. /\ Members(results') \subseteq Members(results)
        /\ Head(results) \in Members(results) /\ Head(results) \in Heights
    BY <1>3, <2>1, TailRange
  <2>3. Flying' = Flying /\ Told' \subseteq Told /\ Head(results) \in Told
    BY <1>1, <2>1, <2>2 DEF Flying, Told
  <2>4. ~FreshDb /\ Head(results) <= indexed
    BY <1>2, <2>3 DEF Held
  <2>5. Cursor'
    BY <1>1, <1>2, <1>5, <2>1, <2>2, <2>4 DEF Cursor
  <2> QED
    BY <1>7, <2>3, <2>5
<1>13. CASE LibResultDone
  <2>1. /\ UNCHANGED <<currentHeight, blocks, results, prc>> /\ rst'.pc \in {"recv", "join"}
    BY <1>13 DEF LibResultDone, resultOthers, Results
  <2>2. Flying' = Flying /\ Told' \subseteq Told
    BY <1>1, <2>1 DEF Flying, Told
  <2> QED
    BY <1>7, <1>8, <2>1, <2>2
<1> QED
  BY <1>9, <1>10, <1>11, <1>12, <1>13

(* A reorganisation marks what the fetcher has in hand.                    *)
LEMMA NodeKeepsChain ==
  ASSUME ExitBase, ChainPart, LibNode
  PROVE  ChainPart'
<1> USE LedgerConstants
<1>1. UNCHANGED <<currentHeight, blocks, results, prc, rst, crossedBlocks>>
  BY DEF LibNode, marks
<1>2. /\ IndexBase /\ LibType /\ Cursor /\ Dense /\ LinkedBut /\ Backed /\ Held /\ Fitting
  BY DEF ExitBase, ChainPart
<1>3. fet \in [pc : {"top", "tip", "undo", "store", "pick", "get", "send", "done"},
               h : 0 .. MaxHeight + 1, remote : Heights, target : Heights,
               block : Blocks \cup {NoBlock}, crossed : BOOLEAN]
  BY <1>2 DEF LibType
<1>4. PICK t \in Blocks : \/ NodeGrows(t) /\ UNCHANGED fet
                          \/ NodeReorganises(t) /\ fet' = [fet EXCEPT !.crossed = @ \/ LookedBack]
  BY DEF LibNode
<1>5. indexed' = indexed /\ hash' = hash
  BY <1>4 DEF NodeGrows, NodeReorganises, index
<1>6. /\ fet'.pc = fet.pc /\ fet'.h = fet.h /\ fet'.target = fet.target /\ fet'.block = fet.block
  BY <1>3, <1>4
<1>7. /\ (FreshDb' <=> FreshDb) /\ (Busy' <=> Busy) /\ Flying' = Flying /\ Told' = Told
      /\ \A b : Fits(b)' <=> Fits(b)
  BY <1>1, <1>5, <1>6 DEF FreshDb, Busy, Flying, Told, Fits
<1>8. Cursor' /\ Dense' /\ LinkedBut' /\ Held' /\ Fitting'
  BY <1>1, <1>2, <1>5, <1>6, <1>7 DEF Cursor, Dense, LinkedBut, Held, Fitting
<1>9. Backed'
  <2>1. CASE NodeGrows(t) /\ UNCHANGED fet
    <3>1. \A h \in Heights : hash[h] # NoBlock => Ancestry(best)[h] = Ancestry(best')[h]
      BY <1>2, <2>1, GrowthIsInvisible
    <3>2. \A h \in Heights : Disagrees(h)' <=> Disagrees(h)
      BY <1>5, <3>1 DEF Disagrees
    <3>3. \A h : OnTip(h)' <=> OnTip(h)
      BY <3>2 DEF OnTip
    <3> QED
      BY <1>2, <1>5, <1>7, <2>1, <3>2, <3>3 DEF Backed
  <2>2. CASE NodeReorganises(t) /\ fet' = [fet EXCEPT !.crossed = @ \/ LookedBack]
    <3>1. fet'.pc \in {"undo", "store", "pick", "get"} => fet'.crossed
      BY <1>3, <2>2 DEF LookedBack
    <3> QED
      BY <1>2, <1>5, <1>6, <1>7, <3>1 DEF Backed
  <2> QED
    BY <1>4, <2>1, <2>2
<1> QED
  BY <1>8, <1>9 DEF ChainPart

LEMMA ChainInvKept ==
  ChainInv /\ (~overtaken => LibReorgsInReach) /\ [LibNext]_libVars => ChainInv'
<1> SUFFICES ASSUME ChainInv, ~overtaken => LibReorgsInReach, [LibNext]_libVars PROVE ChainInv'
  OBVIOUS
<1>1. ExitBase'
  BY ExitBaseKept DEF ChainInv
<1>2. ASSUME ~overtaken' PROVE ChainPart'
  <2>1. ~overtaken
    <3>1. overtaken' = overtaken \/ LibTip
      BY DEF LibNext, LibFetcherStep, LibProcessorStep, LibResultStep, LibFetchFails, LibRetry,
             LibEnded, libVars, LibLoad, LibRollback, LibStore, LibPick, LibGet, LibSend,
             fetcherOthers, LibRecv, LibCommit, LibReport, LibProcessorEnds, processorOthers,
             LibResult, LibResultDone, resultOthers, LibNode, marks
    <3>2. LibTip => ~overtaken
      BY <1>2 DEF LibTip
    <3> QED
      BY <1>2, <3>1, <3>2
  <2>2. ExitBase /\ ChainPart /\ LibReorgsInReach
    BY <2>1 DEF ChainInv
  <2>3. CASE UNCHANGED libVars
    BY <2>2, <2>3 DEF libVars, ChainPart, Cursor, Dense, LinkedBut, Backed, Held, Fitting, FreshDb,
                      Busy, Fits, OnTip, Disagrees, Flying, Told
  <2>4. CASE LibFetcherStep \/ LibFetchFails
    BY <1>2, <2>2, <2>4, FetcherKeepsChain, TipKeepsChain, RollbackKeepsChain DEF LibFetcherStep
  <2>5. CASE LibProcessorStep \/ LibResultStep
    BY <2>2, <2>5, ChannelsKeepChain, CommitKeepsChain DEF LibProcessorStep, LibResultStep
  <2>6. CASE LibNode
    BY <2>2, <2>6, NodeKeepsChain
  <2> QED
    BY <2>3, <2>4, <2>5, <2>6 DEF LibNext, LibRetry, LibEnded
<1> QED
  BY <1>1, <1>2 DEF ChainInv

(* What the runs check is part of the invariant. *)
LEMMA ChainInvIsOneChain == ChainInv /\ ~overtaken => LibOneChain
<1> USE LedgerConstants
<1> SUFFICES ASSUME ChainInv, ~overtaken PROVE LibOneChain
  OBVIOUS
<1>1. LinkedBut /\ indexed \in Heights
  BY DEF ChainInv, ChainPart, ExitBase, IndexBase
<1>2. \A h \in StartBlock + 1 .. indexed : h \in Heights /\ h > StartBlock
  BY <1>1
<1> QED
  BY <1>1, <1>2 DEF LibOneChain, LinkedBut

LEMMA ChainInvIsCursor == ChainInv => LibCursorNotAhead
BY DEF ChainInv, ChainPart, Cursor, LibCursorNotAhead

(* With forks in reach handle_reorg never has to look further than it does. *)
LEMMA LibLooksFarEnough == ForksInReach /\ ChainInv /\ ~overtaken => LibReorgsInReach
<1> SUFFICES ASSUME ForksInReach, ChainInv, ~overtaken,
                    NEW c \in 0 .. MaxHeight + 1, ~AgreesBelow(c)
             PROVE  NearTip(Height[best], c) /\ EndsWell(c)
  BY DEF LibReorgsInReach
<1> QED
  BY InReach DEF ChainInv, ChainPart, ExitBase

(* No block of the library's pipeline is indexed on top of a block that is *)
(* not its parent, however the node reorganises, if the operator's         *)
(* constants let handle_reorg reach every fork and the node did not        *)
(* reorganise between that look and the query for the very block: the      *)
(* fetcher's check is the only one there is.  (Once a rollback has been    *)
(* begun with a block in flight nothing is claimed.) *)
THEOREM LibOneChainHolds ==
  ExitAboveStart => (LibSpec /\ []LibReorgsInReach => [](~overtaken => LibOneChain))
<1> SUFFICES ASSUME ExitAboveStart
             PROVE  LibSpec /\ []LibReorgsInReach => [](~overtaken => LibOneChain)
  OBVIOUS
<1>1. LibInit => ChainInv
  BY ChainInitInv
<1>2. ChainInv /\ LibReorgsInReach /\ [LibNext]_libVars => ChainInv'
  BY ChainInvKept
<1>3. ChainInv => (~overtaken => LibOneChain)
  BY ChainInvIsOneChain
<1> QED
  BY <1>1, <1>2, <1>3, PTL DEF LibSpec

(* Under the same conditions current_height never passes the block after   *)
(* the tip, except while a rollback is handed to it, until a rollback is   *)
(* begun with a block in flight. *)
THEOREM LibCursorHolds ==
  ExitAboveStart => (LibSpec /\ []LibReorgsInReach => []LibCursorNotAhead)
<1> SUFFICES ASSUME ExitAboveStart PROVE LibSpec /\ []LibReorgsInReach => []LibCursorNotAhead
  OBVIOUS
<1>1. LibInit => ChainInv
  BY ChainInitInv
<1>2. ChainInv /\ LibReorgsInReach /\ [LibNext]_libVars => ChainInv'
  BY ChainInvKept
<1>3. ChainInv => LibCursorNotAhead
  BY ChainInvIsCursor
<1> QED
  BY <1>1, <1>2, <1>3, PTL DEF LibSpec

(* With constants that put every fork in reach, both hold of every         *)
(* behaviour, reorganisations at any moment among them. *)
THEOREM LibForksInReach ==
  ExitAboveStart /\ ForksInReach =>
    (LibSpec => []((~overtaken => LibOneChain) /\ LibCursorNotAhead))
<1> SUFFICES ASSUME ExitAboveStart, ForksInReach
             PROVE  LibSpec => []((~overtaken => LibOneChain) /\ LibCursorNotAhead)
  OBVIOUS
<1>1. LibInit => ChainInv
  BY ChainInitInv
<1>2. ChainInv /\ [LibNext]_libVars => ChainInv'
  BY ChainInvKept, LibLooksFarEnough
<1>3. ChainInv => (~overtaken => LibOneChain) /\ LibCursorNotAhead
  BY ChainInvIsOneChain, ChainInvIsCursor
<1> QED
  BY <1>1, <1>2, <1>3, PTL DEF LibSpec

=============================================================================
