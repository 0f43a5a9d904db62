--------------------------- MODULE PipelineProofs ---------------------------
(***************************************************************************)
(* The four safety properties of Pipeline, for every chain, every start    *)
(* block, depth, threshold, prefetch size and exit height.                 *)
(***************************************************************************)
EXTENDS Pipeline, ChainProofs, FiniteSetTheorems

(***************************************************************************)
(* Facts about the operators of Ledger: the continuity check, the walk of  *)
(* handle_reorg and what a commit or a rollback leaves of a linked index.  *)
(***************************************************************************)

(* Where the walk of handle_reorg ends is a height of the chain, at or     *)
(* above every recorded height that ends it. *)
LEMMA WalkEndFacts ==
  ASSUME NEW c \in 0 .. MaxHeight + 1
  PROVE  /\ WalkEnd(c) \in Heights
         /\ \A h \in WalkStops(c) : h <= WalkEnd(c)
<1> DEFINE R == WalkRange(c)
           S == WalkStops(c)
<1>1. MaxHeight \in Nat /\ MaxReorgDepth \in Nat
  BY ChainAssumption, LedgerAssumption
<1>2. S \subseteq R /\ R \subseteq 0 .. MaxHeight
  <2>1. SatSub(c, MaxReorgDepth) \in Nat
    BY <1>1 DEF SatSub
  <2> QED
    BY <1>1, <2>1 DEF WalkStops, WalkRange
<1>3. \A h \in 0 .. MaxHeight + 1 : SatSub(h, 1) \in 0 .. MaxHeight
  BY <1>1 DEF SatSub
<1>4. CASE S # {}
  <2>1. \E x \in S : \A y \in S : y <= x
    BY <1>1, <1>2, <1>4, GreatestExists
  <2>2. WalkEnd(c) = CHOOSE h \in S : \A x \in S : x <= h
    BY <1>4 DEF WalkEnd
  <2>3. WalkEnd(c) \in S /\ \A h \in S : h <= WalkEnd(c)
    BY <2>1, <2>2
  <2> QED
    BY <1>2, <2>3 DEF Heights
<1>5. CASE S = {} /\ R # {}
  <2>1. \E x \in R : \A y \in R : x <= y
    BY <1>1, <1>2, <1>5, LeastExists
  <2>2. PICK l \in R : WalkEnd(c) = SatSub(l, 1)
    BY <1>5, <2>1 DEF WalkEnd
  <2> QED
    BY <1>1, <1>2, <1>3, <1>5, <2>2 DEF Heights
<1>6. CASE S = {} /\ R = {}
  BY <1>3, <1>6 DEF WalkEnd, Heights
<1> QED
  BY <1>4, <1>5, <1>6

(* The records agree with the node's best chain. *)
Agrees == \A h \in Heights : hash[h] # NoBlock => hash[h] = Ancestry(best)[h]

(* As long as they do, no walk finds anything to undo. *)
LEMMA NothingToUndo ==
  ASSUME NEW c \in 0 .. MaxHeight + 1, Agrees
  PROVE  ~ ReorgDetected(c)
<1>1. SUFFICES ASSUME NEW h \in WalkRange(c), h > WalkEnd(c), hash[h] # NoBlock
               PROVE  FALSE
  BY DEF ReorgDetected
<1>2. h \in Heights
  <2>1. SatSub(c, MaxReorgDepth) \in Nat /\ MaxHeight \in Nat
    BY ChainAssumption, LedgerAssumption DEF SatSub
  <2> QED
    BY <2>1 DEF WalkRange, Heights
<1>3. h \in WalkStops(c)
  BY <1>1, <1>2 DEF Agrees, WalkStops
<1>4. WalkEnd(c) \in Int /\ h \in Int
  BY <1>2, WalkEndFacts, ChainAssumption DEF Heights
<1> QED
  BY <1>1, <1>3, <1>4, WalkEndFacts

(* A growing node keeps the records in agreement. *)
LEMMA AgreesGrows ==
  ASSUME NEW t \in Blocks, best \in Blocks, Agrees, NodeGrows(t),
         hash \in [Heights -> Blocks \cup {NoBlock}]
  PROVE  /\ Agrees'
         /\ Height[best'] = Height[best] + 1
         /\ \A h \in 0 .. Height[best] : Ancestry(best)[h] = Ancestry(best')[h]
<1>1. best' = t /\ Parent[t] = best /\ hash' = hash
  BY DEF NodeGrows, index
<1>2. Height[t] # 0
  BY <1>1, ChainAssumption
<1>3. Height[best] = Height[t] - 1 /\ \A h \in 0 .. Height[best] : Ancestry(t)[h] = Ancestry(best)[h]
  BY <1>1, <1>2, AncestryOfParent
<1>4. Height[t] \in Nat /\ Height[best] \in Nat
  BY ChainAssumption DEF Heights
<1>5. ASSUME NEW h \in Heights, hash[h] # NoBlock PROVE hash[h] = Ancestry(t)[h]
  <2>1. hash[h] = Ancestry(best)[h]
    BY <1>5 DEF Agrees
  <2>2. ~ (h > Height[best])
    BY <1>5, <2>1, AncestryFacts
  <2>3. h \in 0 .. Height[best]
    BY <1>4, <2>2, ChainAssumption DEF Heights
  <2> QED
    BY <1>3, <2>1, <2>3
<1> QED
  BY <1>1, <1>3, <1>4, <1>5 DEF Agrees

(* b is a block of the node's best chain. *)
OnChain(b) == Height[b] <= Height[best] /\ Ancestry(best)[Height[b]] = b

(* Such a block connects to an index that agrees with the node ... *)
LEMMA OnChainConnects ==
  ASSUME NEW b \in Blocks, best \in Blocks, Agrees, OnChain(b)
  PROVE  Connects(b)
<1>1. SUFFICES ASSUME Height[b] > 0, hash[Height[b] - 1] # NoBlock
               PROVE  hash[Height[b] - 1] = Parent[b]
  BY DEF Connects
<1>2. /\ Height[b] - 1 \in Heights /\ Height[b] - 1 \in 0 .. Height[best]
      /\ Height[b] - 1 # Height[best] /\ (Height[b] - 1) + 1 = Height[b]
  BY <1>1, ChainAssumption DEF Heights, OnChain
<1>3. Ancestry(best)[Height[b] - 1] = Parent[Ancestry(best)[(Height[b] - 1) + 1]]
  BY <1>2, AncestryFacts
<1> QED
  BY <1>1, <1>2, <1>3 DEF Agrees, OnChain

(* ... and leaves it in agreement. *)
LEMMA CommitAgrees ==
  ASSUME NEW b \in Blocks, Agrees, OnChain(b), Commit(b), UNCHANGED best,
         hash \in [Heights -> Blocks \cup {NoBlock}]
  PROVE  Agrees'
<1>1. \A h \in Heights : hash'[h] = IF h = Height[b] THEN b ELSE hash[h]
  BY DEF Commit
<1> QED
  BY <1>1 DEF Agrees, OnChain

(***************************************************************************)
(* The index as a chain.                                                   *)
(***************************************************************************)

IndexType == indexed \in Heights /\ hash \in [Heights -> Blocks \cup {NoBlock}]

(* Two records of consecutive heights are parent and child. *)
Linked ==
  \A h \in Heights : h > 0 /\ hash[h] # NoBlock /\ hash[h - 1] # NoBlock
                     => Parent[hash[h]] = hash[h - 1]

(* Nothing is recorded above the indexed height. *)
NothingAbove == \A h \in Heights : h > indexed => hash[h] = NoBlock

IndexInv == IndexType /\ Linked /\ NothingAbove

(* A block that passed the two checks is committed on top of its parent. *)
LEMMA CommitKeepsIndex ==
  ASSUME IndexInv, NEW b \in Blocks, Connects(b), Accepts(Height[b]), Commit(b)
  PROVE  IndexInv'
<1> DEFINE H == Height[b]
<1>1. MaxHeight \in Nat /\ NoBlock \notin Blocks /\ H \in Heights
  BY ChainAssumption
<1>2. /\ hash' = [hash EXCEPT ![H] = b] /\ indexed' = H
      /\ hash \in [Heights -> Blocks \cup {NoBlock}] /\ indexed \in Heights
  BY DEF Commit, IndexInv, IndexType
<1>3. \A h \in Heights : hash'[h] = IF h = H THEN b ELSE hash[h]
  BY <1>2
<1>4. IndexType'
  BY <1>1, <1>2 DEF IndexType
<1>5. \A h \in Heights : h > H => hash[h] = NoBlock
  <2>1. CASE FreshDb
    BY <1>1, <2>1 DEF FreshDb, IndexInv, NothingAbove, Heights
  <2>2. CASE H = indexed + 1
    BY <1>1, <1>2, <2>2 DEF IndexInv, NothingAbove, Heights
  <2> QED
    BY <2>1, <2>2 DEF Accepts
<1>6. NothingAbove'
  BY <1>1, <1>2, <1>3, <1>5 DEF NothingAbove, Heights
<1>7. ASSUME NEW h \in Heights, h > 0, hash'[h] # NoBlock, hash'[h - 1] # NoBlock
      PROVE  Parent[hash'[h]] = hash'[h - 1]
  <2>1. h - 1 \in Heights /\ h \in Int /\ h - 1 # h
    BY <1>1, <1>7 DEF Heights
  <2>2. CASE h = H
    <3>1. hash'[h] = b /\ hash'[h - 1] = hash[h - 1]
      BY <1>3, <2>1, <2>2
    <3>2. hash[h - 1] \in {NoBlock, Parent[b]}
      BY <1>7, <2>2 DEF Connects
    <3> QED
      BY <1>7, <3>1, <3>2
  <2>3. CASE h # H /\ h - 1 = H
    <3>1. h > H
      BY <1>1, <2>1, <2>3 DEF Heights
    <3> QED
      BY <1>3, <1>5, <1>7, <2>3, <3>1
  <2>4. CASE h # H /\ h - 1 # H
    BY <1>3, <1>7, <2>1, <2>4 DEF IndexInv, Linked
  <2> QED
    BY <2>2, <2>3, <2>4
<1>8. Linked'
  BY <1>7 DEF Linked
<1> QED
  BY <1>4, <1>6, <1>8 DEF IndexInv

(* A rollback to any height, also one above the tip, leaves a linked index *)
(* and adds no record. *)
LEMMA RollbackKeepsIndex ==
  ASSUME IndexInv, NEW r \in Heights, RollbackTo(r)
  PROVE  IndexInv' /\ \A h \in Heights : hash'[h] \in {NoBlock, hash[h]}
<1>1. MaxHeight \in Nat /\ NoBlock \notin Blocks
  BY ChainAssumption
<1>2. /\ hash' = [h \in Heights |-> IF h \in r + 1 .. indexed THEN NoBlock ELSE hash[h]]
      /\ indexed' = r
      /\ hash \in [Heights -> Blocks \cup {NoBlock}] /\ indexed \in Heights
  BY DEF RollbackTo, IndexInv, IndexType
<1>3. \A h \in Heights : hash'[h] = IF h \in r + 1 .. indexed THEN NoBlock ELSE hash[h]
  BY <1>2
<1>4. IndexType'
  <2>1. \A h \in Heights : hash'[h] \in Blocks \cup {NoBlock}
    BY <1>2, <1>3
  <2> QED
    BY <1>2, <2>1 DEF IndexType
<1>5. \A h \in Heights : hash'[h] \in {NoBlock, hash[h]}
  BY <1>3
<1>6. NothingAbove'
  <2>1. ASSUME NEW h \in Heights, h > r PROVE hash'[h] = NoBlock
    <3>1. CASE h \in r + 1 .. indexed
      BY <1>3, <3>1
    <3>2. CASE ~ (h \in r + 1 .. indexed)
      <4>1. h > indexed
        BY <1>1, <1>2, <2>1, <3>2 DEF Heights
      <4> QED
        BY <1>3, <4>1 DEF IndexInv, NothingAbove
    <3> QED
      BY <3>1, <3>2
  <2> QED
    BY <1>2, <2>1 DEF NothingAbove
<1>7. Linked'
  <2>1. \A h \in Heights : h > 0 => h - 1 \in Heights
    BY <1>1 DEF Heights
  <2> QED
    BY <1>5, <2>1 DEF Linked, IndexInv
<1> QED
  BY <1>4, <1>5, <1>6, <1>7 DEF IndexInv

(* A rollback cannot disconnect a block. *)
LEMMA RollbackKeepsConnects ==
  ASSUME NEW b \in Blocks, Connects(b), \A h \in Heights : hash'[h] \in {NoBlock, hash[h]}
  PROVE  Connects(b)'
<1>1. Height[b] > 0 => Height[b] - 1 \in Heights
  BY ChainAssumption DEF Heights
<1> QED
  BY <1>1 DEF Connects

-----------------------------------------------------------------------------
(***************************************************************************)
(* What holds whatever the node does and whatever fails.                   *)
(***************************************************************************)

FetcherType ==
  /\ fet = [pc |-> fet.pc, tip |-> fet.tip, snap |-> fet.snap, remote |-> fet.remote,
            ret |-> fet.ret, lo |-> fet.lo, hi |-> fet.hi, got |-> fet.got]
  /\ fet.pc \in {"top", "tip", "near", "check", "undo", "store", "pick", "get", "mark"}
  /\ fet.tip \in 0 .. MaxHeight + 1 /\ fet.ret \in 0 .. MaxHeight + 1
  /\ fet.snap \in Heights \cup {Unset} /\ fet.hi \in Heights \cup {Unset}
  /\ fet.lo \in Heights
  /\ fet.remote \in Heights /\ fet.remote <= Height[best]

(* The batch: heights the node has, no more than the prefetch size. *)
BatchInv ==
  /\ fet.pc \in {"get", "mark"} =>
        fet.lo <= fet.hi /\ fet.hi <= Height[best] /\ fet.hi - fet.lo < PrefetchSize
  /\ DOMAIN fet.got \subseteq fet.lo .. fet.hi
  /\ fet.pc \notin {"get", "mark"} => DOMAIN fet.got = {}
  /\ \A h \in DOMAIN fet.got : fet.got[h] \in Blocks /\ Height[fet.got[h]] = h

Outcomes == {"none", "success", "discontinuity", "rejected", "failed"}

ProcessorInv ==
  /\ prc = [pc |-> prc.pc, block |-> prc.block, result |-> prc.result]
  /\ prc.pc \in {"recv", "guard", "commit", "store", "report"}
  /\ prc.result \in Outcomes
  /\ prc.pc # "recv" => prc.block \in Blocks
  /\ prc.pc \in {"guard", "commit"} => Connects(prc.block)

ChannelInv ==
  /\ blocks \in Seq(Blocks) /\ Len(blocks) <= PrefetchSize
  /\ results \in Seq([h : Heights, what : Outcomes])

RestInv ==
  /\ best \in Blocks
  /\ current \in 0 .. MaxHeight + 1
  /\ sent \in Heights \cup {Unset}
  /\ rst = [pc |-> rst.pc, at |-> rst.at]
  /\ rst.at \in Heights

PipeInv ==
  IndexInv /\ RestInv /\ FetcherType /\ BatchInv /\ ProcessorInv /\ ChannelInv
-----------------------------------------------------------------------------
(***************************************************************************)
(* The unconditional part: PipeInv is kept by every step.                  *)
(***************************************************************************)

(* The constants, as the proofs below use them. *)
LEMMA PipeConstants ==
  /\ MaxHeight \in Nat /\ StartBlock \in Heights /\ ReorgCheckThreshold \in Nat
  /\ PrefetchSize \in Nat /\ PrefetchSize >= 1
  /\ PrefetchSize <= Larger(1, ReorgCheckThreshold)
  /\ NoBlock \notin Blocks /\ Height \in [Blocks -> Heights]
  /\ Unset \in Int /\ Unset < 0
BY ChainAssumption, LedgerAssumption, PipelineAssumption DEF PrefetchSize, Larger, Unset

LEMMA PipeInitInv == PipeInit => PipeInv
<1> SUFFICES ASSUME PipeInit PROVE PipeInv
  OBVIOUS
<1> USE PipeConstants
<1>1. /\ best \in Blocks /\ Height[best] \in Nat
      /\ indexed = 0 /\ hash = [h \in Heights |-> NoBlock]
      /\ current = StartBlock /\ sent = Unset /\ blocks = <<>> /\ results = <<>>
      /\ fet = Fetcher /\ prc = Processor /\ rst = Results
  BY DEF PipeInit, LedgerInit, Heights
<1>2. IndexInv
  BY <1>1 DEF IndexInv, IndexType, Linked, NothingAbove, Heights
<1>3. RestInv
  BY <1>1 DEF RestInv, Results, Heights
<1>4. FetcherType
  BY <1>1 DEF FetcherType, Fetcher, Heights
<1>5. BatchInv
  BY <1>1 DEF BatchInv, Fetcher
<1>6. ProcessorInv
  BY <1>1 DEF ProcessorInv, Processor, Outcomes
<1>7. ChannelInv
  BY <1>1 DEF ChannelInv
<1> QED
  BY <1>2, <1>3, <1>4, <1>5, <1>6, <1>7 DEF PipeInv

(* The fetcher's own state does not depend on the index. *)
LEMMA FetcherFrame ==
  ASSUME FetcherType, BatchInv, UNCHANGED fet, Height[best] <= Height[best'],
         best \in Blocks, best' \in Blocks
  PROVE  FetcherType' /\ BatchInv'
<1>1. Height[best] \in Int /\ Height[best'] \in Int
  BY PipeConstants DEF Heights
<1>2. FetcherType'
  BY <1>1, PipeConstants DEF FetcherType, Heights
<1>3. fet.pc \in {"get", "mark"} => fet.hi <= Height[best']
  BY <1>1, PipeConstants DEF FetcherType, BatchInv, Heights
<1>4. BatchInv'
  BY <1>3, PipeConstants DEF BatchInv
<1> QED
  BY <1>2, <1>4

(* Nor does the processor's, unless the index gets a record. *)
LEMMA ProcessorFrame ==
  ASSUME ProcessorInv, UNCHANGED prc, \A h \in Heights : hash'[h] \in {NoBlock, hash[h]}
  PROVE  ProcessorInv'
<1>1. prc.pc \in {"guard", "commit"} => Connects(prc.block)'
  <2> SUFFICES ASSUME prc.pc \in {"guard", "commit"} PROVE Connects(prc.block)'
    OBVIOUS
  <2>1. prc.block \in Blocks /\ Connects(prc.block)
    BY DEF ProcessorInv
  <2>2. \A b \in Blocks : Connects(b) => Connects(b)'
    BY RollbackKeepsConnects
  <2> QED
    BY <2>1, <2>2
<1> QED
  BY <1>1 DEF ProcessorInv

LEMMA IndexFrame ==
  ASSUME IndexInv, UNCHANGED index
  PROVE  IndexInv' /\ \A h \in Heights : hash'[h] \in {NoBlock, hash[h]}
BY DEF IndexInv, IndexType, Linked, NothingAbove, index

(* Every step of the fetcher that leaves the index and the channel alone. *)
LEMMA FetcherQuietSteps ==
  ASSUME PipeInv, FetchTop \/ FetchTip \/ NearLoad \/ NearCheck \/ NearStore
                  \/ NearPick \/ FetchFails \/ \E h \in Heights : FetchBlock(h)
  PROVE  PipeInv'
<1> USE PipeConstants
<1>1. UNCHANGED <<best, index, blocks, results, prc, rst>>
  BY DEF FetchTop, FetchTip, NearLoad, NearCheck, NearStore, NearPick, FetchFails,
         FetchBlock, fetcherOthers, index
<1>2. IndexInv' /\ ProcessorInv' /\ ChannelInv'
  BY <1>1, IndexFrame, ProcessorFrame DEF PipeInv, ChannelInv
<1>3. /\ best \in Blocks /\ Height[best] \in Nat /\ current \in 0 .. MaxHeight + 1
      /\ sent \in Heights \cup {Unset} /\ Height[best] <= MaxHeight
  BY DEF PipeInv, RestInv, Heights
<1>4. FetcherType /\ BatchInv
  BY DEF PipeInv
<1>5. fet = [pc |-> fet.pc, tip |-> fet.tip, snap |-> fet.snap, remote |-> fet.remote,
             ret |-> fet.ret, lo |-> fet.lo, hi |-> fet.hi, got |-> fet.got]
  BY <1>4 DEF FetcherType
<1> DEFINE Quiet(f) == /\ f.pc \in {"top", "tip", "near", "check", "undo", "store", "pick"}
                       /\ DOMAIN f.got = {}
<1>a. /\ DOMAIN Fetcher.got = {} /\ Fetcher.pc = "top" /\ Fetcher.tip = 0
      /\ Fetcher.snap = Unset /\ Fetcher.remote = 0 /\ Fetcher.ret = 0 /\ Fetcher.lo = 0
      /\ Fetcher.hi = Unset
  BY DEF Fetcher
<1>b. ASSUME fet' = Fetcher PROVE FetcherType' /\ BatchInv'
  BY <1>1, <1>3, <1>b, <1>a DEF FetcherType, BatchInv, Fetcher, Heights
<1>6. CASE FetchTop
  <2>1. fet' = fet \/ (fet.pc = "top" /\ fet' = [fet EXCEPT !.pc = "tip", !.tip = current])
    BY <1>6 DEF FetchTop
  <2>2. UNCHANGED <<current, sent>>
    BY <1>6 DEF FetchTop
  <2>3. FetcherType'
    BY <1>1, <1>3, <1>4, <1>5, <2>1 DEF FetcherType
  <2>4. BatchInv'
    BY <1>1, <1>4, <1>5, <2>1 DEF BatchInv
  <2> QED
    BY <1>1, <1>2, <2>2, <2>3, <2>4 DEF PipeInv, RestInv
<1>c. ASSUME NEW lo \in Heights, NEW hi \in Heights, NEW n \in Heights \cup {Unset},
             lo <= hi, hi <= Height[best], hi - lo < PrefetchSize,
             fet' = [Fetching(lo, hi) EXCEPT !.snap = n]
      PROVE  FetcherType' /\ BatchInv'
  <2>1. fet' = [pc |-> "get", tip |-> 0, snap |-> n, remote |-> 0, ret |-> 0,
                lo |-> lo, hi |-> hi, got |-> Fetcher.got]
    BY <1>c DEF Fetching, Fetcher
  <2>2. FetcherType'
    BY <1>1, <1>3, <2>1 DEF FetcherType, Heights
  <2>3. BatchInv'
    BY <1>1, <1>a, <1>c, <2>1 DEF BatchInv
  <2> QED
    BY <2>2, <2>3
<1>7. CASE FetchTip
  <2> DEFINE start == FetchStart(fet.tip, sent)
             hi == IF start + PrefetchSize <= Height[best] + 1
                   THEN start + PrefetchSize - 1 ELSE Height[best]
  <2>1. fet' = IF NearTip(Height[best], start)
               THEN [Fetcher EXCEPT !.pc = "near", !.snap = sent]
               ELSE [Fetching(start, hi) EXCEPT !.snap = sent]
    BY <1>7 DEF FetchTip
  <2>2. start \in Nat
    BY <1>3, <1>4 DEF FetchStart, Larger, FetcherType, Heights
  <2>3. UNCHANGED <<current, sent>>
    BY <1>7 DEF FetchTip
  <2>4. CASE NearTip(Height[best], start)
    <3>1. fet' = [Fetcher EXCEPT !.pc = "near", !.snap = sent]
      BY <2>1, <2>4
    <3>4. fet' = [pc |-> "near", tip |-> 0, snap |-> sent, remote |-> 0, ret |-> 0,
                  lo |-> 0, hi |-> Unset, got |-> Fetcher.got]
      BY <3>1 DEF Fetcher
    <3>2. FetcherType'
      BY <1>1, <1>3, <3>4 DEF FetcherType, Heights
    <3>3. BatchInv'
      BY <1>a, <3>1 DEF BatchInv, Fetcher
    <3> QED
      BY <1>1, <1>2, <2>3, <3>2, <3>3 DEF PipeInv, RestInv
  <2>5. CASE ~ NearTip(Height[best], start)
    <3>1. start < Height[best]
      BY <1>3, <2>2, <2>5 DEF NearTip, SatSub
    <3>2. start \in Heights /\ hi \in Heights /\ start <= hi /\ hi <= Height[best]
          /\ hi - start < PrefetchSize
      BY <1>3, <2>2, <3>1 DEF Heights
    <3>3. fet' = [Fetching(start, hi) EXCEPT !.snap = sent]
      BY <2>1, <2>5
    <3> HIDE DEF start, hi
    <3>4. FetcherType' /\ BatchInv'
      BY <1>3, <1>c, <3>2, <3>3
    <3> QED
      BY <1>1, <1>2, <2>3, <3>4 DEF PipeInv, RestInv
  <2> QED
    BY <2>4, <2>5
<1>8. CASE NearLoad
  <2>1. fet.pc = "near" /\ fet' = [fet EXCEPT !.pc = "check", !.ret = current]
        /\ UNCHANGED <<current, sent>>
    BY <1>8 DEF NearLoad
  <2>3. FetcherType'
    BY <1>1, <1>3, <1>4, <1>5, <2>1 DEF FetcherType
  <2>4. BatchInv'
    BY <1>1, <1>4, <1>5, <2>1 DEF BatchInv
  <2> QED
    BY <1>1, <1>2, <2>1, <2>3, <2>4 DEF PipeInv, RestInv
<1>9. CASE NearCheck
  <2> DEFINE lo == IF ReorgDetected(fet.ret) THEN WalkEnd(fet.ret) ELSE 0
             pc == IF ~NearTip(Height[best], fet.ret) THEN "pick"
                   ELSE IF ReorgDetected(fet.ret) THEN "undo" ELSE "store"
  <2>1. fet.pc = "check"
        /\ fet' = [fet EXCEPT !.remote = Height[best], !.pc = pc, !.lo = lo]
        /\ UNCHANGED <<current, sent>>
    BY <1>9 DEF NearCheck
  <2>2. lo \in Heights /\ pc \in {"pick", "undo", "store"}
    <3>1. WalkEnd(fet.ret) \in Heights /\ 0 \in Heights
      BY <1>4, WalkEndFacts DEF FetcherType, Heights
    <3> QED
      BY <3>1
  <2> HIDE DEF lo, pc
  <2>5. fet' = [pc |-> pc, tip |-> fet.tip, snap |-> fet.snap, remote |-> Height[best],
                ret |-> fet.ret, lo |-> lo, hi |-> fet.hi, got |-> fet.got]
    BY <1>5, <2>1
  <2>3. FetcherType'
    BY <1>1, <1>3, <1>4, <2>2, <2>5 DEF FetcherType, Heights
  <2>4. BatchInv'
    BY <1>1, <1>4, <1>5, <2>1, <2>2 DEF BatchInv
  <2> QED
    BY <1>1, <1>2, <2>1, <2>3, <2>4 DEF PipeInv, RestInv
<1>10. CASE NearStore
  <2>1. fet.pc = "store" /\ fet' = [fet EXCEPT !.pc = "pick"]
        /\ current' = fet.ret /\ sent' = sent
    BY <1>10 DEF NearStore
  <2>3. FetcherType'
    BY <1>1, <1>3, <1>4, <1>5, <2>1 DEF FetcherType
  <2>4. BatchInv'
    BY <1>1, <1>4, <1>5, <2>1 DEF BatchInv
  <2> QED
    BY <1>1, <1>2, <1>4, <2>1, <2>3, <2>4 DEF PipeInv, RestInv, FetcherType
<1>11. CASE NearPick
  <2> DEFINE h == FetchStart(fet.ret, fet.snap)
  <2>1. UNCHANGED <<current, sent>>
        /\ (fet' = Fetcher \/ (h <= fet.remote
                               /\ fet' = [Fetching(h, h) EXCEPT !.snap = fet.snap]))
    <3>1. h \in Int /\ fet.remote \in Int
      BY <1>4 DEF FetcherType, FetchStart, Larger, Heights
    <3> QED
      BY <1>11, <3>1 DEF NearPick
  <2>2. h \in Nat /\ fet.remote \in Nat /\ fet.remote <= Height[best]
        /\ fet.snap \in Heights \cup {Unset}
    BY <1>4 DEF FetcherType, FetchStart, Larger, Heights
  <2>3. CASE fet' = Fetcher
    BY <1>1, <1>2, <1>b, <2>1, <2>3 DEF PipeInv, RestInv
  <2>4. CASE h <= fet.remote /\ fet' = [Fetching(h, h) EXCEPT !.snap = fet.snap]
    <3>1. h \in Heights /\ h <= h /\ h <= Height[best] /\ h - h < PrefetchSize
      BY <1>3, <2>2, <2>4 DEF Heights
    <3> HIDE DEF h
    <3>2. FetcherType' /\ BatchInv'
      BY <1>c, <2>2, <2>4, <3>1
    <3> QED
      BY <1>1, <1>2, <2>1, <3>2 DEF PipeInv, RestInv
  <2> QED
    BY <2>1, <2>3, <2>4
<1>12. CASE FetchFails
  BY <1>1, <1>2, <1>b, <1>12 DEF FetchFails, PipeInv, RestInv
<1>13. CASE \E h \in Heights : FetchBlock(h)
  <2>1. PICK h \in Heights : FetchBlock(h)
    BY <1>13
  <2> DEFINE b == Ancestry(best)[h]
             g == [x \in {h} \cup DOMAIN fet.got |-> IF x = h THEN b ELSE fet.got[x]]
  <2>2. /\ fet.pc = "get" /\ h \in fet.lo .. fet.hi
        /\ fet' = [fet EXCEPT !.got = g] /\ UNCHANGED <<current, sent>>
    BY <2>1 DEF FetchBlock
  <2>3. fet.hi <= Height[best] /\ fet.lo \in Heights /\ fet.hi \in Heights \cup {Unset}
    BY <1>4, <2>2 DEF FetcherType, BatchInv
  <2>4. b \in Blocks /\ Height[b] = h
    <3>1. h \in 0 .. Height[best]
      BY <1>3, <2>2, <2>3 DEF Heights
    <3> QED
      BY <1>3, <3>1, AncestryFacts
  <2>5. DOMAIN g = {h} \cup DOMAIN fet.got /\ g[h] = b
        /\ \A x \in DOMAIN fet.got : x # h => g[x] = fet.got[x]
    OBVIOUS
  <2> HIDE DEF g, b
  <2>6. FetcherType'
    BY <1>1, <1>4, <1>5, <2>2 DEF FetcherType
  <2>7. BatchInv'
    BY <1>1, <1>4, <1>5, <2>2, <2>4, <2>5 DEF BatchInv
  <2> QED
    BY <1>1, <1>2, <2>2, <2>6, <2>7 DEF PipeInv, RestInv
<1> QED
  BY <1>6, <1>7, <1>8, <1>9, <1>10, <1>11, <1>12, <1>13

(* The fetcher's rollback of what it found to disagree with the node. *)
LEMMA NearRollbackKeeps ==
  ASSUME PipeInv, NearRollback
  PROVE  PipeInv'
<1> USE PipeConstants
<1>1. /\ fet.pc = "undo" /\ RollbackTo(fet.lo)
      /\ fet' = [fet EXCEPT !.pc = "store", !.ret = fet.lo + 1, !.lo = 0]
      /\ UNCHANGED <<best, current, sent, blocks, results, prc, rst>>
  BY DEF NearRollback, Undo, fetcherOthers
<1>2. fet = [pc |-> fet.pc, tip |-> fet.tip, snap |-> fet.snap, remote |-> fet.remote,
             ret |-> fet.ret, lo |-> fet.lo, hi |-> fet.hi, got |-> fet.got]
  BY DEF PipeInv, FetcherType
<1>3. fet.lo \in Heights
  BY DEF PipeInv, FetcherType
<1>4. IndexInv' /\ \A h \in Heights : hash'[h] \in {NoBlock, hash[h]}
  BY <1>1, <1>3, RollbackKeepsIndex DEF PipeInv
<1>5. ProcessorInv'
  BY <1>1, <1>4, ProcessorFrame DEF PipeInv
<1>6. fet' = [pc |-> "store", tip |-> fet.tip, snap |-> fet.snap, remote |-> fet.remote,
              ret |-> fet.lo + 1, lo |-> 0, hi |-> fet.hi, got |-> fet.got]
  BY <1>1, <1>2
<1>7. FetcherType'
  <2>1. fet.lo + 1 \in 0 .. MaxHeight + 1 /\ 0 \in Heights
    BY <1>3 DEF Heights
  <2>2. FetcherType
    BY DEF PipeInv
  <2> QED
    BY <1>1, <1>6, <2>1, <2>2 DEF FetcherType
<1>8. BatchInv'
  BY <1>1, <1>6 DEF PipeInv, BatchInv
<1> QED
  BY <1>1, <1>4, <1>5, <1>7, <1>8 DEF PipeInv, RestInv, ChannelInv

(* A block enters the channel only when it has room. *)
LEMMA FetchSendKeeps ==
  ASSUME PipeInv, FetchSend
  PROVE  PipeInv'
<1> USE PipeConstants
<1>1. /\ fet.pc = "get" /\ fet.lo \in DOMAIN fet.got /\ Len(blocks) < PrefetchSize
      /\ blocks' = Append(blocks, fet.got[fet.lo]) /\ fet' = [fet EXCEPT !.pc = "mark"]
      /\ UNCHANGED <<best, index, current, sent, results, prc, rst>>
  BY DEF FetchSend, fetcherOthers
<1>2. fet = [pc |-> fet.pc, tip |-> fet.tip, snap |-> fet.snap, remote |-> fet.remote,
             ret |-> fet.ret, lo |-> fet.lo, hi |-> fet.hi, got |-> fet.got]
  BY DEF PipeInv, FetcherType
<1>3. FetcherType'
  BY <1>1, <1>2 DEF PipeInv, FetcherType
<1>4. BatchInv'
  BY <1>1, <1>2 DEF PipeInv, BatchInv
<1>5. fet.got[fet.lo] \in Blocks
  BY <1>1 DEF PipeInv, BatchInv
<1>6. ChannelInv'
  BY <1>1, <1>5 DEF PipeInv, ChannelInv
<1>7. IndexInv' /\ ProcessorInv'
  BY <1>1, IndexFrame, ProcessorFrame DEF PipeInv
<1> QED
  BY <1>1, <1>3, <1>4, <1>6, <1>7 DEF PipeInv, RestInv

(* What was sent leaves the batch. *)
LEMMA FetchMarkKeeps ==
  ASSUME PipeInv, FetchMark
  PROVE  PipeInv'
<1> USE PipeConstants
<1>1. /\ fet.pc = "mark" /\ sent' = Larger(sent, fet.lo)
      /\ UNCHANGED <<best, index, current, blocks, results, prc, rst>>
  BY DEF FetchMark, fetcherOthers
<1>2. fet = [pc |-> fet.pc, tip |-> fet.tip, snap |-> fet.snap, remote |-> fet.remote,
             ret |-> fet.ret, lo |-> fet.lo, hi |-> fet.hi, got |-> fet.got]
  BY DEF PipeInv, FetcherType
<1>3. /\ fet.lo \in Heights /\ sent \in Heights \cup {Unset} /\ best \in Blocks
      /\ Height[best] \in Heights
  BY DEF PipeInv, FetcherType, RestInv
<1>4. sent' \in Heights \cup {Unset}
  BY <1>1, <1>3 DEF Larger
<1>5. FetcherType' /\ BatchInv'
  <2>1. CASE fet.lo = fet.hi
    <3>1. fet' = [pc |-> "top", tip |-> 0, snap |-> Unset, remote |-> 0, ret |-> 0,
                  lo |-> 0, hi |-> Unset, got |-> [h \in {} |-> NoBlock]]
      BY <2>1 DEF FetchMark, Fetcher
    <3>2. FetcherType'
      BY <1>1, <1>3, <3>1 DEF FetcherType, Heights
    <3>3. BatchInv'
      BY <3>1 DEF BatchInv
    <3> QED
      BY <3>2, <3>3
  <2>2. CASE fet.lo # fet.hi
    <3> DEFINE g == [h \in (DOMAIN fet.got) \ {fet.lo} |-> fet.got[h]]
    <3>1. fet' = [fet EXCEPT !.pc = "get", !.lo = fet.lo + 1, !.got = g]
      BY <2>2 DEF FetchMark
    <3>2. fet' = [pc |-> "get", tip |-> fet.tip, snap |-> fet.snap, remote |-> fet.remote,
                  ret |-> fet.ret, lo |-> fet.lo + 1, hi |-> fet.hi, got |-> g]
      BY <1>2, <3>1
    <3>3. DOMAIN g = (DOMAIN fet.got) \ {fet.lo} /\ \A h \in DOMAIN g : g[h] = fet.got[h]
      OBVIOUS
    <3> HIDE DEF g
    <3>4. /\ fet.lo < fet.hi /\ fet.hi <= Height[best] /\ fet.hi - fet.lo < PrefetchSize
          /\ fet.hi \in Heights
      BY <1>1, <1>3, <2>2 DEF PipeInv, BatchInv, FetcherType, Heights
    <3>5. fet.lo + 1 \in Heights
      BY <1>3, <3>4 DEF Heights
    <3>6. FetcherType'
      BY <1>1, <3>2, <3>5 DEF PipeInv, FetcherType
    <3>7. \A h \in DOMAIN g : h \in fet.lo + 1 .. fet.hi
      BY <1>3, <3>3, <3>4 DEF PipeInv, BatchInv, Heights
    <3>8. fet.lo + 1 <= fet.hi /\ fet.hi - (fet.lo + 1) < PrefetchSize
      BY <1>3, <3>4 DEF Heights
    <3>9. BatchInv'
      BY <1>1, <3>2, <3>3, <3>4, <3>7, <3>8 DEF PipeInv, BatchInv
    <3> QED
      BY <3>6, <3>9
  <2> QED
    BY <2>1, <2>2
<1>6. IndexInv' /\ ProcessorInv'
  BY <1>1, IndexFrame, ProcessorFrame DEF PipeInv
<1> QED
  BY <1>1, <1>4, <1>5, <1>6 DEF PipeInv, RestInv, ChannelInv

(* The processor commits only what it checked, and nothing that the index  *)
(* got since then can disconnect it.                                       *)
LEMMA ProcessorKeeps ==
  ASSUME PipeInv, ProcessorStep \/ ProcessExhausted
  PROVE  PipeInv'
<1> USE PipeConstants
<1>1. UNCHANGED <<best, sent, fet, rst>>
  BY DEF ProcessorStep, ProcessRecv, ProcessGuard, ProcessCommit, ProcessStore,
         ProcessReport, ProcessExhausted, processorOthers
<1>2. best \in Blocks /\ Height[best] <= Height[best']
  BY <1>1 DEF PipeInv, RestInv, Heights
<1>3. FetcherType' /\ BatchInv'
  BY <1>1, <1>2, FetcherFrame DEF PipeInv
<1>4. prc = [pc |-> prc.pc, block |-> prc.block, result |-> prc.result]
  BY DEF PipeInv, ProcessorInv
<1>5. blocks \in Seq(Blocks) /\ Len(blocks) <= PrefetchSize
  BY DEF PipeInv, ChannelInv
<1>6. CASE ProcessRecv
  <2>1. /\ blocks # <<>> /\ blocks' = Tail(blocks) /\ prc'.block = Head(blocks)
        /\ prc' = [pc |-> prc'.pc, block |-> prc'.block, result |-> prc'.result]
        /\ prc'.result \in Outcomes
        /\ prc'.pc \in {"guard", "report"}
        /\ prc'.pc = "guard" => Connects(Head(blocks))
        /\ UNCHANGED <<index, current, results>>
    BY <1>6 DEF ProcessRecv, Outcomes
  <2>2. Head(blocks) \in Blocks /\ Tail(blocks) \in Seq(Blocks) /\ Len(Tail(blocks)) <= PrefetchSize
    BY <1>5, <2>1
  <2>3. ASSUME NEW b \in Blocks, Connects(b) PROVE Connects(b)'
    BY <2>1, <2>3 DEF Connects, index
  <2>4. ProcessorInv'
    BY <2>1, <2>2, <2>3 DEF ProcessorInv
  <2>5. ChannelInv' /\ RestInv'
    BY <1>1, <2>1, <2>2 DEF PipeInv, ChannelInv, RestInv
  <2> QED
    BY <1>3, <2>1, <2>4, <2>5, IndexFrame DEF PipeInv
<1>7. CASE ProcessGuard
  <2>1. /\ prc.pc = "guard" /\ prc'.block = prc.block /\ prc'.pc \in {"report", "commit"}
        /\ prc' = [pc |-> prc'.pc, block |-> prc'.block, result |-> prc'.result]
        /\ prc'.result \in Outcomes
        /\ UNCHANGED <<index, current, blocks, results>>
    BY <1>4, <1>7 DEF ProcessGuard, Reports, Outcomes, PipeInv, ProcessorInv
  <2>2. prc.block \in Blocks /\ Connects(prc.block)
    BY <2>1 DEF PipeInv, ProcessorInv
  <2>3. Connects(prc.block)'
    BY <2>1, <2>2 DEF Connects, index
  <2>4. ProcessorInv'
    BY <2>1, <2>2, <2>3 DEF ProcessorInv, Connects
  <2> QED
    BY <1>1, <1>3, <2>1, <2>4, IndexFrame DEF PipeInv, ChannelInv, RestInv
<1>8. CASE ProcessCommit
  <2>1. /\ prc.pc = "commit" /\ prc'.block = prc.block /\ prc'.pc \in {"report", "store"}
        /\ prc' = [pc |-> prc'.pc, block |-> prc'.block, result |-> prc'.result]
        /\ prc'.result \in Outcomes
        /\ UNCHANGED <<current, blocks, results>>
        /\ (Accepts(Height[prc.block]) /\ Commit(prc.block)) \/ UNCHANGED index
    BY <1>4, <1>8 DEF ProcessCommit, Reports, Outcomes, PipeInv, ProcessorInv
  <2>2. prc.block \in Blocks /\ Connects(prc.block)
    BY <2>1 DEF PipeInv, ProcessorInv
  <2>3. IndexInv'
    BY <2>1, <2>2, CommitKeepsIndex, IndexFrame DEF PipeInv
  <2>4. ProcessorInv'
    BY <2>1, <2>2 DEF ProcessorInv
  <2> QED
    BY <1>1, <1>3, <2>1, <2>3, <2>4 DEF PipeInv, ChannelInv, RestInv
<1>9. CASE ProcessExhausted
  <2>1. /\ prc.pc = "commit" /\ prc'.block = prc.block /\ prc'.pc = "report"
        /\ prc' = [pc |-> prc'.pc, block |-> prc'.block, result |-> prc'.result]
        /\ prc'.result \in Outcomes
        /\ UNCHANGED <<index, current, blocks, results>>
    BY <1>4, <1>9 DEF ProcessExhausted, Reports, Outcomes, PipeInv, ProcessorInv
  <2>2. ProcessorInv'
    BY <2>1 DEF PipeInv, ProcessorInv
  <2> QED
    BY <1>1, <1>3, <2>1, <2>2, IndexFrame DEF PipeInv, ChannelInv, RestInv
<1>10. CASE ProcessStore
  <2>1. /\ prc.pc = "store" /\ prc'.block = prc.block /\ prc'.pc = "report"
        /\ prc' = [pc |-> prc'.pc, block |-> prc'.block, result |-> prc'.result]
        /\ prc'.result \in Outcomes
        /\ current' = Height[prc.block] + 1 /\ UNCHANGED <<index, blocks, results>>
    BY <1>4, <1>10 DEF ProcessStore, Reports, Outcomes, PipeInv, ProcessorInv
  <2>2. ProcessorInv' /\ Height[prc.block] \in Heights
    BY <2>1 DEF PipeInv, ProcessorInv
  <2>3. current' \in 0 .. MaxHeight + 1
    BY <2>1, <2>2 DEF Heights
  <2> QED
    BY <1>1, <1>3, <2>1, <2>2, <2>3, IndexFrame DEF PipeInv, ChannelInv, RestInv
<1>11. CASE ProcessReport
  <2>1. /\ prc.pc = "report" /\ prc' = Processor /\ UNCHANGED <<index, current, blocks>>
        /\ results' = Append(results, [h |-> Height[prc.block], what |-> prc.result])
    BY <1>11 DEF ProcessReport
  <2>2. ProcessorInv'
    BY <2>1 DEF ProcessorInv, Processor, Outcomes
  <2>3. prc.block \in Blocks /\ Height[prc.block] \in Heights
    BY <2>1 DEF PipeInv, ProcessorInv
  <2>4. prc.result \in Outcomes
    BY DEF PipeInv, ProcessorInv
  <2>5. results' \in Seq([h : Heights, what : Outcomes])
    BY <2>1, <2>3, <2>4 DEF PipeInv, ChannelInv
  <2> QED
    BY <1>1, <1>3, <2>1, <2>2, <2>5, IndexFrame DEF PipeInv, ChannelInv, RestInv
<1> QED
  BY <1>6, <1>7, <1>8, <1>9, <1>10, <1>11 DEF ProcessorStep

(* The result task's own rollback may run between any two steps of the     *)
(* others. *)
LEMMA ResultKeeps ==
  ASSUME PipeInv, ResultStep
  PROVE  PipeInv'
<1> USE PipeConstants
<1>1. UNCHANGED <<best, current, blocks, fet, prc>>
  BY DEF ResultStep, ResultRecv, ResultWalk, ResultRollback, ResultReset, resultOthers
<1>2. best \in Blocks /\ Height[best] <= Height[best']
  BY <1>1 DEF PipeInv, RestInv, Heights
<1>3. FetcherType' /\ BatchInv'
  BY <1>1, <1>2, FetcherFrame DEF PipeInv
<1>4. rst = [pc |-> rst.pc, at |-> rst.at] /\ rst.at \in Heights
  BY DEF PipeInv, RestInv
<1>5. 0 \in Heights /\ Heights \subseteq 0 .. MaxHeight + 1
  BY DEF Heights
<1>6. CASE ResultRecv
  <2>1. /\ results # <<>> /\ results' = Tail(results) /\ UNCHANGED <<index, sent>>
        /\ rst' = rst \/ rst' = [pc |-> "walk", at |-> Head(results).h]
    BY <1>6 DEF ResultRecv
  <2>2. results \in Seq([h : Heights, what : Outcomes])
    BY DEF PipeInv, ChannelInv
  <2>3. Head(results).h \in Heights /\ Tail(results) \in Seq([h : Heights, what : Outcomes])
    <3> DEFINE T == [h : Heights, what : Outcomes]
    <3>1. results \in Seq(T) /\ results # <<>>
      BY <2>1, <2>2
    <3>2. ASSUME NEW x \in T PROVE x.h \in Heights
      OBVIOUS
    <3> HIDE DEF T
    <3>3. Head(results) \in T /\ Tail(results) \in Seq(T)
      BY <3>1
    <3> QED
      BY <3>2, <3>3 DEF T
  <2>4. RestInv'
    BY <1>1, <2>1, <2>3 DEF PipeInv, RestInv
  <2>5. IndexInv' /\ ProcessorInv'
    BY <1>1, <2>1, IndexFrame, ProcessorFrame DEF PipeInv
  <2> QED
    BY <1>1, <1>3, <2>1, <2>3, <2>4, <2>5 DEF PipeInv, ChannelInv
<1>7. CASE ResultWalk
  <2>1. UNCHANGED <<index, sent, results>>
        /\ rst' = IF ReorgDetected(rst.at) THEN [pc |-> "undo", at |-> WalkEnd(rst.at)]
                  ELSE [pc |-> "reset", at |-> 0]
    BY <1>7 DEF ResultWalk
  <2>2. WalkEnd(rst.at) \in Heights
    BY <1>4, <1>5, WalkEndFacts
  <2>3. RestInv'
    BY <1>1, <1>5, <2>1, <2>2 DEF PipeInv, RestInv
  <2>4. IndexInv' /\ ProcessorInv'
    BY <1>1, <2>1, IndexFrame, ProcessorFrame DEF PipeInv
  <2> QED
    BY <1>1, <1>3, <2>1, <2>3, <2>4 DEF PipeInv, ChannelInv
<1>8. CASE ResultRollback
  <2>1. RollbackTo(rst.at) /\ rst' = [pc |-> "reset", at |-> 0] /\ UNCHANGED <<sent, results>>
    BY <1>8 DEF Undo, ResultRollback
  <2>2. IndexInv' /\ \A h \in Heights : hash'[h] \in {NoBlock, hash[h]}
    BY <1>4, <2>1, RollbackKeepsIndex DEF PipeInv
  <2>3. ProcessorInv'
    BY <1>1, <2>2, ProcessorFrame DEF PipeInv
  <2>4. RestInv'
    BY <1>1, <1>5, <2>1 DEF PipeInv, RestInv
  <2> QED
    BY <1>1, <1>3, <2>1, <2>2, <2>3, <2>4 DEF PipeInv, ChannelInv
<1>9. CASE ResultReset
  <2>1. sent' = Unset /\ rst' = Results /\ UNCHANGED <<index, results>>
    BY <1>9 DEF ResultReset
  <2>2. RestInv'
    BY <1>1, <1>5, <2>1 DEF PipeInv, RestInv, Results
  <2>3. IndexInv' /\ ProcessorInv'
    BY <1>1, <2>1, IndexFrame, ProcessorFrame DEF PipeInv
  <2> QED
    BY <1>1, <1>3, <2>1, <2>2, <2>3 DEF PipeInv, ChannelInv
<1> QED
  BY <1>6, <1>7, <1>8, <1>9 DEF ResultStep

(* The node's chain never gets shorter, so a batch stays within it. *)
LEMMA NodeKeeps ==
  ASSUME PipeInv, NodeStep
  PROVE  PipeInv'
<1> USE PipeConstants
<1>1. PICK t \in Blocks : NodeGrows(t) \/ NodeReorganises(t)
  BY DEF NodeStep
<1>2. UNCHANGED <<index, current, sent, blocks, results, fet, prc, rst>>
  BY <1>1 DEF NodeStep, NodeGrows, NodeReorganises
<1>3. best' = t /\ best \in Blocks /\ Height[best] \in Nat /\ Height[t] \in Nat
  BY <1>1 DEF NodeGrows, NodeReorganises, PipeInv, RestInv, Heights
<1>4. Height[best] <= Height[best']
  <2>1. CASE NodeGrows(t)
    <3>1. Parent[t] = best /\ Parent[t] # NoBlock
      BY <1>3, <2>1 DEF NodeGrows
    <3>2. Height[t] # 0
      BY <3>1, ChainAssumption
    <3>3. Height[Parent[t]] = Height[t] - 1
      BY <3>2, ChainAssumption
    <3> QED
      BY <1>3, <3>1, <3>3
  <2>2. CASE NodeReorganises(t)
    BY <1>3, <2>2 DEF NodeReorganises
  <2> QED
    BY <1>1, <2>1, <2>2
<1>5. FetcherType' /\ BatchInv'
  BY <1>2, <1>3, <1>4, FetcherFrame DEF PipeInv
<1>6. IndexInv' /\ ProcessorInv'
  BY <1>2, IndexFrame, ProcessorFrame DEF PipeInv
<1> QED
  BY <1>2, <1>3, <1>5, <1>6 DEF PipeInv, RestInv, ChannelInv

LEMMA PipeInvKept == PipeInv /\ [PipeNext]_pipeVars => PipeInv'
<1> SUFFICES ASSUME PipeInv, [PipeNext]_pipeVars PROVE PipeInv'
  OBVIOUS
<1>1. CASE FetcherStep \/ FetchFails
  BY <1>1, FetcherQuietSteps, NearRollbackKeeps, FetchSendKeeps, FetchMarkKeeps DEF FetcherStep
<1>2. CASE ProcessorStep \/ ProcessExhausted
  BY <1>2, ProcessorKeeps
<1>3. CASE ResultStep
  BY <1>3, ResultKeeps
<1>4. CASE NodeStep
  BY <1>4, NodeKeeps
<1>5. CASE UNCHANGED pipeVars
  <2>1. UNCHANGED <<best, index, current, sent, blocks, results, fet, prc, rst>>
    BY <1>5 DEF pipeVars, index
  <2>2. IndexInv' /\ ProcessorInv'
    BY <2>1, IndexFrame, ProcessorFrame DEF PipeInv
  <2>3. RestInv' /\ ChannelInv'
    BY <2>1 DEF PipeInv, RestInv, ChannelInv
  <2>4. best \in Blocks /\ Height[best] <= Height[best']
    BY <2>1, PipeConstants DEF PipeInv, RestInv, Heights
  <2>5. FetcherType' /\ BatchInv'
    BY <2>1, <2>4, FetcherFrame DEF PipeInv
  <2> QED
    BY <2>2, <2>3, <2>5 DEF PipeInv
<1> QED
  BY <1>1, <1>2, <1>3, <1>4, <1>5 DEF PipeNext, Ended

(* The invariant of the three tasks: types, the bounds of batch and        *)
(* channel, a linked index, and a block that is being processed connects.  *)
THEOREM PipelineInvariant == PipeSpec => []PipeInv
<1>1. PipeInit => PipeInv
  BY PipeInitInv
<1>2. PipeInv /\ [PipeNext]_pipeVars => PipeInv'
  BY PipeInvKept
<1> QED
  BY <1>1, <1>2, PTL DEF PipeSpec

(* No block is ever indexed on top of one that is not its parent, whatever *)
(* the node does between a fetch, a validation and a commit, and however   *)
(* the two reorg handlers interleave with the processor.                   *)
THEOREM PipelineOneChainHolds == PipeSpec => []PipelineOneChain
<1>1. PipeInv => PipelineOneChain
  <2> SUFFICES ASSUME PipeInv, NEW h \in StartBlock + 1 .. indexed,
                      hash[h] # NoBlock, hash[h - 1] # NoBlock
               PROVE  Parent[hash[h]] = hash[h - 1]
    BY DEF PipelineOneChain
  <2>1. h \in Heights /\ h > 0
    BY PipeConstants DEF PipeInv, IndexInv, IndexType, Heights
  <2> QED
    BY <2>1 DEF PipeInv, IndexInv, Linked
<1> QED
  BY <1>1, PipelineInvariant, PTL

(* The pipeline holds one channel, one batch and one block in process.     *)
THEOREM PipelineIsBounded == PipeSpec => []InFlightBounded
<1>1. PipeInv => InFlightBounded
  <2> SUFFICES ASSUME PipeInv PROVE InFlightBounded
    OBVIOUS
  <2> USE PipeConstants
  <2> DEFINE got == DOMAIN fet.got
  <2>1. fet.lo \in Int /\ fet.hi \in Int
    BY DEF PipeInv, FetcherType, Heights
  <2>2. IsFiniteSet(got) /\ Cardinality(got) \in Nat /\ Cardinality(got) <= PrefetchSize
    <3>1. CASE got = {}
      BY <3>1, FS_EmptySet
    <3>2. CASE got # {}
      <4>1. fet.lo <= fet.hi /\ fet.hi - fet.lo < PrefetchSize /\ got \subseteq fet.lo .. fet.hi
        BY <3>2 DEF PipeInv, BatchInv
      <4>2. IsFiniteSet(fet.lo .. fet.hi)
            /\ Cardinality(fet.lo .. fet.hi) = fet.hi - fet.lo + 1
        BY <2>1, <4>1, FS_Interval
      <4>3. IsFiniteSet(got) /\ Cardinality(got) <= Cardinality(fet.lo .. fet.hi)
        BY <4>1, <4>2, FS_Subset
      <4>4. Cardinality(got) \in Nat
        BY <4>3, FS_CardinalityType
      <4> QED
        BY <2>1, <4>1, <4>2, <4>3, <4>4
    <3> QED
      BY <3>1, <3>2
  <2>3. Len(blocks) \in Nat /\ Len(blocks) <= PrefetchSize
    BY DEF PipeInv, ChannelInv
  <2> QED
    BY <2>2, <2>3 DEF InFlightBounded, InFlight, Larger
<1> QED
  BY <1>1, PipelineInvariant, PTL

-----------------------------------------------------------------------------
(***************************************************************************)
(* What holds as long as the node neither reorganises nor fails.           *)
(***************************************************************************)

(* The height that is committed next. *)
NextToIndex == IF FreshDb THEN StartBlock ELSE indexed + 1

(* The first height not in the channel yet, and not taken from it. *)
AfterSent == IF sent = Unset THEN StartBlock ELSE sent + 1
NextToSend == AfterSent + (IF fet.pc = "mark" THEN 1 ELSE 0)

InProcess == IF prc.pc \in {"guard", "commit"} THEN 1 ELSE 0
Processed == IF prc.pc \in {"store", "report"} THEN 1 ELSE 0

(* No height is missing and none is there twice between what is indexed    *)
(* and what has been sent.                                                 *)
Consecutive ==
  /\ NextToSend = NextToIndex + InProcess + Len(blocks)
  /\ \A i \in 1 .. Len(blocks) :
        Height[blocks[i]] = NextToIndex + InProcess + i - 1 /\ OnChain(blocks[i])
  /\ prc.pc \in {"guard", "commit"} =>
        Height[prc.block] = NextToIndex /\ OnChain(prc.block)
  /\ prc.pc \in {"store", "report"} => Height[prc.block] + 1 = NextToIndex

(* What the fetcher read may be old, and is never ahead. *)
FetcherBehind ==
  /\ current \in StartBlock .. NextToIndex
  /\ fet.pc = "tip" => fet.tip \in StartBlock .. NextToIndex
  /\ fet.pc \in {"check", "store", "pick"} => fet.ret \in StartBlock .. NextToIndex
  /\ fet.pc \in {"near", "check", "store", "pick"} => fet.snap = sent
  /\ fet.pc # "undo"
  /\ fet.pc \in {"get", "mark"} => fet.lo = AfterSent
  /\ \A h \in DOMAIN fet.got : OnChain(fet.got[h])

(* Only successes are reported. *)
OnlySuccesses ==
  /\ prc.pc = "report" => prc.result = "success"
  /\ prc.result \in {"none", "success"}
  /\ \A i \in 1 .. Len(results) : results[i].what = "success"
  /\ rst.pc = "recv"

Orderly == Agrees /\ Consecutive /\ FetcherBehind /\ OnlySuccesses

ProcessInv == faults \in 0 .. MaxFaults /\ exitAt \in ExitHeights /\ up \in BOOLEAN

PipeIInv == PipeInv /\ ProcessInv /\ (faults = MaxFaults => Orderly)


LEMMA PipeInitOrderly == PipeInit => PipeIInv
<1> SUFFICES ASSUME PipeInit PROVE PipeIInv
  OBVIOUS
<1> USE PipeConstants
<1>1. PipeInv
  BY PipeInitInv
<1>2. /\ faults = MaxFaults /\ exitAt \in ExitHeights /\ up = TRUE /\ MaxFaults \in Nat
      /\ indexed = 0 /\ hash = [h \in Heights |-> NoBlock] /\ 0 \in Heights
      /\ current = StartBlock /\ sent = Unset /\ blocks = <<>> /\ results = <<>>
      /\ fet = Fetcher /\ prc = Processor /\ rst = Results /\ count = 0 /\ StartBlock \in Nat
  BY LedgerAssumption DEF PipeInit, LedgerInit, Heights
<1>3. FreshDb /\ NextToIndex = StartBlock
  BY <1>2 DEF FreshDb, NextToIndex
<1>4. fet.pc = "top" /\ DOMAIN fet.got = {} /\ prc.pc = "recv" /\ prc.result = "none" /\ rst.pc = "recv"
  BY <1>2 DEF Fetcher, Processor, Results
<1>5. Agrees
  BY <1>2 DEF Agrees
<1>6. Consecutive
  BY <1>2, <1>3, <1>4 DEF Consecutive, NextToSend, AfterSent, InProcess
<1>7. FetcherBehind
  BY <1>2, <1>3, <1>4 DEF FetcherBehind
<1>8. OnlySuccesses
  BY <1>2, <1>3, <1>4 DEF OnlySuccesses, Processed
<1> QED
  BY <1>1, <1>2, <1>5, <1>6, <1>7, <1>8 DEF PipeIInv, ProcessInv, Orderly

(* What the constants and the invariant give the proofs below. *)
LEMMA OrderlyTypes ==
  ASSUME PipeInv, Orderly
  PROVE  /\ NextToIndex \in Nat /\ StartBlock \in Nat /\ StartBlock <= NextToIndex
         /\ indexed \in Nat /\ AfterSent \in Nat /\ sent \in Int
         /\ Len(blocks) \in Nat /\ blocks \in Seq(Blocks)
         /\ NextToIndex <= NextToSend
<1> USE PipeConstants
<1>1. indexed \in Nat /\ sent \in Heights \cup {Unset} /\ StartBlock \in Nat
  BY DEF PipeInv, IndexInv, IndexType, RestInv, Heights
<1>2. AfterSent \in Nat /\ sent \in Int
  BY <1>1 DEF AfterSent, Heights
<1>3. NextToIndex \in Nat
  BY <1>1 DEF NextToIndex
<1>4. StartBlock <= NextToIndex
  <2>1. current \in StartBlock .. NextToIndex
    BY DEF Orderly, FetcherBehind
  <2> QED
    BY <1>1, <1>3, <2>1
<1>5. Len(blocks) \in Nat /\ blocks \in Seq(Blocks)
  BY DEF PipeInv, ChannelInv
<1>6. NextToIndex <= NextToSend
  <2>1. NextToSend = NextToIndex + InProcess + Len(blocks) /\ InProcess \in {0, 1}
    BY DEF Orderly, Consecutive, InProcess
  <2> QED
    BY <1>3, <1>5, <2>1
<1> QED
  BY <1>1, <1>2, <1>3, <1>4, <1>5, <1>6

(* The fetcher resumes exactly where it stopped sending. *)
LEMMA FetchStartsNext ==
  ASSUME PipeInv, Orderly, NEW t \in StartBlock .. NextToIndex, fet.pc # "mark"
  PROVE  FetchStart(t, sent) = AfterSent
<1>1. NextToSend = AfterSent
  BY OrderlyTypes DEF NextToSend
<1>2. t <= AfterSent /\ StartBlock <= t /\ t \in Int /\ sent \in Int /\ AfterSent \in Nat
  BY <1>1, OrderlyTypes
<1>3. CASE sent = Unset
  BY <1>2, <1>3, OrderlyTypes DEF AfterSent, FetchStart, Larger, Unset
<1>4. CASE sent # Unset
  BY <1>2, <1>4 DEF AfterSent, FetchStart, Larger
<1> QED
  BY <1>3, <1>4

(* The steps of the fetcher that leave the index and the channel alone. *)
LEMMA FetcherQuietOrderly ==
  ASSUME PipeInv, ProcessInv, Orderly, up,
         FetchTop \/ FetchTip \/ NearLoad \/ NearCheck \/ NearStore \/ NearPick
         \/ \E h \in Heights : FetchBlock(h)
  PROVE  Orderly'
<1> USE PipeConstants
<1>1. UNCHANGED <<best, index, sent, blocks, results, prc, rst, count, exitAt>>
  BY DEF FetchTop, FetchTip, NearLoad, NearCheck, NearStore, NearPick,
         FetchBlock, fetcherOthers, index
<1>2. UNCHANGED <<indexed, hash, NextToIndex, AfterSent, InProcess, Processed>>
      /\ \A b : OnChain(b)' <=> OnChain(b)
  BY <1>1 DEF index, NextToIndex, FreshDb, AfterSent, InProcess, Processed, OnChain
<1>3. Agrees' /\ OnlySuccesses'
  BY <1>1, <1>2 DEF Orderly, Agrees, OnlySuccesses
<1>4. fet.pc # "mark" /\ fet'.pc # "mark" => Consecutive'
  BY <1>1, <1>2 DEF Orderly, Consecutive, NextToSend
<1>6. fet = [pc |-> fet.pc, tip |-> fet.tip, snap |-> fet.snap, remote |-> fet.remote,
             ret |-> fet.ret, lo |-> fet.lo, hi |-> fet.hi, got |-> fet.got]
  BY DEF PipeInv, FetcherType
<1>7. FetcherBehind /\ (fet.pc \notin {"get", "mark"} => DOMAIN fet.got = {})
  BY DEF Orderly, PipeInv, BatchInv
<1>a. DOMAIN Fetcher.got = {} /\ Fetcher.pc = "top"
  BY DEF Fetcher
<1>b. \A f : fet' = f /\ f.pc \in {"top", "near", "get"} /\ DOMAIN f.got = {}
             /\ (f.pc = "near" => f.snap = sent) /\ (f.pc = "get" => f.lo = AfterSent)
             /\ UNCHANGED <<current, up>> /\ fet.pc # "mark"
             => Orderly'
  <2> SUFFICES ASSUME fet'.pc \in {"top", "near", "get"}, DOMAIN fet'.got = {},
                      fet'.pc = "near" => fet'.snap = sent, fet'.pc = "get" => fet'.lo = AfterSent,
                      UNCHANGED <<current, up>>, fet.pc # "mark"
               PROVE  Orderly'
    OBVIOUS
  <2>1. FetcherBehind'
    BY <1>1, <1>2, <1>7 DEF FetcherBehind
  <2> QED
    BY <1>3, <1>4, <2>1 DEF Orderly
<1>8. CASE FetchTop
  <2>1. /\ fet.pc = "top" /\ current' = current
        /\ \/ exitAt # NoExit /\ indexed >= exitAt /\ fet' = fet
           \/ up' = up /\ fet' = [fet EXCEPT !.pc = "tip", !.tip = current]
    BY <1>8 DEF FetchTop
  <2>2. FetcherBehind' /\ fet'.pc # "mark"
    BY <1>1, <1>2, <1>6, <1>7, <2>1 DEF FetcherBehind
  <2> QED
    BY <1>3, <1>4, <2>1, <2>2 DEF Orderly
<1>9. CASE FetchTip
  <2> DEFINE hi == IF FetchStart(fet.tip, sent) + PrefetchSize <= Height[best] + 1
                   THEN FetchStart(fet.tip, sent) + PrefetchSize - 1 ELSE Height[best]
             near == [Fetcher EXCEPT !.pc = "near", !.snap = sent]
             get(lo) == [Fetching(lo, hi) EXCEPT !.snap = sent]
  <2>1. /\ fet.pc = "tip" /\ UNCHANGED <<current, up>>
        /\ fet' = near \/ fet' = get(FetchStart(fet.tip, sent))
    BY <1>9 DEF FetchTip
  <2>2. FetchStart(fet.tip, sent) = AfterSent
    BY <1>7, <2>1, FetchStartsNext DEF FetcherBehind
  <2>3. near.pc = "near" /\ near.snap = sent /\ DOMAIN near.got = {}
    BY DEF Fetcher
  <2> HIDE DEF hi, near
  <2>4. get(AfterSent).pc = "get" /\ get(AfterSent).lo = AfterSent /\ DOMAIN get(AfterSent).got = {}
    BY DEF Fetcher, Fetching
  <2> HIDE DEF get
  <2> QED
    BY <1>b, <2>1, <2>2, <2>3, <2>4
<1>10. CASE NearLoad
  <2>1. /\ fet.pc = "near" /\ fet' = [fet EXCEPT !.pc = "check", !.ret = current]
        /\ UNCHANGED <<current, up>>
    BY <1>10 DEF NearLoad
  <2>2. FetcherBehind' /\ fet'.pc # "mark"
    BY <1>1, <1>2, <1>6, <1>7, <2>1 DEF FetcherBehind
  <2> QED
    BY <1>3, <1>4, <2>1, <2>2 DEF Orderly
<1>11. CASE NearCheck
  <2>1. ~ ReorgDetected(fet.ret)
    <3>1. fet.ret \in 0 .. MaxHeight + 1
      BY DEF PipeInv, FetcherType
    <3> QED
      BY <3>1, NothingToUndo DEF Orderly
  <2> DEFINE pc == IF ~NearTip(Height[best], fet.ret) THEN "pick" ELSE "store"
  <2>2. /\ fet.pc = "check" /\ UNCHANGED <<current, up>>
        /\ fet' = [fet EXCEPT !.remote = Height[best], !.pc = pc, !.lo = 0]
    BY <1>11, <2>1 DEF NearCheck
  <2>3. pc \in {"pick", "store"}
    OBVIOUS
  <2> HIDE DEF pc
  <2>4. FetcherBehind' /\ fet'.pc # "mark"
    BY <1>1, <1>2, <1>6, <1>7, <2>2, <2>3 DEF FetcherBehind
  <2> QED
    BY <1>3, <1>4, <2>2, <2>4 DEF Orderly
<1>12. CASE NearStore
  <2>1. /\ fet.pc = "store" /\ fet' = [fet EXCEPT !.pc = "pick"]
        /\ current' = fet.ret /\ up' = up
    BY <1>12 DEF NearStore
  <2>2. FetcherBehind' /\ fet'.pc # "mark"
    BY <1>1, <1>2, <1>6, <1>7, <2>1 DEF FetcherBehind
  <2> QED
    BY <1>3, <1>4, <2>1, <2>2 DEF Orderly
<1>13. CASE NearPick
  <2> DEFINE get(h) == [Fetching(h, h) EXCEPT !.snap = fet.snap]
  <2>1. /\ fet.pc = "pick" /\ UNCHANGED <<current, up>>
        /\ fet' = Fetcher \/ fet' = get(FetchStart(fet.ret, fet.snap))
    BY <1>13 DEF NearPick
  <2>2. FetchStart(fet.ret, fet.snap) = AfterSent
    BY <1>7, <2>1, FetchStartsNext DEF FetcherBehind
  <2>3. get(AfterSent).pc = "get" /\ get(AfterSent).lo = AfterSent /\ DOMAIN get(AfterSent).got = {}
    BY DEF Fetcher, Fetching
  <2> HIDE DEF get
  <2> QED
    BY <1>b, <1>a, <2>1, <2>2, <2>3
<1>14. CASE \E h \in Heights : FetchBlock(h)
  <2>1. PICK h \in Heights : FetchBlock(h)
    BY <1>14
  <2> DEFINE b == Ancestry(best)[h]
             g == [x \in {h} \cup DOMAIN fet.got |-> IF x = h THEN b ELSE fet.got[x]]
  <2>2. /\ fet.pc = "get" /\ h \in fet.lo .. fet.hi
        /\ fet' = [fet EXCEPT !.got = g] /\ UNCHANGED <<current, up>>
    BY <2>1 DEF FetchBlock
  <2>3. /\ fet.hi <= Height[best] /\ fet.lo \in Heights /\ fet.hi \in Heights \cup {Unset}
        /\ best \in Blocks /\ Height[best] \in Nat
    BY <2>2 DEF PipeInv, RestInv, FetcherType, BatchInv, Heights
  <2>4. h \in 0 .. Height[best]
    BY <2>2, <2>3 DEF Heights
  <2>5. b \in Blocks /\ OnChain(b)
    BY <2>3, <2>4, AncestryFacts DEF OnChain
  <2>6. DOMAIN g = {h} \cup DOMAIN fet.got /\ g[h] = b
        /\ \A x \in DOMAIN fet.got : x # h => g[x] = fet.got[x]
    OBVIOUS
  <2> HIDE DEF g, b
  <2>7. \A x \in DOMAIN g : OnChain(g[x])
    BY <1>7, <2>5, <2>6 DEF FetcherBehind
  <2>8. FetcherBehind'
    BY <1>1, <1>2, <1>6, <1>7, <2>2, <2>7 DEF FetcherBehind
  <2>9. fet'.pc # "mark"
    BY <1>6, <2>2
  <2> QED
    BY <1>3, <1>4, <2>2, <2>8, <2>9 DEF Orderly
<1> QED
  BY <1>8, <1>9, <1>10, <1>11, <1>12, <1>13, <1>14

(* The block that is sent is the next one. *)
LEMMA FetchSendOrderly ==
  ASSUME PipeInv, Orderly, up, FetchSend
  PROVE  Orderly'
<1> USE PipeConstants
<1>1. /\ fet.pc = "get" /\ fet.lo \in DOMAIN fet.got
      /\ blocks' = Append(blocks, fet.got[fet.lo]) /\ fet' = [fet EXCEPT !.pc = "mark"]
      /\ UNCHANGED <<best, index, current, sent, up, results, prc, rst, count, exitAt>>
  BY DEF FetchSend, fetcherOthers
<1>2. UNCHANGED <<indexed, hash, NextToIndex, AfterSent, InProcess, Processed>>
      /\ \A b : OnChain(b)' <=> OnChain(b)
  BY <1>1 DEF index, NextToIndex, FreshDb, AfterSent, InProcess, Processed, OnChain
<1>3. fet = [pc |-> fet.pc, tip |-> fet.tip, snap |-> fet.snap, remote |-> fet.remote,
             ret |-> fet.ret, lo |-> fet.lo, hi |-> fet.hi, got |-> fet.got]
  BY DEF PipeInv, FetcherType
<1>4. Agrees' /\ OnlySuccesses'
  BY <1>1, <1>2 DEF Orderly, Agrees, OnlySuccesses
<1>5. FetcherBehind'
  BY <1>1, <1>2, <1>3 DEF Orderly, FetcherBehind
<1> DEFINE b == fet.got[fet.lo]
<1>6. b \in Blocks /\ Height[b] = fet.lo /\ OnChain(b) /\ fet.lo = AfterSent
  BY <1>1 DEF PipeInv, BatchInv, Orderly, FetcherBehind
<1>7. /\ blocks \in Seq(Blocks) /\ Len(blocks) \in Nat /\ AfterSent \in Nat /\ NextToIndex \in Nat
      /\ InProcess \in {0, 1}
  BY OrderlyTypes DEF InProcess
<1>8. NextToSend = AfterSent /\ NextToSend' = AfterSent + 1
  BY <1>1, <1>2, <1>3, <1>7 DEF NextToSend
<1>9. AfterSent = NextToIndex + InProcess + Len(blocks)
  BY <1>8 DEF Orderly, Consecutive
<1> HIDE DEF b
<1>10. Len(blocks') = Len(blocks) + 1 /\ blocks'[Len(blocks) + 1] = b
       /\ \A i \in 1 .. Len(blocks) : blocks'[i] = blocks[i]
  BY <1>1, <1>6, <1>7 DEF b
<1>11. ASSUME NEW i \in 1 .. Len(blocks')
       PROVE  Height[blocks'[i]] = NextToIndex + InProcess + i - 1 /\ OnChain(blocks'[i])
  <2>1. CASE i = Len(blocks) + 1
    BY <1>6, <1>7, <1>9, <1>10, <2>1
  <2>2. CASE i # Len(blocks) + 1
    <3>1. i \in 1 .. Len(blocks)
      BY <1>7, <1>10, <2>2
    <3> QED
      BY <1>10, <3>1 DEF Orderly, Consecutive
  <2> QED
    BY <2>1, <2>2
<1>12. NextToSend' = NextToIndex + InProcess + Len(blocks')
  BY <1>7, <1>8, <1>9, <1>10
<1>13. Consecutive'
  BY <1>1, <1>2, <1>11, <1>12 DEF Orderly, Consecutive
<1> QED
  BY <1>4, <1>5, <1>13 DEF Orderly

(* The watermark follows the block that was sent. *)
LEMMA FetchMarkOrderly ==
  ASSUME PipeInv, Orderly, up, FetchMark
  PROVE  Orderly'
<1> USE PipeConstants
<1>1. /\ fet.pc = "mark" /\ sent' = Larger(sent, fet.lo)
      /\ UNCHANGED <<best, index, current, up, blocks, results, prc, rst, count, exitAt>>
  BY DEF FetchMark, fetcherOthers
<1>2. UNCHANGED <<indexed, hash, NextToIndex, InProcess, Processed>>
      /\ \A b : OnChain(b)' <=> OnChain(b)
  BY <1>1 DEF index, NextToIndex, FreshDb, InProcess, Processed, OnChain
<1>3. fet = [pc |-> fet.pc, tip |-> fet.tip, snap |-> fet.snap, remote |-> fet.remote,
             ret |-> fet.ret, lo |-> fet.lo, hi |-> fet.hi, got |-> fet.got]
  BY DEF PipeInv, FetcherType
<1>4. Agrees' /\ OnlySuccesses'
  BY <1>1, <1>2 DEF Orderly, Agrees, OnlySuccesses
<1>5. fet.lo = AfterSent /\ fet.lo \in Nat /\ sent \in Int
  BY <1>1, OrderlyTypes DEF Orderly, FetcherBehind
<1>6. sent' = fet.lo
  BY <1>1, <1>5, OrderlyTypes DEF AfterSent, Larger, Unset
<1>7. AfterSent' = fet.lo + 1
  BY <1>5, <1>6 DEF AfterSent, Unset
<1>8. /\ fet'.pc \in {"top", "get"} /\ (fet'.pc = "get" => fet'.lo = fet.lo + 1)
      /\ \A h \in DOMAIN fet'.got : h \in DOMAIN fet.got /\ fet'.got[h] = fet.got[h]
  <2>1. CASE fet.lo = fet.hi
    BY <2>1 DEF FetchMark, Fetcher
  <2>2. CASE fet.lo # fet.hi
    <3> DEFINE g == [h \in (DOMAIN fet.got) \ {fet.lo} |-> fet.got[h]]
    <3>1. fet' = [fet EXCEPT !.pc = "get", !.lo = fet.lo + 1, !.got = g]
      BY <2>2 DEF FetchMark
    <3>2. \A h \in DOMAIN g : h \in DOMAIN fet.got /\ g[h] = fet.got[h]
      OBVIOUS
    <3> HIDE DEF g
    <3>3. fet'.pc = "get" /\ fet'.lo = fet.lo + 1 /\ fet'.got = g
      BY <1>3, <3>1
    <3> QED
      BY <3>2, <3>3
  <2> QED
    BY <2>1, <2>2
<1>9. FetcherBehind'
  BY <1>1, <1>2, <1>7, <1>8 DEF Orderly, FetcherBehind
<1>10. NextToSend' = NextToSend
  BY <1>1, <1>5, <1>7, <1>8 DEF NextToSend
<1>11. Consecutive'
  BY <1>1, <1>2, <1>10 DEF Orderly, Consecutive
<1> QED
  BY <1>4, <1>9, <1>11 DEF Orderly

(* The block that is received connects, is not stale, is accepted, and     *)
(* moves everything behind it up by one.                                   *)
LEMMA ProcessorOrderly ==
  ASSUME PipeInv, Orderly, up, ProcessorStep
  PROVE  Orderly'
<1> USE PipeConstants
<1>1. UNCHANGED <<best, sent, fet, rst, up, count, exitAt, NextToSend, AfterSent>>
      /\ \A b : OnChain(b)' <=> OnChain(b)
  BY DEF ProcessorStep, ProcessRecv, ProcessGuard, ProcessCommit, ProcessStore,
         ProcessReport, processorOthers, NextToSend, AfterSent, OnChain
<1>3. prc = [pc |-> prc.pc, block |-> prc.block, result |-> prc.result]
  BY DEF PipeInv, ProcessorInv
<1>4. /\ NextToIndex \in Nat /\ StartBlock \in Nat /\ blocks \in Seq(Blocks) /\ Len(blocks) \in Nat
      /\ indexed \in Nat /\ best \in Blocks
  BY OrderlyTypes DEF PipeInv, RestInv
<1>5. /\ Agrees /\ Consecutive /\ FetcherBehind /\ OnlySuccesses
  BY DEF Orderly
<1>6. UNCHANGED index => UNCHANGED <<indexed, hash, NextToIndex>> /\ Agrees'
  BY <1>1, <1>5 DEF index, NextToIndex, FreshDb, Agrees
<1>7. UNCHANGED <<index, current>> => FetcherBehind'
  BY <1>1, <1>5, <1>6 DEF FetcherBehind
<1>8. CASE ProcessRecv
  <2>1. /\ prc.pc = "recv" /\ blocks # <<>> /\ blocks' = Tail(blocks)
        /\ UNCHANGED <<index, current, results>>
    BY <1>8 DEF ProcessRecv
  <2> DEFINE b == Head(blocks)
  <2>2. /\ b = blocks[1] /\ b \in Blocks /\ 1 \in 1 .. Len(blocks)
        /\ Len(blocks') = Len(blocks) - 1
        /\ \A i \in 1 .. Len(blocks') : blocks'[i] = blocks[i + 1] /\ i + 1 \in 1 .. Len(blocks)
    BY <1>4, <2>1
  <2>3. InProcess = 0 /\ Processed = 0
    BY <2>1 DEF InProcess, Processed
  <2>4. Height[b] = NextToIndex /\ OnChain(b)
    <3>1. Height[blocks[1]] = NextToIndex + InProcess + 1 - 1 /\ OnChain(blocks[1])
      BY <1>5, <2>2 DEF Consecutive
    <3> QED
      BY <1>4, <2>2, <2>3, <3>1
  <2>5. Connects(b)
    BY <1>4, <1>5, <2>2, <2>4, OnChainConnects
  <2>6. prc' = [pc |-> "guard", block |-> b, result |-> "none"]
    BY <1>8, <2>5 DEF ProcessRecv
  <2> HIDE DEF b
  <2>7. InProcess' = 1 /\ Processed' = 0
    BY <2>6 DEF InProcess, Processed
  <2>8. \A i \in 1 .. Len(blocks') :
           Height[blocks'[i]] = NextToIndex + 1 + i - 1 /\ OnChain(blocks'[i])
    <3> SUFFICES ASSUME NEW i \in 1 .. Len(blocks')
                 PROVE  Height[blocks'[i]] = NextToIndex + 1 + i - 1 /\ OnChain(blocks'[i])
      OBVIOUS
    <3>1. blocks'[i] = blocks[i + 1] /\ i + 1 \in 1 .. Len(blocks)
      BY <2>2
    <3>2. Height[blocks[i + 1]] = NextToIndex + 0 + (i + 1) - 1 /\ OnChain(blocks[i + 1])
      BY <1>5, <2>3, <3>1 DEF Consecutive
    <3> QED
      BY <1>4, <3>1, <3>2
  <2>9. NextToSend = NextToIndex + 1 + Len(blocks')
    BY <1>4, <1>5, <2>2, <2>3 DEF Consecutive
  <2>10. Consecutive'
    BY <1>1, <1>6, <2>1, <2>4, <2>6, <2>7, <2>8, <2>9 DEF Consecutive
  <2>11. OnlySuccesses'
    BY <1>1, <1>5, <1>6, <2>1, <2>3, <2>6, <2>7 DEF OnlySuccesses
  <2> QED
    BY <1>6, <1>7, <2>1, <2>10, <2>11 DEF Orderly
<1>9. CASE ProcessGuard
  <2>1. prc.pc = "guard" /\ UNCHANGED <<index, current, blocks, results>>
    BY <1>9 DEF ProcessGuard
  <2>2. Height[prc.block] = NextToIndex /\ current <= NextToIndex /\ current \in Int
    BY <1>4, <1>5, <2>1 DEF Consecutive, FetcherBehind
  <2>3. ~ (Height[prc.block] < current)
    BY <1>4, <2>2
  <2>4. prc' = [pc |-> "commit", block |-> prc.block, result |-> prc.result]
    BY <1>3, <1>9, <2>3 DEF ProcessGuard
  <2>5. UNCHANGED <<InProcess, Processed>>
    BY <2>1, <2>4 DEF InProcess, Processed
  <2>6. Consecutive'
    BY <1>1, <1>5, <1>6, <2>1, <2>4, <2>5 DEF Consecutive
  <2>7. OnlySuccesses'
    BY <1>1, <1>5, <1>6, <2>1, <2>4, <2>5 DEF OnlySuccesses
  <2> QED
    BY <1>6, <1>7, <2>1, <2>6, <2>7 DEF Orderly
<1>10. CASE ProcessCommit
  <2> DEFINE b == prc.block
  <2>1. prc.pc = "commit" /\ UNCHANGED <<current, blocks, results>>
    BY <1>10 DEF ProcessCommit
  <2>2. b \in Blocks /\ Height[b] = NextToIndex /\ OnChain(b)
    BY <1>5, <2>1 DEF PipeInv, ProcessorInv, Consecutive
  <2>3. Accepts(Height[b])
    BY <2>2 DEF Accepts, NextToIndex
  <2>4. Commit(b) /\ prc' = [pc |-> "store", block |-> prc.block, result |-> prc.result]
    BY <1>3, <1>10, <2>3 DEF ProcessCommit
  <2>5. hash \in [Heights -> Blocks \cup {NoBlock}]
    BY DEF PipeInv, IndexInv, IndexType
  <2>6. Agrees'
    BY <1>1, <1>5, <2>2, <2>4, <2>5, CommitAgrees
  <2>7. NextToIndex' = NextToIndex + 1
    <3>1. indexed' = Height[b] /\ hash'[Height[b]] = b /\ b # NoBlock
      BY <2>2, <2>4, <2>5 DEF Commit
    <3>2. ~ FreshDb'
      BY <3>1 DEF FreshDb
    <3> QED
      BY <2>2, <3>1, <3>2 DEF NextToIndex
  <2>8. InProcess = 1 /\ InProcess' = 0 /\ Processed = 0 /\ Processed' = 1
    BY <2>1, <2>4 DEF InProcess, Processed
  <2>9. NextToSend = NextToIndex + 1 + 0 + Len(blocks)
    BY <1>4, <1>5, <2>8 DEF Consecutive
  <2>10. \A i \in 1 .. Len(blocks) :
            Height[blocks[i]] = NextToIndex + 1 + 0 + i - 1 /\ OnChain(blocks[i])
    BY <1>4, <1>5, <2>8 DEF Consecutive
  <2>11. Consecutive'
    BY <1>1, <1>4, <2>1, <2>2, <2>4, <2>7, <2>8, <2>9, <2>10 DEF Consecutive
  <2>12. \A x \in StartBlock .. NextToIndex : x \in StartBlock .. NextToIndex'
    BY <1>4, <2>7
  <2>13. FetcherBehind'
    BY <1>1, <1>5, <2>1, <2>12 DEF FetcherBehind
  <2>14. OnlySuccesses'
    BY <1>1, <1>5, <2>1, <2>4, <2>8 DEF OnlySuccesses
  <2> QED
    BY <2>6, <2>11, <2>13, <2>14 DEF Orderly
<1>11. CASE ProcessStore
  <2>1. /\ prc.pc = "store" /\ current' = Height[prc.block] + 1
        /\ prc' = [pc |-> "report", block |-> prc.block, result |-> "success"]
        /\ UNCHANGED <<index, blocks, results>>
    BY <1>3, <1>11 DEF ProcessStore, Reports
  <2>2. current' = NextToIndex
    BY <1>5, <2>1 DEF Consecutive
  <2>3. UNCHANGED <<InProcess, Processed>>
    BY <2>1 DEF InProcess, Processed
  <2>4. Consecutive'
    BY <1>1, <1>5, <1>6, <2>1, <2>3 DEF Consecutive
  <2>5. current' \in StartBlock .. NextToIndex
    BY <1>4, <2>2, OrderlyTypes
  <2>6. FetcherBehind'
    BY <1>1, <1>5, <1>6, <2>1, <2>5 DEF FetcherBehind
  <2>7. OnlySuccesses'
    BY <1>1, <1>5, <1>6, <2>1, <2>3 DEF OnlySuccesses
  <2> QED
    BY <1>6, <2>1, <2>4, <2>6, <2>7 DEF Orderly
<1>12. CASE ProcessReport
  <2> DEFINE r == [h |-> Height[prc.block], what |-> prc.result]
             T == [h : Heights, what : Outcomes]
  <2>1. /\ prc.pc = "report" /\ prc' = Processor /\ results' = Append(results, r)
        /\ UNCHANGED <<index, current, blocks>>
    BY <1>12 DEF ProcessReport
  <2>2. r \in T /\ r.what = "success"
    BY <1>5, <2>1 DEF PipeInv, ProcessorInv, OnlySuccesses
  <2>3. results \in Seq(T)
    BY DEF PipeInv, ChannelInv
  <2> HIDE DEF r, T
  <2>4. /\ Len(results) \in Nat /\ Len(results') = Len(results) + 1
        /\ results'[Len(results) + 1] = r
        /\ \A i \in 1 .. Len(results) : results'[i] = results[i]
    BY <2>1, <2>2, <2>3
  <2>5. \A i \in 1 .. Len(results') : results'[i].what = "success"
    <3> SUFFICES ASSUME NEW i \in 1 .. Len(results') PROVE results'[i].what = "success"
      OBVIOUS
    <3>1. i = Len(results) + 1 \/ i \in 1 .. Len(results)
      BY <2>4
    <3> QED
      BY <1>5, <2>2, <2>4, <3>1 DEF OnlySuccesses
  <2>6. InProcess = 0 /\ InProcess' = 0 /\ Processed = 1 /\ Processed' = 0
        /\ prc'.pc = "recv" /\ prc'.result = "none"
    BY <2>1 DEF InProcess, Processed, Processor
  <2>7. Consecutive'
    BY <1>1, <1>5, <1>6, <2>1, <2>6 DEF Consecutive
  <2>9. OnlySuccesses'
    BY <1>1, <1>5, <1>6, <2>1, <2>5, <2>6 DEF OnlySuccesses
  <2> QED
    BY <1>6, <1>7, <2>1, <2>7, <2>9 DEF Orderly
<1> QED
  BY <1>8, <1>9, <1>10, <1>11, <1>12 DEF ProcessorStep

(* The result task only ever counts successes. *)
LEMMA ResultOrderly ==
  ASSUME PipeInv, ProcessInv, Orderly, up, ResultStep
  PROVE  Orderly'
<1> USE PipeConstants
<1>1. rst.pc = "recv" /\ OnlySuccesses
  BY DEF Orderly, OnlySuccesses
<1>2. ResultRecv
  BY <1>1 DEF ResultStep, ResultWalk, ResultRollback, ResultReset
<1>3. /\ results # <<>> /\ results' = Tail(results)
      /\ UNCHANGED <<best, current, blocks, fet, prc, exitAt, index, sent>>
  BY <1>2 DEF ResultRecv, resultOthers
<1>4. /\ UNCHANGED <<indexed, hash, NextToIndex, NextToSend, AfterSent, InProcess, Processed>>
      /\ \A b : OnChain(b)' <=> OnChain(b)
  BY <1>3 DEF index, NextToIndex, FreshDb, NextToSend, AfterSent, InProcess, Processed, OnChain
<1>5. Agrees' /\ Consecutive' /\ FetcherBehind'
  BY <1>3, <1>4 DEF Orderly, Agrees, Consecutive, FetcherBehind
<1> DEFINE T == [h : Heights, what : Outcomes]
<1>6. results \in Seq(T)
  BY DEF PipeInv, ChannelInv
<1> HIDE DEF T
<1>7. /\ Head(results) = results[1] /\ Len(results) \in Nat /\ Len(results) >= 1
      /\ Len(results') = Len(results) - 1
      /\ \A i \in 1 .. Len(results') : results'[i] = results[i + 1] /\ i + 1 \in 1 .. Len(results)
  BY <1>3, <1>6
<1>8. results[1].what = "success"
  BY <1>1, <1>7 DEF OnlySuccesses
<1>9. rst' = rst
  BY <1>2, <1>7, <1>8 DEF ResultRecv
<1>10. OnlySuccesses'
  BY <1>1, <1>3, <1>4, <1>7, <1>9 DEF OnlySuccesses
<1> QED
  BY <1>5, <1>10 DEF Orderly

(* A growing node keeps every block in flight on its chain. *)
LEMMA NodeGrowsOrderly ==
  ASSUME PipeInv, Orderly, up, NEW t \in Blocks, NodeGrows(t),
         UNCHANGED <<exitAt, up, current, sent, blocks, results, fet, prc, rst, count>>
  PROVE  Orderly'
<1> USE PipeConstants
<1>1. best \in Blocks /\ hash \in [Heights -> Blocks \cup {NoBlock}]
  BY DEF PipeInv, RestInv, IndexInv, IndexType
<1>2. /\ Agrees' /\ Height[best'] = Height[best] + 1
      /\ \A h \in 0 .. Height[best] : Ancestry(best)[h] = Ancestry(best')[h]
  BY <1>1, AgreesGrows DEF Orderly
<1>3. UNCHANGED index
  BY DEF NodeGrows
<1>4. ASSUME NEW b \in Blocks, OnChain(b) PROVE OnChain(b)'
  BY <1>1, <1>2, <1>4 DEF OnChain, Heights
<1>5. UNCHANGED <<indexed, hash, NextToIndex, NextToSend, AfterSent, InProcess, Processed>>
  BY <1>3 DEF index, NextToIndex, FreshDb, NextToSend, AfterSent, InProcess, Processed
<1>6. \A i \in 1 .. Len(blocks) : blocks[i] \in Blocks
  BY DEF PipeInv, ChannelInv
<1>7. prc.pc \in {"guard", "commit"} => prc.block \in Blocks
  BY DEF PipeInv, ProcessorInv
<1>8. Consecutive'
  BY <1>4, <1>5, <1>6, <1>7 DEF Orderly, Consecutive
<1>9. FetcherBehind'
  BY <1>4, <1>5 DEF Orderly, FetcherBehind, PipeInv, BatchInv
<1>10. OnlySuccesses'
  BY <1>5 DEF Orderly, OnlySuccesses
<1> QED
  BY <1>2, <1>8, <1>9, <1>10 DEF Orderly

LEMMA PipeIInvKept == PipeIInv /\ [PipeNext]_pipeVars => PipeIInv'
<1> SUFFICES ASSUME PipeIInv, [PipeNext]_pipeVars PROVE PipeIInv'
  OBVIOUS
<1> USE LedgerAssumption DEF PipeIInv
<1>1. PipeInv'
  BY PipeInvKept
<1>2. faults \in 0 .. MaxFaults /\ MaxFaults \in Nat /\ exitAt \in ExitHeights /\ up \in BOOLEAN
  BY DEF ProcessInv
<1>a. ASSUME UNCHANGED faults, exitAt' \in ExitHeights, up' \in BOOLEAN PROVE ProcessInv'
  BY <1>2, <1>a DEF ProcessInv
<1>b. ASSUME Fault, UNCHANGED <<exitAt, up>> PROVE PipeIInv'
  <2>1. faults' \in 0 .. MaxFaults /\ faults' # MaxFaults
    BY <1>2, <1>b DEF Fault
  <2>2. ProcessInv'
    BY <1>2, <1>b, <2>1 DEF ProcessInv
  <2> QED
    BY <1>1, <2>1, <2>2
<1>3. CASE up /\ FetcherStep
  <2>1. UNCHANGED <<faults, exitAt>> /\ up' \in BOOLEAN
    BY <1>2, <1>3 DEF FetcherStep, FetchTop, FetchTip, NearLoad, NearCheck, NearRollback,
       NearStore, NearPick, FetchBlock, FetchSend, FetchMark, fetcherOthers
  <2>2. NearRollback => ~ Orderly
    BY DEF NearRollback, Orderly, FetcherBehind
  <2>3. Orderly => Orderly'
    BY <1>3, <2>2, FetcherQuietOrderly, FetchSendOrderly, FetchMarkOrderly DEF FetcherStep
  <2> QED
    BY <1>1, <1>2, <1>a, <2>1, <2>3
<1>4. CASE up /\ FetchFails
  BY <1>4, <1>b DEF FetchFails, fetcherOthers
<1>5. CASE up /\ ProcessorStep
  <2>1. UNCHANGED <<faults, exitAt, up>>
    BY <1>5 DEF ProcessorStep, ProcessRecv, ProcessGuard, ProcessCommit, ProcessStore,
       ProcessReport, processorOthers
  <2> QED
    BY <1>1, <1>2, <1>5, <1>a, <2>1, ProcessorOrderly
<1>6. CASE up /\ ProcessExhausted
  BY <1>6, <1>b DEF ProcessExhausted, processorOthers
<1>7. CASE up /\ ResultStep
  <2>1. UNCHANGED <<faults, exitAt>> /\ up' \in BOOLEAN
    BY <1>2, <1>7 DEF ResultStep, ResultRecv, ResultWalk, ResultRollback, ResultReset,
       Counted, resultOthers
  <2> QED
    BY <1>1, <1>2, <1>7, <1>a, <2>1, ResultOrderly
<1>8. CASE up /\ NodeStep
  <2>1. PICK t \in Blocks : NodeGrows(t) \/ NodeReorganises(t)
    BY <1>8 DEF NodeStep
  <2>2. UNCHANGED <<exitAt, up, current, sent, blocks, results, fet, prc, rst, count>>
    BY <1>8 DEF NodeStep
  <2>3. CASE NodeGrows(t)
    <3>1. UNCHANGED faults
      BY <2>3 DEF NodeGrows
    <3> QED
      BY <1>1, <1>2, <1>8, <1>a, <2>2, <2>3, <3>1, NodeGrowsOrderly
  <2>4. CASE NodeReorganises(t)
    BY <1>b, <2>2, <2>4 DEF NodeReorganises
  <2> QED
    BY <2>1, <2>3, <2>4
<1>9. CASE UNCHANGED pipeVars
  <2>1. UNCHANGED <<best, faults, indexed, hash, exitAt, up, current, sent, blocks, results,
                    fet, prc, rst, count>>
    BY <1>9 DEF pipeVars
  <2>2. Orderly => Orderly'
    BY <2>1 DEF Orderly, Agrees, Consecutive, FetcherBehind, OnlySuccesses, NextToIndex,
       FreshDb, NextToSend, AfterSent, InProcess, Processed, OnChain
  <2> QED
    BY <1>1, <1>2, <1>a, <2>1, <2>2
<1> QED
  BY <1>3, <1>4, <1>5, <1>6, <1>7, <1>8, <1>9 DEF PipeNext, Ended

LEMMA PipelineIsOrderly == PipeSpec => []PipeIInv
<1>1. PipeInit => PipeIInv
  BY PipeInitOrderly
<1>2. PipeIInv /\ [PipeNext]_pipeVars => PipeIInv'
  BY PipeIInvKept
<1> QED
  BY <1>1, <1>2, PTL DEF PipeSpec

(* Unless the node reorganises or a call fails, commit_atomic never sees a *)
(* block twice or out of order: heights are fetched, queued and committed  *)
(* consecutively, however the fetcher's stale store of current_height      *)
(* interleaves with the processor's.                                       *)
THEOREM PipelineRaisesNoError == PipeSpec => []NoErrorWithoutCause
<1>1. PipeIInv => NoErrorWithoutCause
  BY DEF PipeIInv, Orderly, OnlySuccesses, NoErrorWithoutCause
<1> QED
  BY <1>1, PipelineIsOrderly, PTL

-----------------------------------------------------------------------------
(***************************************************************************)
(* What is counted: a success is a block of the index, one that was rolled *)
(* back, or one that was skipped as stale.                                 *)
(***************************************************************************)

Successes == {i \in 1 .. Len(results) : results[i].what = "success"}

(* A success that is not in the channel yet. *)
Unreported ==
  IF prc.pc = "store" \/ (prc.pc = "report" /\ prc.result = "success") THEN 1 ELSE 0

(* How often a block was indexed or skipped, at least. *)
Recorded == indexed + again + (IF hash[0] = NoBlock THEN 0 ELSE 1)

NeverOvercounts ==
  /\ count \in Nat /\ again \in Nat
  /\ count + Cardinality(Successes) + Unreported <= Recorded

Stopped == ~up => exitAt \in Nat /\ indexed + 1 + again >= exitAt

CountInv == NeverOvercounts /\ Stopped

(* The types the counting needs. *)
LEMMA CountTypes ==
  ASSUME PipeInv
  PROVE  /\ indexed \in Nat /\ hash \in [Heights -> Blocks \cup {NoBlock}] /\ 0 \in Heights
         /\ Len(results) \in Nat
         /\ IsFiniteSet(Successes) /\ Cardinality(Successes) \in Nat
         /\ Unreported \in {0, 1}
<1>1. indexed \in Nat /\ hash \in [Heights -> Blocks \cup {NoBlock}] /\ 0 \in Heights
  BY PipeConstants DEF PipeInv, IndexInv, IndexType, Heights
<1>2. Len(results) \in Nat
  BY DEF PipeInv, ChannelInv
<1>3. IsFiniteSet(1 .. Len(results)) /\ Successes \subseteq 1 .. Len(results)
  BY <1>2, FS_Interval DEF Successes
<1>4. IsFiniteSet(Successes) /\ Cardinality(Successes) \in Nat
  BY <1>3, FS_Subset, FS_CardinalityType
<1> QED
  BY <1>1, <1>2, <1>4 DEF Unreported

(* A result that joins the channel is at most one more success ... *)
LEMMA AppendedSuccess ==
  ASSUME PipeInv, NEW r \in [h : Heights, what : Outcomes], results' = Append(results, r)
  PROVE  /\ Cardinality(Successes') \in Nat
         /\ Cardinality(Successes')
              <= Cardinality(Successes) + (IF r.what = "success" THEN 1 ELSE 0)
<1> DEFINE n == Len(results)
<1>1. n \in Nat /\ IsFiniteSet(Successes) /\ Cardinality(Successes) \in Nat
  BY CountTypes
<1>2. /\ Len(results') = n + 1 /\ results'[n + 1] = r
      /\ \A i \in 1 .. n : results'[i] = results[i]
  BY <1>1 DEF PipeInv, ChannelInv
<1>3. Successes' = IF r.what = "success" THEN Successes \cup {n + 1} ELSE Successes
  <2>1. \A i \in 1 .. n + 1 : i = n + 1 \/ i \in 1 .. n
    BY <1>1
  <2>2. n + 1 \in 1 .. n + 1 /\ \A i \in 1 .. n : i \in 1 .. n + 1 /\ i # n + 1
    BY <1>1
  <2> QED
    BY <1>2, <2>1, <2>2 DEF Successes
<1>4. Cardinality(Successes \cup {n + 1}) \in {Cardinality(Successes), Cardinality(Successes) + 1}
  BY <1>1, FS_AddElement
<1> QED
  BY <1>1, <1>3, <1>4

(* ... and one that leaves it takes its success with it. *)
LEMMA TakenSuccess ==
  ASSUME PipeInv, results # <<>>, results' = Tail(results)
  PROVE  /\ Cardinality(Successes') \in Nat
         /\ Cardinality(Successes') + (IF Head(results).what = "success" THEN 1 ELSE 0)
              <= Cardinality(Successes)
<1> DEFINE left == Successes \ {1}
           f == [i \in Successes' |-> i + 1]
<1>1. IsFiniteSet(Successes) /\ Cardinality(Successes) \in Nat
  BY CountTypes
<1>2. /\ Len(results) \in Nat /\ Len(results) >= 1 /\ Head(results) = results[1]
      /\ Len(results') = Len(results) - 1
      /\ \A i \in 1 .. Len(results') : results'[i] = results[i + 1]
  BY DEF PipeInv, ChannelInv
<1>3. /\ IsFiniteSet(left)
      /\ Cardinality(left) = IF 1 \in Successes THEN Cardinality(Successes) - 1
                             ELSE Cardinality(Successes)
  BY <1>1, FS_RemoveElement
<1>4. 1 \in Successes <=> Head(results).what = "success"
  BY <1>2 DEF Successes
<1>5. \A i \in Successes' : i \in Nat /\ i + 1 \in left
  BY <1>2 DEF Successes
<1> HIDE DEF left
<1>6. f \in Injection(Successes', left)
  <2>1. f \in [Successes' -> left]
    BY <1>5
  <2>2. \A i, j \in Successes' : f[i] = f[j] => i = j
    BY <1>5
  <2> QED
    BY <2>1, <2>2 DEF Injection, IsInjective
<1>7. IsFiniteSet(Successes') /\ Cardinality(Successes') <= Cardinality(left)
  BY <1>3, <1>6, FS_Injection
<1>8. Cardinality(Successes') \in Nat
  BY <1>7, FS_CardinalityType
<1> QED
  BY <1>1, <1>3, <1>4, <1>7, <1>8

LEMMA CountInit == PipeInit => CountInv
<1> SUFFICES ASSUME PipeInit PROVE CountInv
  OBVIOUS
<1>1. /\ count = 0 /\ again = 0 /\ results = <<>> /\ prc.pc = "recv" /\ up = TRUE
      /\ indexed = 0 /\ hash = [h \in Heights |-> NoBlock] /\ 0 \in Heights
  BY PipeConstants DEF PipeInit, LedgerInit, Processor, Heights
<1>2. Successes = {}
  BY <1>1 DEF Successes
<1>3. Cardinality(Successes) = 0
  BY <1>2, FS_EmptySet
<1> QED
  BY <1>1, <1>3 DEF CountInv, NeverOvercounts, Stopped, Recorded, Unreported

(* A step that takes no result needs a new record for a new success.       *)
LEMMA CountFrame ==
  ASSUME PipeInv, CountInv, up, up', UNCHANGED <<results, count>>,
         Unreported' \in Nat, again' \in Nat, Recorded' \in Nat, Recorded \in Nat,
         NEW d \in {0, 1}, Recorded' >= Recorded + d, Unreported' <= Unreported + d
  PROVE  CountInv'
<1>1. Successes' = Successes
  BY DEF Successes
<1>2. Cardinality(Successes) \in Nat /\ Unreported \in {0, 1} /\ count \in Nat
  BY CountTypes DEF CountInv, NeverOvercounts
<1>3. count + Cardinality(Successes) + Unreported <= Recorded
  BY DEF CountInv, NeverOvercounts
<1>4. count + Cardinality(Successes) + Unreported' <= Recorded'
  <2> DEFINE n == count + Cardinality(Successes)
  <2>1. PICK r0 \in Nat, r1 \in Nat, u0 \in Nat, u1 \in Nat :
               r0 = Recorded /\ r1 = Recorded' /\ u0 = Unreported /\ u1 = Unreported'
    BY <1>2
  <2>2. n \in Nat /\ n + u0 <= r0 /\ r1 >= r0 + d /\ u1 <= u0 + d
    BY <1>2, <1>3, <2>1
  <2> HIDE DEF n
  <2>3. n + u1 <= r1
    BY <2>2
  <2> QED
    BY <2>1, <2>3 DEF n
<1>5. NeverOvercounts'
  BY <1>1, <1>2, <1>4 DEF NeverOvercounts
<1> QED
  BY <1>5 DEF CountInv, Stopped

(* A rollback counts what it removes. *)
LEMMA UndoCounts ==
  ASSUME PipeInv, CountInv, NEW r \in Heights, Undo(r)
  PROVE  again' \in Nat /\ Recorded \in Nat /\ Recorded' \in Nat /\ Recorded' >= Recorded
<1>1. /\ indexed \in Nat /\ hash \in [Heights -> Blocks \cup {NoBlock}] /\ 0 \in Heights
      /\ again \in Nat /\ r \in Nat
  BY CountTypes DEF CountInv, NeverOvercounts, Heights
<1>2. /\ indexed' = r /\ again' = again + SatSub(indexed, r)
      /\ hash' = [h \in Heights |-> IF h \in r + 1 .. indexed THEN NoBlock ELSE hash[h]]
  BY DEF Undo, RollbackTo
<1>3. hash'[0] = hash[0]
  BY <1>1, <1>2
<1> QED
  BY <1>1, <1>2, <1>3 DEF Recorded, SatSub

(* The fetcher counts nothing; it stops the process only at that height.   *)
LEMMA FetcherCounts ==
  ASSUME PipeInv, ProcessInv, CountInv, up, FetcherStep \/ FetchFails
  PROVE  CountInv'
<1>1. UNCHANGED <<results, count, prc, exitAt>>
  BY DEF FetcherStep, FetchTop, FetchTip, NearLoad, NearCheck, NearRollback, NearStore,
     NearPick, FetchBlock, FetchSend, FetchMark, FetchFails, fetcherOthers
<1>2. Unreported' = Unreported /\ Unreported \in Nat /\ Successes' = Successes
  BY <1>1, CountTypes DEF Unreported, Successes
<1>3. again \in Nat /\ Recorded \in Nat
  BY CountTypes DEF CountInv, NeverOvercounts, Recorded
<1>4. ASSUME UNCHANGED <<index, again>> PROVE Recorded' = Recorded
  BY <1>4 DEF Recorded, index
<1>5. CASE NearRollback
  <2>1. fet.lo \in Heights /\ Undo(fet.lo) /\ up' = up
    BY <1>5 DEF NearRollback, PipeInv, FetcherType
  <2>2. again' \in Nat /\ Recorded' \in Nat /\ Recorded' >= Recorded
    BY <2>1, UndoCounts
  <2> QED
    <3>1. Recorded' >= Recorded + 0 /\ Unreported' <= Unreported + 0
      BY <1>2, <1>3, <2>2
    <3> QED
      BY <1>1, <1>2, <1>3, <2>1, <2>2, <3>1, CountFrame
<1>6. CASE FetchTop
  <2>1. UNCHANGED <<index, again>>
        /\ (up' = up \/ (up' = FALSE /\ exitAt # NoExit /\ indexed >= exitAt))
    BY <1>6 DEF FetchTop
  <2>2. up' = FALSE /\ exitAt # NoExit /\ indexed >= exitAt => Stopped'
    <3>1. exitAt # NoExit => exitAt \in Nat
      BY PipelineAssumption DEF ProcessInv
    <3>2. indexed \in Nat /\ indexed' = indexed /\ again' = again
      BY <2>1, CountTypes DEF index
    <3> QED
      BY <1>1, <1>3, <3>1, <3>2 DEF Stopped
  <2>3. NeverOvercounts'
    BY <1>1, <1>2, <1>4, <2>1 DEF CountInv, NeverOvercounts
  <2>4. up' = up => Stopped'
    BY DEF Stopped
  <2> QED
    BY <2>1, <2>2, <2>3, <2>4 DEF CountInv
<1>7. CASE FetchTip \/ NearLoad \/ NearCheck \/ NearStore \/ NearPick \/ FetchSend \/ FetchMark
           \/ FetchFails \/ \E h \in Heights : FetchBlock(h)
  <2>1. UNCHANGED <<index, again, up>>
    BY <1>7 DEF FetchTip, NearLoad, NearCheck, NearStore,
       NearPick, FetchBlock, FetchSend, FetchMark, FetchFails
  <2> QED
    BY <1>1, <1>2, <1>3, <1>4, <2>1, CountFrame
<1> QED
  BY <1>5, <1>6, <1>7 DEF FetcherStep

(* A commit is recorded, a block that is skipped too: they are the only    *)
(* successes.                                                              *)
LEMMA ProcessorCounts ==
  ASSUME PipeInv, CountInv, up, ProcessorStep \/ ProcessExhausted
  PROVE  CountInv'
<1>1. UNCHANGED <<count, exitAt, up>>
  BY DEF ProcessorStep, ProcessRecv, ProcessGuard, ProcessCommit, ProcessStore,
     ProcessReport, ProcessExhausted, processorOthers
<1>2. /\ indexed \in Nat /\ hash \in [Heights -> Blocks \cup {NoBlock}] /\ 0 \in Heights
      /\ Unreported \in {0, 1} /\ again \in Nat /\ Recorded \in Nat
  BY CountTypes DEF CountInv, NeverOvercounts, Recorded
<1>3. prc = [pc |-> prc.pc, block |-> prc.block, result |-> prc.result]
  BY DEF PipeInv, ProcessorInv
<1>4. ASSUME UNCHANGED <<index, again>> PROVE Recorded' = Recorded
  BY <1>4 DEF Recorded, index
<1>5. CASE ProcessRecv
  <2>1. Unreported' = 0 /\ UNCHANGED <<index, again, results>>
    BY <1>5 DEF ProcessRecv, Unreported
  <2> QED
    BY <1>1, <1>2, <1>4, <2>1, CountFrame
<1>6. CASE ProcessGuard
  <2>1. UNCHANGED <<index, results>> /\ prc.pc = "guard" /\ Unreported = 0
    BY <1>6 DEF ProcessGuard, Unreported
  <2>2. CASE Height[prc.block] < current
    <3>1. again' = again + 1
      BY <1>6, <2>2 DEF ProcessGuard
    <3>2. Recorded' = Recorded + 1 /\ Unreported' \in {0, 1}
      BY <1>2, <2>1, <3>1 DEF Recorded, Unreported, index
    <3> QED
      <4>1. /\ Recorded' >= Recorded + 1 /\ Unreported' <= Unreported + 1
            /\ Recorded' \in Nat /\ Unreported' \in Nat /\ again' \in Nat
        BY <1>2, <2>1, <3>1, <3>2
      <4> QED
        BY <1>1, <1>2, <2>1, <4>1, CountFrame
  <2>3. CASE ~ (Height[prc.block] < current)
    <3>1. again' = again /\ prc' = [pc |-> "commit", block |-> prc.block, result |-> prc.result]
      BY <1>3, <1>6, <2>3 DEF ProcessGuard
    <3>2. Unreported' = 0
      BY <3>1 DEF Unreported
    <3> QED
      BY <1>1, <1>2, <1>4, <2>1, <3>1, <3>2, CountFrame
  <2> QED
    BY <2>2, <2>3
<1>7. CASE ProcessCommit
  <2> DEFINE b == prc.block
  <2>1. UNCHANGED <<again, results>> /\ prc.pc = "commit" /\ Unreported = 0
    BY <1>7 DEF ProcessCommit, Unreported
  <2>2. CASE Accepts(Height[b])
    <3>1. Commit(b) /\ Unreported' \in {0, 1}
      BY <1>7, <2>2 DEF ProcessCommit, Unreported
    <3>2. b \in Blocks /\ Height[b] \in Nat /\ Height[b] \in Heights /\ b # NoBlock
      BY <2>1, PipeConstants DEF PipeInv, ProcessorInv, Heights
    <3>3. indexed' = Height[b] /\ hash' = [hash EXCEPT ![Height[b]] = b]
      BY <3>1 DEF Commit
    <3>4. CASE Height[b] = 0
      <4>1. indexed = 0 /\ hash[0] = NoBlock /\ hash'[0] # NoBlock
        BY <1>2, <2>2, <3>2, <3>3, <3>4 DEF Accepts, FreshDb
      <4>2. Recorded' = Recorded + 1
        BY <1>2, <2>1, <3>3, <3>4, <4>1 DEF Recorded
      <4> QED
        <5>1. /\ Recorded' >= Recorded + 1 /\ Unreported' <= Unreported + 1
              /\ Recorded' \in Nat /\ Unreported' \in Nat /\ again' \in Nat
          BY <1>2, <2>1, <3>1, <4>2
        <5> QED
          BY <1>1, <1>2, <2>1, <5>1, CountFrame
    <3>5. CASE Height[b] # 0
      <4>1. hash'[0] = hash[0] /\ indexed' >= indexed + 1
        BY <1>2, <2>2, <3>2, <3>3, <3>5 DEF Accepts, FreshDb
      <4>2. Recorded' \in Nat /\ Recorded' >= Recorded + 1
        BY <1>2, <2>1, <3>2, <3>3, <4>1 DEF Recorded
      <4> QED
        <5>1. /\ Recorded' >= Recorded + 1 /\ Unreported' <= Unreported + 1
              /\ Recorded' \in Nat /\ Unreported' \in Nat /\ again' \in Nat
          BY <1>2, <2>1, <3>1, <4>2
        <5> QED
          BY <1>1, <1>2, <2>1, <5>1, CountFrame
    <3> QED
      BY <3>4, <3>5
  <2>3. CASE ~ Accepts(Height[b])
    <3>1. UNCHANGED index
          /\ prc' = [pc |-> "report", block |-> prc.block, result |-> "rejected"]
      BY <1>3, <1>7, <2>3 DEF ProcessCommit, Reports
    <3>2. Unreported' = 0
      BY <3>1 DEF Unreported
    <3> QED
      BY <1>1, <1>2, <1>4, <2>1, <3>1, <3>2, CountFrame
  <2> QED
    BY <2>2, <2>3
<1>8. CASE ProcessExhausted
  <2>1. UNCHANGED <<index, again, results>>
        /\ prc' = [pc |-> "report", block |-> prc.block, result |-> "failed"]
    BY <1>3, <1>8 DEF ProcessExhausted, Reports
  <2>2. Unreported' = 0
    BY <2>1 DEF Unreported
  <2> QED
    BY <1>1, <1>2, <1>4, <2>1, <2>2, CountFrame
<1>9. CASE ProcessStore
  <2>1. UNCHANGED <<index, again, results>> /\ prc.pc = "store"
    BY <1>9 DEF ProcessStore
  <2>2. Unreported = 1 /\ Unreported' \in {0, 1}
    BY <2>1 DEF Unreported
  <2>3. /\ Recorded' >= Recorded + 0 /\ Unreported' <= Unreported + 0
        /\ Recorded' \in Nat /\ Unreported' \in Nat /\ again' \in Nat
    BY <1>2, <1>4, <2>1, <2>2
  <2> QED
    BY <1>1, <1>2, <2>1, <2>3, CountFrame
<1>10. CASE ProcessReport
  <2> DEFINE r == [h |-> Height[prc.block], what |-> prc.result]
  <2>1. UNCHANGED <<index, again>> /\ prc.pc = "report" /\ prc' = Processor
        /\ results' = Append(results, r)
    BY <1>10 DEF ProcessReport
  <2>2. r \in [h : Heights, what : Outcomes] /\ r.what = prc.result
    BY <2>1, PipeConstants DEF PipeInv, ProcessorInv
  <2>3. Unreported' = 0 /\ Unreported = IF r.what = "success" THEN 1 ELSE 0
    BY <2>1, <2>2 DEF Unreported, Processor
  <2> HIDE DEF r
  <2>4. /\ Cardinality(Successes') \in Nat
        /\ Cardinality(Successes')
             <= Cardinality(Successes) + (IF r.what = "success" THEN 1 ELSE 0)
    BY <2>1, <2>2, AppendedSuccess
  <2>5. count \in Nat /\ count + Cardinality(Successes) + Unreported <= Recorded
        /\ Cardinality(Successes) \in Nat
    BY CountTypes DEF CountInv, NeverOvercounts
  <2>6. count + Cardinality(Successes') + Unreported' <= Recorded
    BY <1>2, <2>3, <2>4, <2>5
  <2>7. NeverOvercounts'
    BY <1>1, <1>2, <1>4, <2>1, <2>5, <2>6 DEF NeverOvercounts
  <2> QED
    BY <1>1, <2>7 DEF CountInv, Stopped
<1> QED
  BY <1>5, <1>6, <1>7, <1>8, <1>9, <1>10 DEF ProcessorStep

(* The result task counts what was recorded, and stops the process only    *)
(* when it has counted up to the exit height.                              *)
LEMMA ResultCounts ==
  ASSUME PipeInv, ProcessInv, CountInv, up, ResultStep
  PROVE  CountInv'
<1>1. UNCHANGED <<prc, exitAt>>
  BY DEF ResultStep, ResultRecv, ResultWalk, ResultRollback, ResultReset, resultOthers
<1>2. /\ indexed \in Nat /\ Unreported \in {0, 1} /\ again \in Nat /\ Recorded \in Nat
      /\ count \in Nat /\ Cardinality(Successes) \in Nat
      /\ count + Cardinality(Successes) + Unreported <= Recorded
      /\ Recorded <= indexed + 1 + again
  BY CountTypes DEF CountInv, NeverOvercounts, Recorded
<1>3. Unreported' = Unreported
  BY <1>1 DEF Unreported
<1>4. exitAt # NoExit => exitAt \in Nat
  BY PipelineAssumption DEF ProcessInv
<1>5. ASSUME NEW n \in Nat, Counted(n), UNCHANGED <<index, again>>,
             Cardinality(Successes') \in Nat,
             n + Cardinality(Successes') + Unreported <= Recorded
      PROVE  CountInv'
  <2>1. count' = n /\ up' = (exitAt = NoExit \/ n < exitAt) /\ indexed' = indexed
        /\ again' = again /\ Recorded' = Recorded
    BY <1>5 DEF Counted, Recorded, index
  <2>2. NeverOvercounts'
    BY <1>2, <1>3, <1>5, <2>1 DEF NeverOvercounts
  <2>3. n <= indexed + 1 + again
    BY <1>2, <1>5
  <2>4. ~up' => exitAt \in Nat /\ indexed + 1 + again >= exitAt
    <3>1. ~up' => exitAt # NoExit /\ ~ (n < exitAt)
      BY <2>1
    <3> QED
      BY <1>2, <1>4, <1>5, <2>3, <3>1
  <2> QED
    BY <1>1, <2>1, <2>2, <2>4 DEF CountInv, Stopped
<1>6. CASE ResultRecv
  <2> DEFINE r == Head(results)
  <2>1. results # <<>> /\ results' = Tail(results) /\ UNCHANGED <<index, again>>
    BY <1>6 DEF ResultRecv
  <2>2. /\ Cardinality(Successes') \in Nat
        /\ Cardinality(Successes') + (IF r.what = "success" THEN 1 ELSE 0)
             <= Cardinality(Successes)
    BY <2>1, TakenSuccess
  <2>3. CASE r.what = "success"
    <3> DEFINE n == IF exitAt = NoExit THEN 0 ELSE count + 1
    <3>1. Counted(n)
      BY <1>6, <2>3 DEF ResultRecv
    <3>2. n \in Nat /\ n + Cardinality(Successes') + Unreported <= Recorded
      BY <1>2, <2>2, <2>3
    <3> HIDE DEF n
    <3> QED
      BY <1>5, <2>1, <2>2, <3>1, <3>2
  <2>4. CASE r.what = "discontinuity"
    <3>1. UNCHANGED <<up, count>>
      BY <1>6, <2>4 DEF ResultRecv
    <3>2. Recorded' = Recorded
      BY <2>1 DEF Recorded, index
    <3>3. NeverOvercounts'
      BY <1>2, <1>3, <2>1, <2>2, <2>4, <3>1, <3>2 DEF NeverOvercounts
    <3> QED
      BY <3>1, <3>3 DEF CountInv, Stopped
  <2>5. CASE r.what \notin {"success", "discontinuity"}
    <3>1. Counted(count)
      BY <1>6, <2>5 DEF ResultRecv
    <3>2. count + Cardinality(Successes') + Unreported <= Recorded
      BY <1>2, <2>2, <2>5
    <3> QED
      BY <1>2, <1>5, <2>1, <2>2, <3>1, <3>2
  <2> QED
    BY <2>3, <2>4, <2>5
<1>7. CASE ResultWalk
  <2>1. UNCHANGED <<index, again, up, results, count>>
    BY <1>7 DEF ResultWalk
  <2>2. Recorded' = Recorded
    BY <2>1 DEF Recorded, index
  <2> QED
    BY <1>2, <1>3, <2>1, <2>2, CountFrame
<1>8. CASE ResultRollback
  <2>1. rst.at \in Heights /\ Undo(rst.at) /\ UNCHANGED <<up, results, count>>
    BY <1>8 DEF ResultRollback, PipeInv, RestInv
  <2>2. again' \in Nat /\ Recorded' \in Nat /\ Recorded' >= Recorded
    BY <2>1, UndoCounts
  <2> QED
    <3>1. /\ Recorded' >= Recorded + 0 /\ Unreported' <= Unreported + 0
          /\ Unreported' \in Nat
      BY <1>2, <1>3, <2>2
    <3> QED
      BY <1>2, <2>1, <2>2, <3>1, CountFrame
<1>9. CASE ResultReset
  <2>1. Counted(count) /\ UNCHANGED <<index, again, results>>
    BY <1>9 DEF ResultReset
  <2>2. Successes' = Successes
    BY <2>1 DEF Successes
  <2> QED
    BY <1>2, <1>5, <2>1, <2>2
<1> QED
  BY <1>6, <1>7, <1>8, <1>9 DEF ResultStep

LEMMA CountInvKept == PipeIInv /\ CountInv /\ [PipeNext]_pipeVars => CountInv'
<1> SUFFICES ASSUME PipeIInv, CountInv, [PipeNext]_pipeVars PROVE CountInv'
  OBVIOUS
<1> USE DEF PipeIInv
<1>1. ASSUME UNCHANGED <<indexed, hash, exitAt, up, results, prc, count, again>>
      PROVE  CountInv'
  BY <1>1 DEF CountInv, NeverOvercounts, Stopped, Successes, Unreported, Recorded
<1>2. CASE up /\ NodeStep
  BY <1>1, <1>2 DEF NodeStep, NodeGrows, NodeReorganises, index
<1>3. CASE UNCHANGED pipeVars
  BY <1>1, <1>3 DEF pipeVars
<1> QED
  BY <1>2, <1>3, FetcherCounts, ProcessorCounts, ResultCounts DEF PipeNext, Ended

(* --exit-at stops the process no further below that height than blocks    *)
(* were counted again, because they had been rolled back or were sent a    *)
(* second time: whatever the node does and whatever fails, from every      *)
(* start block, and whether the fetcher or the result task stops it.       *)
THEOREM PipelineStopsAtExit == PipeSpec => []StopsAtExit
<1>1. PipeInit => CountInv
  BY CountInit
<1>2. PipeIInv /\ CountInv /\ [PipeNext]_pipeVars => CountInv'
  BY CountInvKept
<1>3. CountInv => StopsAtExit
  BY DEF CountInv, Stopped, StopsAtExit
<1> QED
  BY <1>1, <1>2, <1>3, PipelineIsOrderly, PTL DEF PipeSpec
=============================================================================
