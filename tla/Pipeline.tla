------------------------------ MODULE Pipeline ------------------------------
(***************************************************************************)
(* The three tasks of rockshrew-mono (run): a fetcher that fills a bounded *)
(* channel of blocks, a processor that applies them in order, and a result *)
(* task that reacts to what the processor reports.  They share the         *)
(* engine's current_height and the fetcher's own last_sent_height, both    *)
(* plain atomics, and the index.  An action is what a task does between    *)
(* two awaits.                                                             *)
(***************************************************************************)
EXTENDS Ledger

CONSTANTS
  PrefetchRequested, \* --prefetch-size
  ExitHeights,       \* the values of --exit-at, NoExit among them
  NoExit

ASSUME PipelineAssumption ==
  /\ PrefetchRequested \in Nat
  /\ NoExit \notin Nat /\ ExitHeights \subseteq Nat \cup {NoExit}

VARIABLES
  exitAt,    \* --exit-at of this process, or NoExit
  up,        \* the process runs
  current,   \* current_height: the height after the last commit
  sent,      \* last_sent_height, or Unset
  blocks,    \* the prefetch channel
  results,   \* the result channel
  fet,       \* the fetcher
  prc,       \* the processor
  rst,       \* the result task
  count,     \* its block_count
  again      \* history: the blocks that may be counted a second time

pipeVars == <<best, moved, faults, indexed, hash, exitAt, up, current, sent,
              blocks, results, fet, prc, rst, count, again>>

(* LAST_SENT_UNSET *)
Unset == -1

(* Mutant: the requested size is not capped. *)
PrefetchUncapped == PrefetchRequested

(* "Cap the prefetch buffer at reorg_check_threshold": both channels and   *)
(* the batches have this size.                                             *)
PrefetchSize ==
  Larger(1, IF PrefetchRequested < ReorgCheckThreshold THEN PrefetchRequested
            ELSE ReorgCheckThreshold)

(* ret is what the reorg check returned, lo .. hi the heights to fetch and *)
(* send, got the ones fetched so far.                                      *)
Fetcher == [pc |-> "top", tip |-> 0, snap |-> Unset, remote |-> 0, ret |-> 0,
            lo |-> 0, hi |-> Unset, got |-> [h \in {} |-> NoBlock]]

Processor == [pc |-> "recv", block |-> NoBlock, result |-> "none"]

Results == [pc |-> "recv", at |-> 0]

PipeInit ==
  /\ LedgerInit
  /\ exitAt \in ExitHeights /\ up = TRUE
  /\ current = StartBlock /\ sent = Unset
  /\ blocks = <<>> /\ results = <<>>
  /\ fet = Fetcher /\ prc = Processor /\ rst = Results /\ count = 0 /\ again = 0

(* A rollback: the heights it removes will be counted once more.           *)
Undo(r) ==
  /\ RollbackTo(r)
  /\ again' = again + SatSub(indexed, r)

(***************************************************************************)
(* The fetcher.                                                            *)
(***************************************************************************)
fetcherOthers == <<moved, best, exitAt, results, prc, rst, count>>

(* The head of the loop.  A fetcher that breaks ends the process. *)
FetchTop ==
  /\ fet.pc = "top"
  /\ IF exitAt # NoExit /\ indexed >= exitAt
     THEN up' = FALSE /\ UNCHANGED fet
     ELSE up' = up /\ fet' = [fet EXCEPT !.pc = "tip", !.tip = current]
  /\ UNCHANGED <<fetcherOthers, faults, index, again, current, sent, blocks>>

(* Mutant: the fetcher follows the processor's height alone. *)
FetchStartOfTip(t, snap) == t

(* The first height that was not sent yet, never below the processor's     *)
(* height: compute_next_fetch_range, near_tip_fetch_start, and the floor   *)
(* of get_next_block_data_with_floor.                                      *)
FetchStart(t, snap) == Larger(t, snap + 1)

Fetching(lo, hi) == [Fetcher EXCEPT !.pc = "get", !.lo = lo, !.hi = hi]

(* get_tip_height, then the watermark.  Near the tip one block at a time   *)
(* is asked of the engine; otherwise compute_next_fetch_range. *)
FetchTip ==
  /\ fet.pc = "tip"
  /\ LET start  == FetchStart(fet.tip, sent)
         remote == Height[best]
     IN  fet' = IF NearTip(remote, start)
                THEN [Fetcher EXCEPT !.pc = "near", !.snap = sent]
                ELSE [Fetching(start, IF start + PrefetchSize <= remote + 1
                                   THEN start + PrefetchSize - 1 ELSE remote)
                      EXCEPT !.snap = sent]
  /\ UNCHANGED <<fetcherOthers, faults, index, again, up, current, sent, blocks>>

(* get_next_block_data_with_floor reads current_height ... *)
NearLoad ==
  /\ fet.pc = "near"
  /\ fet' = [fet EXCEPT !.pc = "check", !.ret = current]
  /\ UNCHANGED <<fetcherOthers, faults, index, again, up, current, sent, blocks>>

(* ... asks for the tip again, and walks when close to it. *)
NearCheck ==
  /\ fet.pc = "check"
  /\ fet' = [fet EXCEPT !.remote = Height[best],
                        !.pc = IF ~NearTip(Height[best], fet.ret) THEN "pick"
                               ELSE IF ReorgDetected(fet.ret) THEN "undo" ELSE "store",
                        !.lo = IF ReorgDetected(fet.ret) THEN WalkEnd(fet.ret) ELSE 0]
  /\ UNCHANGED <<fetcherOthers, faults, index, again, up, current, sent, blocks>>

NearRollback ==
  /\ fet.pc = "undo"
  /\ Undo(fet.lo)
  /\ fet' = [fet EXCEPT !.pc = "store", !.ret = fet.lo + 1, !.lo = 0]
  /\ UNCHANGED <<fetcherOthers, faults, up, current, sent, blocks>>

(* What handle_reorg returned is stored, whatever current_height is now. *)
NearStore ==
  /\ fet.pc = "store"
  /\ current' = fet.ret
  /\ fet' = [fet EXCEPT !.pc = "pick"]
  /\ UNCHANGED <<fetcherOthers, faults, index, again, up, sent, blocks>>

(* Mutant: the node's tip itself is not fetched. *)
NearPickBelowTip ==
  /\ fet.pc = "pick"
  /\ LET h == FetchStart(fet.ret, fet.snap)
     IN  fet' = IF (exitAt # NoExit /\ h >= exitAt) \/ h >= fet.remote THEN Fetcher
                ELSE [Fetching(h, h) EXCEPT !.snap = fet.snap]
  /\ UNCHANGED <<fetcherOthers, faults, index, again, up, current, sent, blocks>>

(* The height to fetch, if it is below --exit-at and the node has it.      *)
(* near_tip_should_drop never applies: the floor is above it. *)
NearPick ==
  /\ fet.pc = "pick"
  /\ LET h == FetchStart(fet.ret, fet.snap)
     IN  fet' = IF (exitAt # NoExit /\ h >= exitAt) \/ h > fet.remote THEN Fetcher
                ELSE [Fetching(h, h) EXCEPT !.snap = fet.snap]
  /\ UNCHANGED <<fetcherOthers, faults, index, again, up, current, sent, blocks>>

(* One of the concurrent get_block_info calls returns.  (The node has the  *)
(* block: its chain never gets shorter here.) *)
FetchBlock(h) ==
  /\ fet.pc = "get" /\ h \in fet.lo .. fet.hi /\ h \notin DOMAIN fet.got
  /\ fet' = [fet EXCEPT !.got = [x \in {h} \cup DOMAIN fet.got |->
                                   IF x = h THEN Ancestry(best)[h] ELSE fet.got[x]]]
  /\ UNCHANGED <<fetcherOthers, faults, index, again, up, current, sent, blocks>>

(* Results are sent in order; send waits for room in the channel. *)
FetchSend ==
  /\ fet.pc = "get" /\ fet.lo \in DOMAIN fet.got
  /\ Len(blocks) < PrefetchSize
  /\ blocks' = Append(blocks, fet.got[fet.lo])
  /\ fet' = [fet EXCEPT !.pc = "mark"]
  /\ UNCHANGED <<fetcherOthers, faults, index, again, up, current, sent>>

(* last_sent_height.fetch_max, after the send. *)
FetchMark ==
  /\ fet.pc = "mark"
  /\ sent' = Larger(sent, fet.lo)
  /\ fet' = IF fet.lo = fet.hi THEN Fetcher
            ELSE [fet EXCEPT !.pc = "get", !.lo = @ + 1,
                             !.got = [h \in (DOMAIN fet.got) \ {fet.lo} |-> fet.got[h]]]
  /\ UNCHANGED <<fetcherOthers, faults, index, again, up, current, blocks>>

(* A call to the node fails: the round is over, and the rest of a batch is *)
(* aborted. *)
FetchFails ==
  /\ Fault
  /\ fet.pc \in {"tip", "check", "get"}
  /\ fet' = Fetcher
  /\ UNCHANGED <<fetcherOthers, index, again, up, current, sent, blocks>>

FetcherStep ==
  \/ FetchTop \/ FetchTip \/ NearLoad \/ NearCheck \/ NearRollback \/ NearStore
  \/ NearPick \/ (\E h \in Heights : FetchBlock(h)) \/ FetchSend \/ FetchMark

(***************************************************************************)
(* The processor.                                                          *)
(***************************************************************************)
processorOthers == <<moved, best, exitAt, up, sent, fet, rst, count>>

Reports(r) == prc' = [prc EXCEPT !.pc = "report", !.result = r]

(* Take a block and check that it connects. *)
ProcessRecv ==
  /\ prc.pc = "recv" /\ blocks # <<>>
  /\ blocks' = Tail(blocks)
  /\ prc' = [pc |-> IF Connects(Head(blocks)) THEN "guard" ELSE "report",
             block |-> Head(blocks),
             result |-> IF Connects(Head(blocks)) THEN "none" ELSE "discontinuity"]
  /\ UNCHANGED <<processorOthers, faults, index, again, current, results>>

(* The staleness guard, then the block is executed. *)
ProcessGuard ==
  /\ prc.pc = "guard"
  /\ IF Height[prc.block] < current
     THEN Reports("success") /\ again' = again + 1
     ELSE prc' = [prc EXCEPT !.pc = "commit"] /\ UNCHANGED again
  /\ UNCHANGED <<processorOthers, faults, index, current, blocks, results>>

(* commit_atomic under the storage lock. *)
ProcessCommit ==
  /\ prc.pc = "commit"
  /\ IF Accepts(Height[prc.block])
     THEN Commit(prc.block) /\ prc' = [prc EXCEPT !.pc = "store"]
     ELSE Reports("rejected") /\ UNCHANGED index
  /\ UNCHANGED <<processorOthers, faults, again, current, blocks, results>>

(* Every attempt fails until the budget is spent. *)
ProcessExhausted ==
  /\ prc.pc = "commit" /\ Fault
  /\ Reports("failed")
  /\ UNCHANGED <<processorOthers, index, again, current, blocks, results>>

ProcessStore ==
  /\ prc.pc = "store"
  /\ current' = Height[prc.block] + 1
  /\ Reports("success")
  /\ UNCHANGED <<processorOthers, faults, index, again, blocks, results>>

ProcessReport ==
  /\ prc.pc = "report" /\ Len(results) < PrefetchSize
  /\ results' = Append(results, [h |-> Height[prc.block], what |-> prc.result])
  /\ prc' = Processor
  /\ UNCHANGED <<processorOthers, faults, index, again, current, blocks>>

ProcessorStep ==
  ProcessRecv \/ ProcessGuard \/ ProcessCommit \/ ProcessStore \/ ProcessReport

(***************************************************************************)
(* The result task.                                                        *)
(***************************************************************************)
resultOthers == <<moved, best, exitAt, current, blocks, fet, prc>>

(* Mutant: one result too early. *)
CountedShort(n) == up' = (exitAt = NoExit \/ n + 1 < exitAt) /\ count' = n

(* block_count, not the height, is compared with --exit-at. *)
Counted(n) == up' = (exitAt = NoExit \/ n < exitAt) /\ count' = n

ResultRecv ==
  /\ rst.pc = "recv" /\ results # <<>>
  /\ results' = Tail(results)
  /\ LET r == Head(results)
     IN  CASE r.what = "success" ->
                Counted(IF exitAt = NoExit THEN 0 ELSE count + 1) /\ UNCHANGED rst
           [] r.what = "discontinuity" ->
                rst' = [pc |-> "walk", at |-> r.h] /\ UNCHANGED <<up, count>>
           [] OTHER -> Counted(count) /\ UNCHANGED rst
  /\ UNCHANGED <<resultOthers, faults, index, again, sent>>

(* handle_reorg from the height that did not connect. *)
ResultWalk ==
  /\ rst.pc = "walk"
  /\ rst' = IF ReorgDetected(rst.at) THEN [pc |-> "undo", at |-> WalkEnd(rst.at)]
            ELSE [pc |-> "reset", at |-> 0]
  /\ UNCHANGED <<resultOthers, faults, index, again, up, sent, results, count>>

ResultRollback ==
  /\ rst.pc = "undo"
  /\ Undo(rst.at)
  /\ rst' = [pc |-> "reset", at |-> 0]
  /\ UNCHANGED <<resultOthers, faults, up, sent, results, count>>

(* current_height is left alone: only the fetcher's watermark is reset. *)
ResultReset ==
  /\ rst.pc = "reset"
  /\ sent' = Unset
  /\ rst' = Results
  /\ Counted(count)
  /\ UNCHANGED <<resultOthers, faults, index, again, results>>

ResultStep == ResultRecv \/ ResultWalk \/ ResultRollback \/ ResultReset

(***************************************************************************)
(* The process.                                                            *)
(***************************************************************************)
NodeStep ==
  /\ \E t \in Blocks : NodeGrows(t) \/ NodeReorganises(t)
  /\ UNCHANGED <<exitAt, up, current, sent, blocks, results, fet, prc, rst, count,
                 again>>

(* The first task to end ends the process. *)
Ended == ~up /\ UNCHANGED pipeVars

PipeNext ==
  \/ up /\ (FetcherStep \/ FetchFails)
  \/ up /\ (ProcessorStep \/ ProcessExhausted)
  \/ up /\ ResultStep
  \/ up /\ NodeStep
  \/ Ended

PipeSpec == PipeInit /\ [][PipeNext]_pipeVars

(* Each task runs on its own executor thread. *)
FairPipeSpec ==
  /\ PipeSpec
  /\ WF_pipeVars(up /\ FetcherStep)
  /\ WF_pipeVars(up /\ ProcessorStep)
  /\ WF_pipeVars(up /\ ResultStep)

-----------------------------------------------------------------------------
(***************************************************************************)
(* Properties.                                                             *)
(***************************************************************************)

(* Blocks fetched and neither committed nor refused. *)
InFlight ==
  Len(blocks) + Cardinality(DOMAIN fet.got) - (IF fet.pc = "mark" THEN 1 ELSE 0)
    + (IF prc.pc \in {"guard", "commit"} THEN 1 ELSE 0)

(* Whatever the node does between a fetch, a queue, a validation and a     *)
(* commit, and however the two reorg handlers interleave with the          *)
(* processor, no block is indexed on top of one that is not its parent.    *)
PipelineOneChain ==
  \A h \in StartBlock + 1 .. indexed :
     hash[h] # NoBlock /\ hash[h - 1] # NoBlock => Parent[hash[h]] = hash[h - 1]

(* "The fetcher MUST NOT re-enqueue": unless the node reorganises or a     *)
(* block's attempts run out, no block ever reaches commit_atomic twice or  *)
(* out of order, however the fetcher's stale store of current_height       *)
(* interleaves with the processor's.                                       *)
NoErrorWithoutCause ==
  faults = MaxFaults => prc.result \in {"none", "success"}

(* The memory of the pipeline is bounded by the reorg check threshold,     *)
(* whatever prefetch size is asked for: one channel, one batch beside it,  *)
(* one block being processed.                                              *)
InFlightBounded == InFlight <= 2 * Larger(1, ReorgCheckThreshold) + 1

(* --exit-at is compared with a number of results, not with a height.  The *)
(* process may stop with fewer blocks indexed, but only by the blocks that *)
(* were counted again: those rolled back, and those sent a second time and *)
(* skipped as stale.                                                       *)
StopsAtExit == ~up => indexed + 1 + again >= exitAt

(* Without --exit-at, and as long as the node neither reorganises nor      *)
(* fails, the index reaches the node's tip: the watermark, the stale       *)
(* stores and the full channels never leave the three tasks waiting.       *)
PipelineCatchesUp ==
  [](faults = MaxFaults) /\ exitAt = NoExit => <>(FreshDb = FALSE /\ indexed = Height[best])
=============================================================================
