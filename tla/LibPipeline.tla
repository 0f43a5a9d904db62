---------------------------- MODULE LibPipeline ----------------------------
(***************************************************************************)
(* The pipeline of the metashrew-sync library (MetashrewSync::run_pipeline *)
(* and ProcessingClone): a fetcher that asks for the block at              *)
(* current_height unless that height is already being processed, a         *)
(* processor, and the result loop, which moves current_height on.          *)
(***************************************************************************)
EXTENDS Ledger

CONSTANTS
  PipelineSize,  \* pipeline_size: the capacity of both channels
  ExitHeights,   \* the values of exit_at, NoExit among them
  NoExit

ASSUME LibAssumption ==
  /\ PipelineSize \in Nat \ {0}
  /\ ExitHeights \ {NoExit} \subseteq Nat

VARIABLES
  exitAt,      \* exit_at of this run, or NoExit
  currentHeight,     \* current_height
  processing,  \* processing_heights
  blocks,      \* the block channel
  results,     \* the result channel
  fet,         \* the fetcher; history: has the node reorganised since it looked back?
  prc,         \* the processor
  rst,         \* the result loop
  crossedBlocks, \* history: the blocks that were fetched after such a reorganisation
  overtaken    \* history: a rollback was begun with a block or a result in flight

marks == <<crossedBlocks, overtaken>>

libVars == <<best, moved, faults, indexed, hash, exitAt, currentHeight, processing,
             blocks, results, fet, prc, rst, crossedBlocks, overtaken>>

Fetcher == [pc |-> "top", h |-> 0, remote |-> 0, target |-> 0, block |-> NoBlock,
            crossed |-> FALSE]

Processor == [pc |-> "recv", block |-> NoBlock]

Results == [pc |-> "recv", h |-> 0]

LibInit ==
  /\ LedgerInit
  /\ exitAt \in ExitHeights
  /\ currentHeight = StartBlock /\ processing = {}
  /\ blocks = <<>> /\ results = <<>>
  /\ fet = Fetcher /\ prc = Processor /\ rst = Results
  /\ crossedBlocks = {} /\ overtaken = FALSE

(***************************************************************************)
(* The fetcher.                                                            *)
(***************************************************************************)
fetcherOthers == <<best, moved, exitAt, results, prc, rst>>

LibLoad ==
  /\ fet.pc = "top"
  /\ fet' = [Fetcher EXCEPT !.pc = "tip", !.h = currentHeight]
  /\ UNCHANGED <<fetcherOthers, faults, index, currentHeight, processing, blocks, marks>>

(* Mutant: no reorg check. *)
LibTipOnly ==
  /\ fet.pc = "tip"
  /\ fet' = [fet EXCEPT !.pc = "pick", !.remote = Height[best]]
  /\ UNCHANGED <<fetcherOthers, faults, index, currentHeight, processing, blocks, marks>>

(* A block that is fetched and not yet seen by the result loop, or a       *)
(* result loop that is not waiting for the next one.                       *)
Busy == blocks # <<>> \/ results # <<>> \/ prc.pc # "recv" \/ rst.pc # "recv"

(* The node's tip, and handle_reorg when close to it. *)
LibTip ==
  /\ fet.pc = "tip"
  /\ LET undo == NearTip(Height[best], fet.h) /\ ReorgDetected(fet.h)
     IN  /\ fet' = [fet EXCEPT !.pc = IF undo THEN "undo" ELSE "pick",
                               !.remote = Height[best],
                               !.target = IF undo THEN WalkEnd(fet.h) ELSE 0]
         /\ overtaken' = (overtaken \/ (undo /\ Busy))
  /\ UNCHANGED <<fetcherOthers, faults, index, currentHeight, processing, blocks,
                 crossedBlocks>>

LibRollback ==
  /\ fet.pc = "undo"
  /\ RollbackTo(fet.target)
  /\ fet' = [fet EXCEPT !.pc = "store", !.h = fet.target + 1, !.target = 0]
  /\ UNCHANGED <<fetcherOthers, faults, currentHeight, processing, blocks, marks>>

(* Mutant: the rewound height is only used for this round. *)
LibStoreNothing ==
  /\ fet.pc = "store"
  /\ fet' = [fet EXCEPT !.pc = "pick"]
  /\ UNCHANGED <<fetcherOthers, faults, index, currentHeight, processing, blocks, marks>>

LibStore ==
  /\ fet.pc = "store"
  /\ currentHeight' = fet.h
  /\ fet' = [fet EXCEPT !.pc = "pick"]
  /\ UNCHANGED <<fetcherOthers, faults, index, processing, blocks, marks>>

(* Mutant: the exit height itself is fetched. *)
LibPickThroughExit ==
  /\ fet.pc = "pick"
  /\ fet' = IF exitAt # NoExit /\ fet.h > exitAt THEN [Fetcher EXCEPT !.pc = "done"]
            ELSE IF fet.h > fet.remote \/ fet.h \in processing THEN Fetcher
            ELSE [fet EXCEPT !.pc = "get"]
  /\ UNCHANGED <<fetcherOthers, faults, index, currentHeight, processing, blocks, marks>>

(* The exit height ends the fetcher; nothing to do above the node's tip,   *)
(* nor at a height that is being processed. *)
LibPick ==
  /\ fet.pc = "pick"
  /\ fet' = IF exitAt # NoExit /\ fet.h >= exitAt THEN [Fetcher EXCEPT !.pc = "done"]
            ELSE IF fet.h > fet.remote \/ fet.h \in processing THEN Fetcher
            ELSE [fet EXCEPT !.pc = "get"]
  /\ UNCHANGED <<fetcherOthers, faults, index, currentHeight, processing, blocks, marks>>

(* The node has the block: its chain never gets shorter here.  The height  *)
(* counts as being processed before the block is sent. *)
LibGet ==
  /\ fet.pc = "get"
  /\ fet' = [Fetcher EXCEPT !.pc = "send", !.block = Ancestry(best)[fet.h]]
  /\ processing' = processing \cup {fet.h}
  /\ crossedBlocks' = crossedBlocks \cup {b \in {Ancestry(best)[fet.h]} : fet.crossed}
  /\ UNCHANGED <<fetcherOthers, faults, index, currentHeight, blocks, overtaken>>

LibSend ==
  /\ fet.pc = "send" /\ Len(blocks) < PipelineSize
  /\ blocks' = Append(blocks, fet.block)
  /\ fet' = Fetcher
  /\ UNCHANGED <<fetcherOthers, faults, index, currentHeight, processing, marks>>

(* A call to the node fails: the round is over. *)
LibFetchFails ==
  /\ Fault
  /\ fet.pc \in {"tip", "get"}
  /\ fet' = Fetcher
  /\ UNCHANGED <<fetcherOthers, index, currentHeight, processing, blocks, marks>>

LibFetcherStep ==
  LibLoad \/ LibTip \/ LibRollback \/ LibStore \/ LibPick \/ LibGet \/ LibSend

(***************************************************************************)
(* The processor.                                                          *)
(***************************************************************************)
processorOthers == <<best, moved, faults, exitAt, currentHeight, processing, fet, rst, marks>>

LibRecv ==
  /\ prc.pc = "recv" /\ blocks # <<>>
  /\ blocks' = Tail(blocks)
  /\ prc' = [pc |-> "commit", block |-> Head(blocks)]
  /\ UNCHANGED <<processorOthers, index, results>>

(* ProcessingClone::process_block retries until commit_atomic accepts the  *)
(* block.  No attempt is the last one, so an error is never reported: the  *)
(* result loop's arm for errors (its handle_reorg with it) has no caller.  *)
LibCommit ==
  /\ prc.pc = "commit" /\ Accepts(Height[prc.block])
  /\ Commit(prc.block)
  /\ prc' = [prc EXCEPT !.pc = "report"]
  /\ UNCHANGED <<processorOthers, blocks, results>>

(* commit_atomic refuses the block: back off and execute it again. *)
LibRetry ==
  /\ prc.pc = "commit" /\ ~Accepts(Height[prc.block])
  /\ UNCHANGED libVars

LibReport ==
  /\ prc.pc = "report" /\ Len(results) < PipelineSize
  /\ results' = Append(results, Height[prc.block])
  /\ prc' = Processor
  /\ UNCHANGED <<processorOthers, index, blocks>>

(* Every sender is gone and the channel is empty. *)
LibProcessorEnds ==
  /\ prc.pc = "recv" /\ blocks = <<>>
  /\ fet.pc = "done" /\ rst.pc = "join"
  /\ prc' = [Processor EXCEPT !.pc = "done"]
  /\ UNCHANGED <<processorOthers, index, blocks, results>>

LibProcessorStep == LibRecv \/ LibCommit \/ LibReport \/ LibProcessorEnds

(***************************************************************************)
(* The result loop.                                                        *)
(***************************************************************************)
resultOthers == <<best, moved, faults, exitAt, indexed, hash, blocks, fet, prc, marks>>

LibResult ==
  /\ rst.pc = "recv" /\ results # <<>>
  /\ results' = Tail(results)
  /\ currentHeight' = Head(results) + 1
  /\ rst' = [pc |-> "remove", h |-> Head(results)]
  /\ UNCHANGED <<resultOthers, processing>>

(* Mutant: the height stays among those being processed. *)
LibResultKeeps ==
  /\ rst.pc = "remove"
  /\ rst' = IF exitAt # NoExit /\ rst.h + 1 >= exitAt THEN [pc |-> "join", h |-> 0]
            ELSE Results
  /\ UNCHANGED <<resultOthers, currentHeight, processing, results>>

(* The height is no longer being processed; at the exit height the loop    *)
(* ends, drops its senders and joins the tasks. *)
LibResultDone ==
  /\ rst.pc = "remove"
  /\ processing' = processing \ {rst.h}
  /\ rst' = IF exitAt # NoExit /\ rst.h + 1 >= exitAt THEN [pc |-> "join", h |-> 0]
            ELSE Results
  /\ UNCHANGED <<resultOthers, currentHeight, results>>

LibResultStep == LibResult \/ LibResultDone

(***************************************************************************)
(* The run.                                                                *)
(***************************************************************************)
(* From the look back to the query for the block. *)
LookedBack == fet.pc \in {"undo", "store", "pick", "get"}

LibNode ==
  /\ \E t \in Blocks :
        \/ NodeGrows(t) /\ UNCHANGED fet
        \/ NodeReorganises(t) /\ fet' = [fet EXCEPT !.crossed = @ \/ LookedBack]
  /\ UNCHANGED <<exitAt, currentHeight, processing, blocks, results, prc, rst, marks>>

(* run_pipeline has returned. *)
Stopped == fet.pc = "done" /\ prc.pc = "done" /\ rst.pc = "join"

LibEnded == Stopped /\ UNCHANGED libVars

LibNext ==
  \/ LibFetcherStep \/ LibFetchFails
  \/ LibProcessorStep \/ LibRetry
  \/ LibResultStep
  \/ LibNode
  \/ LibEnded

LibSpec == LibInit /\ [][LibNext]_libVars

(* Every task is run by the executor again and again. *)
FairLibSpec ==
  /\ LibSpec
  /\ WF_libVars(LibFetcherStep)
  /\ WF_libVars(LibProcessorStep)
  /\ WF_libVars(LibResultStep)

-----------------------------------------------------------------------------
(***************************************************************************)
(* Properties.                                                             *)
(***************************************************************************)

(* No block is indexed on top of a block that is not its parent, which     *)
(* here rests on the fetcher's reorg check alone ("the SPV continuity      *)
(* check (that's done by the fetcher upstream in this pipeline)").  (The   *)
(* node may reorganise after that check, and nothing looks at the block it *)
(* then gets: crossedBlocks.) *)
LibOneChain ==
  \A h \in StartBlock + 1 .. indexed :
     hash[h] \notin crossedBlocks \cup {NoBlock} /\ hash[h - 1] # NoBlock
       => Parent[hash[h]] = hash[h - 1]

(* "The fetcher cursor has drifted ahead of the committed storage tip" is  *)
(* what no later step repairs: current_height never gets past the block    *)
(* after the tip, except while a rollback is being handed to it.           *)
(* (overtaken: the result loop can then store a height that was rolled     *)
(* back, or the processor hold one.)                                       *)
LibCursorNotAhead ==
  ~overtaken /\ fet.pc # "store" =>
    IF FreshDb THEN currentHeight = StartBlock ELSE currentHeight <= indexed + 1

(* The processor never holds a block that commit_atomic refuses now: "an   *)
(* out-of-order rejection is deterministic", and this path would retry it  *)
(* for ever.                                                               *)
LibNeverStuck == prc.pc = "commit" => Accepts(Height[prc.block])

(* exit_at is exclusive, and the run stops with the block below it         *)
(* indexed. *)
LibStopsAtExit ==
  exitAt # NoExit =>
    /\ indexed < exitAt
    /\ Stopped /\ ~moved => indexed = exitAt - 1 /\ results = <<>>

(* The index is exact and at the node's tip. *)
LibSynced ==
  /\ ~FreshDb /\ indexed = Height[best]
  /\ \A h \in StartBlock .. indexed : hash[h] = Ancestry(best)[h]

(* The index reaches the node's tip, or the exit height and stops, after   *)
(* every reorganisation that meets no block between the look back and the  *)
(* result loop, unless the processor gets stuck: no height stays marked as *)
(* being processed, and what the fetcher stored is what it fetches next.   *)
LibCatchesUp ==
  [](LibNeverStuck /\ ~overtaken /\ crossedBlocks = {}) =>
    /\ <>[](exitAt = NoExit => LibSynced)
    /\ [](exitAt # NoExit /\ Height[best] + 1 >= exitAt => <>Stopped)
=============================================================================
