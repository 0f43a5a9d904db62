----------------------------- MODULE BlockRunner -----------------------------
(***************************************************************************)
(* One block through the WASM host: process_block_atomic arms a slot, runs *)
(* the module, takes the batch __flush left in the slot, refreshes the     *)
(* module's memory, and the caller commits the batch or retries the block. *)
(* A block is the calls it makes the indexer do, on the library of         *)
(* GuestMemory, which outlives an attempt unless the host refreshes it.    *)
(***************************************************************************)
EXTENDS GuestMemory

CONSTANTS
  Programs,   \* the blocks: sequences of calls
  MaxHeight,  \* bound on the heights
  MaxFaults   \* bound on failures and rollbacks together

ASSUME RunnerAssumption ==
  /\ MaxHeight \in Nat /\ MaxFaults \in Nat /\ IsFiniteSet(Keys)
  /\ \A block \in Programs : Disciplined(block)

VARIABLES
  chain,    \* history: the blocks committed, from height 1
  disk,     \* what the keys hold at each height from 1, the tip last
  run,      \* the attempt: step, height, block, next call, batch, outcome
  ctx,      \* context of the runtime: height and completion state
  slot,     \* pending_atomic_batch: NoValue, or the batch so far
  inst,     \* the WASM instance: memory, had_failure, last_flush_error
  faults,   \* how many more failures and rollbacks there may be
  spoiled   \* history: a memory refresh was missed

runnerVars == <<chain, disk, run, ctx, slot, inst, faults, spoiled>>

Fault == faults > 0 /\ faults' = faults - 1

(* What a read at a height finds: the last entry at or below it. *)
GetAt(h) ==
  LET top == IF h < Len(disk) THEN h ELSE Len(disk)
  IN  IF top = 0 THEN NoAdds ELSE disk[top]

FreshInst == [mem |-> NewMemory, failed |-> FALSE, flushErr |-> FALSE]

IdleRun == [pc |-> "idle", h |-> 0, block |-> <<>>, at |-> 1, batch |-> NoValue, ok |-> FALSE]

RunnerInit ==
  /\ chain = <<>> /\ disk = <<>>
  /\ run = IdleRun /\ ctx = [h |-> 0, state |-> 0]
  /\ slot = NoValue /\ inst = FreshInst
  /\ faults = MaxFaults /\ spoiled = FALSE

(***************************************************************************)
(* The caller takes the next block and starts an attempt.                  *)
(***************************************************************************)
BeginBlock(block) ==
  /\ run.pc = "idle" /\ Len(disk) < MaxHeight
  /\ run' = [IdleRun EXCEPT !.pc = "attempt", !.h = Len(disk) + 1, !.block = block]
  /\ UNCHANGED <<chain, disk, ctx, slot, inst, faults, spoiled>>

(* Arms the slot, sets the context and clears the captured flush error;    *)
(* had_failure belongs to the instance and stays.                          *)
Arm ==
  /\ run.pc = "attempt"
  /\ slot' = Nothing
  /\ ctx' = [h |-> run.h, state |-> 0]
  /\ inst' = [inst EXCEPT !.flushErr = FALSE]
  /\ run' = [run EXCEPT !.pc = "guest", !.at = 1, !.batch = NoValue, !.ok = FALSE]
  /\ UNCHANGED <<chain, disk, faults, spoiled>>

(***************************************************************************)
(* The module.                                                             *)
(***************************************************************************)
InGuest == run.pc = "guest"

Finished == run.at > Len(run.block)

NextCall == run.block[run.at]

(* __get reads at the height below the block's. *)
Host == GetAt(ctx.h - 1)

GuestCalls ==
  /\ InGuest /\ ~Finished /\ NextCall[1] # "flush"
  /\ inst' = [inst EXCEPT !.mem = CallOf(@, Host, NextCall)]
  /\ run' = [run EXCEPT !.at = @ + 1]
  /\ UNCHANGED <<chain, disk, ctx, slot, faults, spoiled>>

(* __flush: the batch goes into the armed slot, in place of what was there, *)
(* and the completion state is set.                                         *)
Flush ==
  /\ InGuest /\ ~Finished /\ NextCall[1] = "flush"
  /\ slot' = Batch(inst.mem)
  /\ inst' = [inst EXCEPT !.mem = Flushed(@)]
  /\ ctx' = [ctx EXCEPT !.state = 1]
  /\ run' = [run EXCEPT !.at = @ + 1]
  /\ UNCHANGED <<chain, disk, faults, spoiled>>

FlushFails ==
  /\ Fault
  /\ InGuest /\ ~Finished /\ NextCall[1] = "flush"
  /\ inst' = [mem |-> Flushed(inst.mem), failed |-> TRUE, flushErr |-> TRUE]
  /\ run' = [run EXCEPT !.at = @ + 1]
  /\ UNCHANGED <<chain, disk, ctx, slot, spoiled>>

(* abort and every unreadable argument: had_failure, and the module goes on. *)
HostCallFails ==
  /\ Fault
  /\ InGuest /\ ~inst.failed
  /\ inst' = [inst EXCEPT !.failed = TRUE]
  /\ UNCHANGED <<chain, disk, run, ctx, slot, spoiled>>

GuestTraps ==
  /\ Fault
  /\ InGuest
  /\ run' = [run EXCEPT !.pc = "ended", !.ok = FALSE]
  /\ UNCHANGED <<chain, disk, ctx, slot, inst, spoiled>>

(* Success is a completion state of 1 with no captured error or failure. *)
SucceededLoose == ~inst.flushErr /\ ~inst.failed

Succeeded == ctx.state = 1 /\ ~inst.flushErr /\ ~inst.failed

(* The module returns, at the end of the block or early. *)
GuestReturns ==
  /\ InGuest
  /\ IF Finished THEN UNCHANGED faults ELSE Fault
  /\ run' = [run EXCEPT !.pc = "ended", !.ok = Succeeded]
  /\ UNCHANGED <<chain, disk, ctx, slot, inst, spoiled>>

(***************************************************************************)
(* After the module: state root, slot, refresh.                            *)
(***************************************************************************)
TakeBatch ==
  /\ run.pc = "ended" /\ run.ok
  /\ run' = [run EXCEPT !.pc = "refresh", !.batch = slot]
  /\ slot' = NoValue
  /\ UNCHANGED <<chain, disk, ctx, inst, faults, spoiled>>

(* calculate_state_root failing returns at once: the slot stays armed and  *)
(* the memory as the module left it.                                       *)
RootFails ==
  /\ Fault
  /\ run.pc = "ended" /\ run.ok
  /\ run' = [run EXCEPT !.pc = "attempt"]
  /\ spoiled' = TRUE
  /\ UNCHANGED <<chain, disk, ctx, slot, inst>>

Disarm ==
  /\ run.pc = "ended" /\ ~run.ok
  /\ slot' = NoValue
  /\ run' = [run EXCEPT !.pc = "refresh"]
  /\ UNCHANGED <<chain, disk, ctx, inst, faults, spoiled>>

RefreshedMemory == [FreshInst EXCEPT !.failed = inst.failed]

Refreshed == FreshInst

Refresh ==
  /\ run.pc = "refresh"
  /\ inst' = Refreshed
  /\ run' = [run EXCEPT !.pc = IF run.ok THEN "commit" ELSE "attempt"]
  /\ UNCHANGED <<chain, disk, ctx, slot, faults, spoiled>>

(* A refresh that fails is an error of the attempt either way; the caller's *)
(* own refresh between attempts does nothing in this host.                  *)
RefreshFails ==
  /\ Fault
  /\ run.pc = "refresh"
  /\ run' = [run EXCEPT !.pc = "attempt"]
  /\ spoiled' = TRUE
  /\ UNCHANGED <<chain, disk, ctx, slot, inst>>

(***************************************************************************)
(* The commit and the rollback.                                            *)
(***************************************************************************)
Commit ==
  /\ run.pc = "commit" /\ run.h = Len(disk) + 1
  /\ disk' = Append(disk, PipeTo(run.batch, GetAt(Len(disk))))
  /\ chain' = Append(chain, run.block)
  /\ run' = IdleRun
  /\ UNCHANGED <<ctx, slot, inst, faults, spoiled>>

CommitFails ==
  /\ Fault
  /\ run.pc = "commit" /\ run.h = Len(disk) + 1
  /\ run' = [run EXCEPT !.pc = "attempt"]
  /\ UNCHANGED <<chain, disk, ctx, slot, inst, spoiled>>

(* Out of order: surfaced at once, never retried. *)
CommitRejected ==
  /\ run.pc = "commit" /\ run.h # Len(disk) + 1
  /\ run' = IdleRun
  /\ UNCHANGED <<chain, disk, ctx, slot, inst, faults, spoiled>>

(* handle_reorg, called by another task while a block may be running. *)
Rollback(h) ==
  /\ Fault
  /\ h < Len(disk)
  /\ disk' = SubSeq(disk, 1, h) /\ chain' = SubSeq(chain, 1, h)
  /\ UNCHANGED <<run, ctx, slot, inst, spoiled>>

RunnerDone == run.pc = "idle" /\ Len(disk) = MaxHeight /\ UNCHANGED runnerVars

RunnerNext ==
  \/ \E block \in Programs : BeginBlock(block)
  \/ Arm \/ GuestCalls \/ Flush \/ FlushFails \/ HostCallFails \/ GuestTraps
  \/ GuestReturns \/ TakeBatch \/ RootFails \/ Disarm \/ Refresh \/ RefreshFails
  \/ Commit \/ CommitFails \/ CommitRejected
  \/ \E h \in 0 .. MaxHeight : Rollback(h)
  \/ RunnerDone

RunnerSpec == RunnerInit /\ [][RunnerNext]_runnerVars

(* The caller's task is scheduled and retries without a bound. *)
Progress ==
  \/ \E block \in Programs : BeginBlock(block)
  \/ Arm \/ GuestCalls \/ Flush \/ GuestReturns \/ TakeBatch \/ Disarm \/ Refresh
  \/ Commit \/ CommitRejected

FairRunnerSpec == RunnerSpec /\ WF_runnerVars(Progress)

(***************************************************************************)
(* Properties.                                                             *)
(***************************************************************************)
(* Every committed block had the effect its calls are for, once: caches,   *)
(* checkpoints, failed attempts, retries and a rollback under a running    *)
(* block leave no trace, unless a memory refresh was missed.               *)
EffectsExact ==
  ~spoiled =>
    \A h \in 1 .. Len(disk) : disk[h] = Plus(GetAt(h - 1), AddsOf(chain[h]))

(* Every block ends up indexed: no failed attempt leaves the host in a     *)
(* state in which all later attempts fail.                                 *)
IndexCompletes == <>[](Len(disk) = MaxHeight)
=============================================================================
