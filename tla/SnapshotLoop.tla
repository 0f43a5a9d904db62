---------------------------- MODULE SnapshotLoop ----------------------------
(***************************************************************************)
(* SnapshotMetashrewSync driven block by block, as its own loop            *)
(* (run_snapshot_sync_loop) or by a caller of process_next_block, with the *)
(* incremental snapshots SnapshotManager makes of what the blocks changed, *)
(* and another host that rebuilds an index from them (sync_from_repo).     *)
(* Every snapshot is an interval of heights and the last value of each key *)
(* that changed in it; only the sequence of them all is a copy.            *)
(***************************************************************************)
EXTENDS Ledger

CONSTANTS
  Drivers,      \* subset of {"loop", "next", "repo"}: who drives the blocks
  Interval,     \* snapshot_interval
  MaxTracked,   \* max_tracked_changes
  CheckInterval,\* memory_check_interval
  MaxAttempts,  \* MAX_ATOMIC_COMMIT_ATTEMPTS
  ExitAt,       \* exit_at
  FreshTips     \* where a rebuilding host may start: empty, or inside an interval

ASSUME SnapshotAssumption ==
  /\ Drivers \subseteq {"loop", "next", "repo"}
  /\ Interval \in Nat \ {0} /\ MaxTracked \in Nat \ {0} /\ CheckInterval \in Nat \ {0}
  /\ MaxAttempts \in Nat \ {0}
  /\ ExitAt \in Nat
  /\ FreshTips \subseteq {t \in Heights : t = 0 \/ t % Interval # 0}

VARIABLES
  driver,    \* "loop", "next", or "repo" (the loop in SyncMode::Repo)
  current,   \* current_height
  lp,        \* the block being driven: step, local height, block data, hash, attempts,
             \* keys to track, and (history) whether the node reorganised meanwhile
  body,      \* the block that was executed at a height: its updates are the index's
  crossed,   \* history: the heights at which the node reorganised meanwhile
  tracked,   \* key_changes and key_change_heights: the block that last set a key
  lastSnap,  \* last_snapshot_height
  repo,      \* index.json and the diffs it names
  lossy,     \* history: the tracked changes were not all of the interval
  jumped,    \* history: current_height came from a downloaded snapshot
  con        \* the rebuilding host

ran      == <<body, crossed>>
loopVars == <<driver, current, lp, ran, jumped>>
snapVars == <<tracked, lastSnap, repo, lossy>>
allVars  == <<best, moved, faults, indexed, hash, driver, current, lp, body, crossed,
              jumped, tracked, lastSnap, repo, lossy, con>>

Idle == [pc |-> "top", h |-> 0, data |-> NoBlock, hash |-> NoBlock, tries |-> 0,
         left |-> {}, crossed |-> FALSE]

Nothing == [k \in Keys |-> NoBlock]

(* The index a host has built: the last block that set each key. *)
ValueAt(h) ==
  [k \in Keys |->
     LET set == {x \in 0 .. h : body[x] # NoBlock /\ Updates[body[x]][k] > 0}
     IN  IF set = {} THEN NoBlock
         ELSE body[CHOOSE x \in set : \A y \in set : y <= x]]

Consumer(tip) ==
  [pc |-> "idle", tip |-> tip, val |-> Nothing, todo |-> {}, left |-> {},
   gap |-> FALSE, truth |-> Nothing]

SnapInit ==
  /\ LedgerInit
  /\ driver \in Drivers
  /\ current = StartBlock /\ lp = [Idle EXCEPT !.pc = "start", !.h = StartBlock]
  /\ body = [h \in Heights |-> NoBlock] /\ crossed = {} /\ jumped = FALSE
  /\ tracked = Nothing /\ lastSnap = 0 /\ repo = <<>> /\ lossy = FALSE
  /\ con \in {Consumer(t) : t \in FreshTips}

(***************************************************************************)
(* Choosing the block.                                                     *)
(***************************************************************************)
chooseOthers == <<ledger, driver, ran, jumped, snapVars, con>>

(* process_next_block starts from current_height. *)
NextCall ==
  /\ driver = "next" /\ lp.pc \in {"start", "top", "wait"}
  /\ lp' = [Idle EXCEPT !.pc = "tip", !.h = current]
  /\ UNCHANGED <<chooseOthers, current>>

(* The loop keeps its own height. *)
LoopRound ==
  /\ driver # "next" /\ lp.pc \in {"start", "top", "wait"}
  /\ lp' = [Idle EXCEPT !.pc = "tip", !.h = lp.h]
  /\ UNCHANGED <<chooseOthers, current>>

(* Mutant: process_next_block does not look for a reorganisation. *)
LooksBackInLoop(h) == h > 0 /\ driver # "next" /\ NearTip(Height[best], h)

(* process_next_block always looks for a reorganisation, the loop near the *)
(* tip. *)
LooksBack(h) == h > 0 /\ (driver = "next" \/ NearTip(Height[best], h))

Undoes(h) == LooksBack(h) /\ ReorgDetected(h)

(* The loop stops at the exit height, process_next_block above it. *)
AtExit(h) == IF driver = "next" THEN h > ExitAt ELSE h >= ExitAt

ChooseBlock ==
  /\ lp.pc = "tip"
  /\ lp' = IF Undoes(lp.h) THEN [lp EXCEPT !.pc = "undo", !.h = WalkEnd(lp.h)]
           ELSE IF AtExit(lp.h) THEN [lp EXCEPT !.pc = "exit"]
           ELSE IF lp.h > Height[best] THEN [lp EXCEPT !.pc = "wait"]
           ELSE [lp EXCEPT !.pc = "data"]
  /\ UNCHANGED <<chooseOthers, current>>

(* The storage's rollback to the end of the walk. *)
RollsBack(r) ==
  /\ RollbackTo(r)
  /\ body' = [h \in Heights |-> IF h \in r + 1 .. indexed THEN NoBlock ELSE body[h]]
  /\ lossy' = (lossy \/ r < lastSnap)

(* Mutant: the caller's path forgets the rewound height. *)
UndoForgets ==
  /\ lp.pc = "undo"
  /\ RollsBack(lp.h)
  /\ lp' = [Idle EXCEPT !.h = lp.h + 1]
  /\ UNCHANGED <<best, moved, faults, driver, current, crossed, jumped, tracked, lastSnap,
                 repo, con>>

(* handle_reorg's rollback.  The loop goes on from its own height and      *)
(* leaves current_height where it was. *)
Undo ==
  /\ lp.pc = "undo"
  /\ RollsBack(lp.h)
  /\ current' = IF driver = "next" THEN lp.h + 1 ELSE current
  /\ lp' = [Idle EXCEPT !.h = lp.h + 1]
  /\ UNCHANGED <<best, moved, faults, driver, crossed, jumped, tracked, lastSnap, repo, con>>

(* get_best_snapshot offers heights between current_height and the tip.    *)
Offered(s) == current < s /\ s <= Height[best]

(* In SyncMode::Repo, at the start and while waiting for blocks: the best  *)
(* snapshot between current_height and the tip is applied, and its own     *)
(* height becomes current_height.  The consumer in the repository offers   *)
(* none and applies nothing: the index is what the trait asks of one. *)
ApplySnapshot(s) ==
  /\ driver = "repo" /\ lp.pc \in {"start", "wait"}
  /\ Offered(s)
  /\ indexed' = s /\ hash' = [hash EXCEPT ![s] = Ancestry(best)[s]]
  /\ body' = [body EXCEPT ![s] = Ancestry(best)[s]]
  /\ current' = s /\ lp' = [Idle EXCEPT !.h = s] /\ jumped' = TRUE
  /\ UNCHANGED <<node, faults, driver, crossed, snapVars, con>>

(***************************************************************************)
(* process_block_with_snapshots.                                           *)
(***************************************************************************)
GetData ==
  /\ lp.pc = "data"
  /\ lp' = [lp EXCEPT !.pc = "hash", !.data = Ancestry(best)[lp.h]]
  /\ UNCHANGED <<chooseOthers, current>>

(* The hash is asked for in a second call. *)
GetHash ==
  /\ lp.pc = "hash"
  /\ lp' = [lp EXCEPT !.pc = "guard", !.hash = Ancestry(best)[lp.h], !.tries = 1]
  /\ UNCHANGED <<chooseOthers, current>>

(* The staleness guard, then the bound on attempts: an error leaves the    *)
(* height to be tried again. *)
Attempt ==
  /\ lp.pc = "guard"
  /\ lp' = IF lp.h < current THEN [Idle EXCEPT !.h = lp.h + 1]
           ELSE IF lp.tries > MaxAttempts THEN [Idle EXCEPT !.h = lp.h]
           ELSE [lp EXCEPT !.pc = "run"]
  /\ UNCHANGED <<chooseOthers, current>>

(* A call to the node or an attempt fails. *)
StepFails ==
  /\ Fault
  /\ lp.pc \in {"tip", "data", "hash", "run", "track", "commit"}
  /\ lp' = IF lp.pc \in {"run", "track", "commit"}
           THEN [lp EXCEPT !.pc = "guard", !.tries = @ + 1, !.left = {}]
           ELSE [Idle EXCEPT !.h = lp.h]
  /\ UNCHANGED <<node, index, driver, ran, jumped, snapVars, con, current>>

(* Mutant: a change in the block after the last snapshot is not in this    *)
(* one. *)
ChangedAfterNext(k) == tracked[k] # NoBlock /\ Height[tracked[k]] > lastSnap + 1

(* Changed since the last snapshot. *)
Changed(k) == tracked[k] # NoBlock /\ Height[tracked[k]] > lastSnap

(* clear_tracked_changes, while k is about to be tracked again. *)
Loses(k) == \E j \in Keys \ {k} : Changed(j)

(* set_current_height: at some heights the memory is looked at, and        *)
(* everything is dropped when there is too much of it (how much is not     *)
(* modelled).  Then the block is executed.                                 *)
RunBlock ==
  /\ lp.pc = "run"
  /\ \/ UNCHANGED <<tracked, lossy>>
     \/ /\ lp.h % CheckInterval = 0
        /\ tracked' = Nothing
        /\ lossy' = (lossy \/ \E k \in Keys : Changed(k))
  /\ lp' = [lp EXCEPT !.pc = "track", !.left = {k \in Keys : Updates[lp.data][k] > 0}]
  /\ UNCHANGED <<ledger, driver, current, ran, jumped, lastSnap, repo, con>>

Full == Cardinality({k \in Keys : tracked[k] # NoBlock}) >= MaxTracked

(* track_key_change, for every key the guest flushes, whether or not the   *)
(* block is committed afterwards.  At the limit everything is dropped      *)
(* first, although the key may be tracked already, and other keys of this  *)
(* block with it. *)
TrackKey(k) ==
  /\ lp.pc = "track" /\ k \in lp.left
  /\ tracked' = [IF Full THEN Nothing ELSE tracked EXCEPT ![k] = lp.data]
  /\ lossy' = (lossy \/ (Full /\ Loses(k)))
  /\ lp' = [lp EXCEPT !.left = @ \ {k}]
  /\ UNCHANGED <<ledger, driver, current, ran, jumped, lastSnap, repo, con>>

BlockRan ==
  /\ lp.pc = "track" /\ lp.left = {}
  /\ lp' = [lp EXCEPT !.pc = "commit"]
  /\ UNCHANGED <<chooseOthers, current>>

(* The block that was executed goes into the index, the hash of the second *)
(* call into the records. *)
CommitBlock ==
  /\ lp.pc = "commit" /\ Accepts(lp.h)
  /\ Commit(lp.hash)
  /\ body' = [body EXCEPT ![lp.h] = lp.data]
  /\ crossed' = IF lp.crossed THEN crossed \cup {lp.h} ELSE crossed \ {lp.h}
  /\ current' = lp.h + 1
  /\ lp' = [lp EXCEPT !.pc = "snap"]
  /\ UNCHANGED <<node, faults, driver, jumped, snapVars, con>>

(* An out-of-order rejection is not retried: the caller gets the error. *)
RejectBlock ==
  /\ lp.pc = "commit" /\ ~Accepts(lp.h)
  /\ lp' = [Idle EXCEPT !.h = lp.h]
  /\ UNCHANGED <<chooseOthers, current>>

(***************************************************************************)
(* create_snapshot_if_needed.                                              *)
(***************************************************************************)

(* The tracked changes that are not the index's: of an abandoned branch. *)
Orphans == {k \in Keys : Changed(k) /\ body[Height[tracked[k]]] # tracked[k]}

Due(h) == h > 0 /\ h % Interval = 0

(* The provider copies the runtime's tracked changes, writes those of the  *)
(* interval and adds the interval to index.json.  The copy is trimmed, the *)
(* runtime's changes stay. *)
CreateSnapshot ==
  /\ lp.pc = "snap" /\ Due(lp.h)
  /\ repo' = Append(repo, [from |-> lastSnap, to |-> lp.h,
                           diff |-> [k \in {x \in Keys : Changed(x)} |-> tracked[k]],
                           truth |-> ValueAt(lp.h)])
  /\ lossy' = (lossy \/ Orphans # {})
  /\ lastSnap' = lp.h
  /\ lp' = [Idle EXCEPT !.h = lp.h + 1]
  /\ UNCHANGED <<ledger, driver, current, ran, jumped, tracked, con>>

(* No snapshot is due, or making one failed, which only a log line tells. *)
NoSnapshot ==
  /\ lp.pc = "snap"
  /\ IF Due(lp.h) THEN Fault ELSE UNCHANGED faults
  /\ lp' = [Idle EXCEPT !.h = lp.h + 1]
  /\ UNCHANGED <<node, index, driver, current, ran, jumped, snapVars, con>>

(* A killed process: tracked changes are in memory, and the provider       *)
(* starts from the indexed height. *)
Restart ==
  /\ Fault
  /\ current' = IF indexed = 0 THEN StartBlock ELSE indexed + 1
  /\ lp' = [Idle EXCEPT !.pc = "start", !.h = current']
  /\ tracked' = Nothing /\ lastSnap' = indexed
  /\ lossy' = (lossy \/ lastSnap # indexed)
  /\ UNCHANGED <<node, index, driver, ran, jumped, repo, con>>

(***************************************************************************)
(* sync_from_repo on another host.                                         *)
(***************************************************************************)
conOthers == <<best, moved, indexed, hash, loopVars, snapVars>>

(* The intervals above the tip of the host's database, by their positions  *)
(* in index.json; they are applied in index order.                         *)
Applicable(tip) == {i \in DOMAIN repo : repo[i].to > tip}

First(S) == CHOOSE i \in S : \A j \in S : i <= j

Coming == repo[First(con.todo)]

Rest == con.todo \ {First(con.todo)}

SyncStarts ==
  /\ con.pc \in {"idle", "dead"} /\ Applicable(con.tip) # {}
  /\ con' = [con EXCEPT !.pc = "recv", !.todo = Applicable(con.tip)]
  /\ UNCHANGED <<conOthers, faults>>

(* A file of an interval cannot be downloaded: the fetch task goes on with *)
(* the next interval. *)
DownloadFails ==
  /\ Fault
  /\ con.pc = "recv" /\ con.todo # {}
  /\ con' = [con EXCEPT !.todo = Rest, !.gap = TRUE]
  /\ UNCHANGED conOthers

Partial(i) == i.from < con.tip /\ con.tip < i.to

(* An interval the database is in the middle of is skipped. *)
SkipPartial ==
  /\ con.pc = "recv" /\ con.todo # {} /\ Partial(Coming)
  /\ con' = [con EXCEPT !.todo = Rest, !.gap = TRUE]
  /\ UNCHANGED <<conOthers, faults>>

ApplyInterval ==
  /\ con.pc = "recv" /\ con.todo # {} /\ ~Partial(Coming)
  /\ con' = [con EXCEPT !.pc = "keys", !.left = DOMAIN Coming.diff]
  /\ UNCHANGED <<conOthers, faults>>

(* key/length = 1 and key/0: the only value the list has. *)
PutKey ==
  /\ con.pc = "keys"
  /\ \E k \in con.left :
       con' = [con EXCEPT !.left = @ \ {k}, !.val[k] = Coming.diff[k]]
  /\ UNCHANGED <<conOthers, faults>>

(* The root, which is compared with itself, and then the tip height. *)
PutTip ==
  /\ con.pc = "keys" /\ con.left = {}
  /\ con' = [con EXCEPT !.pc = "recv", !.tip = Coming.to, !.truth = Coming.truth,
                        !.todo = Rest]
  /\ UNCHANGED <<conOthers, faults>>

SyncEnds ==
  /\ con.pc = "recv" /\ con.todo = {}
  /\ con' = [con EXCEPT !.pc = "idle"]
  /\ UNCHANGED <<conOthers, faults>>

(* Killed between two writes, to be started again. *)
ConsumerDies ==
  /\ Fault
  /\ con.pc \in {"recv", "keys"}
  /\ con' = [con EXCEPT !.pc = "dead", !.todo = {}, !.left = {}]
  /\ UNCHANGED conOthers

(***************************************************************************)
(* The run.                                                                *)
(***************************************************************************)

(* From the look back to the second call to the node. *)
Choosing == lp.pc \in {"data", "hash"}

SnapNode ==
  /\ \E t \in Blocks :
       \/ NodeGrows(t) /\ UNCHANGED lp
       \/ NodeReorganises(t) /\ lp' = [lp EXCEPT !.crossed = @ \/ Choosing]
  /\ UNCHANGED <<driver, current, ran, jumped, snapVars, con>>

SnapDone ==
  /\ lp.pc = "exit"
  /\ UNCHANGED allVars

DriverStep ==
  \/ NextCall \/ LoopRound \/ ChooseBlock \/ Undo
  \/ GetData \/ GetHash \/ Attempt \/ RunBlock
  \/ (\E k \in Keys : TrackKey(k)) \/ BlockRan \/ CommitBlock \/ RejectBlock
  \/ CreateSnapshot \/ NoSnapshot

ConsumerStep ==
  SyncStarts \/ SkipPartial \/ ApplyInterval \/ PutKey \/ PutTip \/ SyncEnds

SnapNext ==
  \/ DriverStep \/ StepFails \/ Restart \/ \E s \in Heights : ApplySnapshot(s)
  \/ ConsumerStep \/ DownloadFails \/ ConsumerDies
  \/ SnapNode \/ SnapDone

SnapSpec == SnapInit /\ [][SnapNext]_allVars

(* The driver's task is run by the executor again and again. *)
FairSnapSpec == SnapSpec /\ WF_allVars(DriverStep)

-----------------------------------------------------------------------------
(***************************************************************************)
(* Properties.                                                             *)
(***************************************************************************)

(* A host that applied intervals one after the other, killed and restarted *)
(* or not, has exactly the index the other host had at that height,        *)
(* although each interval holds its own changes only.  (lossy: changes     *)
(* were dropped or belong to an abandoned branch; gap: an interval could   *)
(* not be downloaded or the database was in the middle of it.) *)
RestoredMatches ==
  con.pc = "idle" /\ con.tip > 0 /\ con.truth # Nothing /\ ~lossy /\ ~con.gap
    => con.val = con.truth

(* What is recorded for a height is the block that was executed there, and *)
(* its parent is the block recorded below: nothing on this path checks     *)
(* either, but handle_reorg before the block.  (crossed: the node          *)
(* reorganised after that and before the hash was asked for.  Such a       *)
(* height stays, and no later height is worse for it.)                     *)
SnapOneChain ==
  ~jumped => \A h \in StartBlock .. indexed :
     hash[h] # NoBlock /\ h \notin crossed =>
        /\ body[h] = hash[h]
        /\ h > StartBlock /\ hash[h - 1] # NoBlock => Parent[hash[h]] = hash[h - 1]

(* The index reaches the node's tip, or the exit height and stops, after   *)
(* reorganisations, failures and restarts.  (Not after a reorganisation in *)
(* the loop, which keeps current_height, nor after a snapshot was applied, *)
(* whose height is asked for again.) *)
SnapCatchesUp ==
  <>[](\/ lp.pc = "exit"
       \/ jumped
       \/ moved /\ driver # "next"
       \/ indexed = Height[best] /\ hash[indexed] = best)
=============================================================================
