----------------------------- MODULE ViewServer -----------------------------
(***************************************************************************)
(* The JSON-RPC handler of rockshrew-mono: a request is a handler          *)
(* future, which races the work against a timer and may be dropped when    *)
(* its client goes away, and a spawned worker, which races the method      *)
(* against a cancellation token.  Views and previews take a permit and     *)
(* read the database get by get while blocks are committed and rolled      *)
(* back.  A preview first runs a block over its own handle on the database.*)
(* Two keys stand for the index: every block updates both, the block of a  *)
(* preview only the first.                                                 *)
(***************************************************************************)
EXTENDS Integers, Sequences, FiniteSets, ListSearch

CONSTANTS
  MaxHeight,       \* bound on the heights
  MaxRollbacks,    \* bound on the rollbacks
  NoValue,         \* None
  Requests,        \* the requests a client makes
  Methods,         \* subset of {"view", "preview", "storage"}
  Forked,          \* --fork: the database is read through a ForkAdapter
  ViewConcurrency  \* --view-concurrency

ASSUME ServerAssumption ==
  /\ ViewConcurrency \in Nat \ {0}
  /\ MaxHeight \in Nat /\ MaxRollbacks \in Nat /\ Forked \in BOOLEAN
  /\ Methods \subseteq {"view", "preview", "storage"}
  /\ IsFiniteSet(Requests)

VARIABLES
  first,     \* the slots of the first key
  disk,      \* the slots of the second key: one per height from 1 to the tip
  current,   \* current_height of the engine
  moving,    \* the tip a commit or a rollback has still to publish, or NoValue
  cuts,      \* how many more rollbacks there may be
  req,       \* each request: handler, worker, and what the worker found
  free,      \* permits of the semaphore
  enabled    \* enable_preview, set at startup

indexVars == <<first, disk, current, moving, cuts>>
hostVars  == <<first, disk, current, moving, cuts, req, free, enabled>>

SatSub(a, b) == IF a > b THEN a - b ELSE 0

Empty == <<0, NoValue>>

(* What the index holds at a height, in a list of one slot per height.     *)
SlotAt(d, h) ==
  IF h = 0 \/ d = <<>> THEN Empty ELSE d[IF h <= Len(d) THEN h ELSE Len(d)]

(* A rollback drops the slots above its target from the end of a list.     *)
Trimmed(d, h) ==
  LET kept == {i \in DOMAIN d : d[i][1] <= h}
  IN  SubSeq(d, 1, IF kept = {} THEN 0 ELSE CHOOSE i \in kept : \A j \in kept : j <= i)

NoSearch == StartSearch(0, Empty)

Latest == 0   \* the height string "latest"

NewRequest ==
  [method |-> "none", asked |-> Latest, front |-> "new", work |-> "none", cancelled |-> FALSE,
   h |-> 0, search |-> NoSearch, got |-> <<>>, shadow |-> <<>>,
   truth |-> NoValue, cut |-> {}]

ServerInit ==
  /\ first = <<>> /\ disk = <<>> /\ current = 1 /\ moving = NoValue /\ cuts = MaxRollbacks
  /\ req = [r \in Requests |-> NewRequest]
  /\ free = ViewConcurrency /\ enabled \in BOOLEAN

Limited(r) == req[r].method \in {"view", "preview"}

Holds(r) == Limited(r) /\ req[r].work \in {"resolve", "execute", "read"}

Running(r) == req[r].work \notin {"none", "done"}

Upd(r, new) == req' = [req EXCEPT ![r] = new]

(* The worker ends, with an answer or an error (the codes are left out);   *)
(* what it held and found is dropped with it. *)
ReleasedOnReturn(r) == IF Holds(r) /\ ~req[r].cancelled THEN free + 1 ELSE free

Released(r) == IF Holds(r) THEN free + 1 ELSE free

WorkerEnds(r) ==
  /\ Upd(r, [NewRequest EXCEPT !.front = req[r].front, !.work = "done"])
  /\ free' = Released(r)

(* The module of a view yields every 10000 units of fuel.  preview() sets  *)
(* no such interval: its block and its view run to their end without a     *)
(* point at which they could be dropped.                                   *)
NeverYields(r) == req[r].method = "preview" /\ req[r].work \in {"execute", "read"}

Working(r, step) == req[r].work = step /\ (req[r].cancelled => NeverYields(r))

(***************************************************************************)
(* The worker.                                                             *)
(***************************************************************************)
Post(r, m, a) ==
  /\ req[r].front = "new"
  /\ Upd(r, [req[r] EXCEPT !.front = "open", !.method = m, !.asked = a,
       !.work = IF m = "storage" THEN "lookup" ELSE "floor"])
  /\ UNCHANGED <<indexVars, free, enabled>>

(* Storage methods: one read of the store. *)
StorageRead(r) ==
  /\ Working(r, "lookup")
  /\ WorkerEnds(r)
  /\ UNCHANGED <<indexVars, enabled>>

PreviewRefused(r) ==
  /\ Working(r, "floor") /\ req[r].method = "preview" /\ ~enabled
  /\ WorkerEnds(r)
  /\ UNCHANGED <<indexVars, enabled>>

(* The memory floor, on a figure of the host that is at most one refresh   *)
(* old: below it the request is refused at once, without a wait.           *)
CheckFloor(r) ==
  /\ Working(r, "floor")
  /\ req[r].method = "preview" => enabled
  /\ \/ Upd(r, [req[r] EXCEPT !.work = "permit"]) /\ UNCHANGED free
     \/ WorkerEnds(r)
  /\ UNCHANGED <<indexVars, enabled>>

AcquirePermit(r) ==
  /\ Working(r, "permit") /\ free > 0
  /\ free' = free - 1
  /\ Upd(r, [req[r] EXCEPT !.work = "resolve"])
  /\ UNCHANGED <<indexVars, enabled>>

AcquireTimesOut(r) ==
  /\ Working(r, "permit") /\ free = 0
  /\ WorkerEnds(r)
  /\ UNCHANGED <<indexVars, enabled>>

(* What a request of this method may count on: that its height is indexed; *)
(* a preview also that it is the tip, on which its block is put.           *)
Stands(r, h, d) == IF req[r].method = "preview" THEN h = Len(d) ELSE h <= Len(d)

(* The engine lock is held for this step only: "latest" is one below       *)
(* current_height.  The history variable truth notes what the index holds  *)
(* at that height, NoValue if the height is not there (for a preview: not  *)
(* the tip).                                                               *)
ResolveHeight(r) ==
  /\ Working(r, "resolve")
  /\ LET h == IF req[r].asked = Latest THEN SatSub(current, 1) ELSE req[r].asked
     IN  Upd(r, [req[r] EXCEPT !.h = h,
           !.work = IF req[r].method = "preview" THEN "execute" ELSE "read",
           !.truth = IF Stands(r, h, disk) THEN SlotAt(disk, h) ELSE NoValue])
  /\ UNCHANGED <<indexVars, free, enabled>>

(* A request that does not decode. *)
DecodeFails(r) ==
  /\ Working(r, "resolve")
  /\ WorkerEnds(r)
  /\ UNCHANGED <<indexVars, enabled>>

(* create_isolated_copy: the copy of a RocksDBRuntimeAdapter has a map of  *)
(* its own for what is written; a ForkAdapter has the trait's default, a   *)
(* clone, and the clone writes to the database.                            *)
IsolatedCopyCloned == FALSE

IsolatedCopy == ~Forked

(* Numbered above every branch of the chain. *)
PreviewSlot(r) == <<req[r].h + 1, MaxRollbacks + 1>>

(* What writing the block's batch to the copy leaves in the database, and  *)
(* in the copy's own map.                                                  *)
FirstWritten(r) == IF IsolatedCopy THEN first ELSE Append(first, PreviewSlot(r))

ShadowWritten(r) == IF IsolatedCopy THEN <<Len(first) + 1, PreviewSlot(r)>> ELSE <<>>

(* A preview runs its block over such a copy: the guest's __flush finds no *)
(* armed slot in the preview's context and writes the batch to the copy.   *)
PreviewExecutes(r) ==
  /\ Working(r, "execute")
  /\ first' = FirstWritten(r)
  /\ Upd(r, [req[r] EXCEPT !.work = "read", !.shadow = ShadowWritten(r)])
  /\ UNCHANGED <<disk, current, moving, cuts, free, enabled>>

PreviewFails(r) ==
  /\ Working(r, "execute")
  /\ WorkerEnds(r)
  /\ UNCHANGED <<indexVars, enabled>>

(* The first key's slots as a handle reads them: the shadow's slot and     *)
(* length, then the database, where slots may have gone since.             *)
SlotsSeen(r) ==
  IF req[r].shadow = <<>> THEN first
  ELSE LET len == req[r].shadow[1]
       IN  [i \in 1 .. len |-> IF i = len THEN req[r].shadow[2]
                               ELSE IF i <= Len(first) THEN first[i] ELSE Empty]

(* A guest asks for the length of a key's value and then for the value     *)
(* (__get_len, __get), and each is a search of the list: the first key's   *)
(* twice, then the second's once.  The view of a preview reads at the      *)
(* height of the preview's block.                                          *)
Asked == <<"first", "first", "second">>

Reading(r) == Working(r, "read") /\ Len(req[r].got) < Len(Asked)

ListSeen(r) == IF Asked[Len(req[r].got) + 1] = "first" THEN SlotsSeen(r) ELSE disk

ReadHeight(r) == IF req[r].method = "view" THEN req[r].h ELSE req[r].h + 1

(* What the guest is told: nothing after an error. *)
Told(r, slot) ==
  Upd(r, [req[r] EXCEPT !.got = Append(@, slot), !.search = NoSearch])

(* The get of the list's length. *)
ReadLength(r) ==
  /\ Reading(r) /\ req[r].search = NoSearch
  /\ LET l == Len(ListSeen(r))
     IN  IF l = 0 THEN Told(r, Empty)
         ELSE Upd(r, [req[r] EXCEPT !.search = StartSearch(l, Empty)])
  /\ UNCHANGED <<indexVars, free, enabled>>

(* The get of a slot, and the answer after the last.  A slot that is gone  *)
(* is an error of the search, of which get_value_at_height's callers make  *)
(* an empty value. *)
ReadSlot(r) ==
  /\ Reading(r) /\ req[r].search # NoSearch
  /\ LET i    == Probed(req[r].search)
         slot == IF i <= Len(ListSeen(r)) THEN ListSeen(r)[i] ELSE Empty
         next == Narrowed(req[r].search, slot, slot[1] <= ReadHeight(r))
     IN  IF slot = Empty THEN Told(r, Empty)
         ELSE IF SearchEnded(next) THEN Told(r, next.best)
         ELSE Upd(r, [req[r] EXCEPT !.search = next])
  /\ UNCHANGED <<indexVars, free, enabled>>

ViewReturns(r) ==
  /\ Working(r, "read") /\ Len(req[r].got) = Len(Asked)
  /\ WorkerEnds(r)
  /\ UNCHANGED <<indexVars, enabled>>

(* A memory.grow past the cap traps; only views have the cap. *)
ViewOutgrows(r) ==
  /\ Working(r, "read") /\ req[r].method = "view"
  /\ WorkerEnds(r)
  /\ UNCHANGED <<indexVars, enabled>>

(* The worker's select sees the token first. *)
WorkerCancelled(r) ==
  /\ Running(r) /\ req[r].cancelled /\ ~NeverYields(r)
  /\ WorkerEnds(r)
  /\ UNCHANGED <<indexVars, enabled>>

(***************************************************************************)
(* The handler.                                                            *)
(***************************************************************************)
Answer(r) ==
  /\ req[r].front = "open" /\ req[r].work = "done"
  /\ Upd(r, [req[r] EXCEPT !.front = "closed"])
  /\ UNCHANGED <<indexVars, free, enabled>>

(* Mutant: the client is answered and the worker left alone. *)
TimedOutOnly(r) == [req[r] EXCEPT !.front = "closed"]

(* The request's end without its worker: the token is cancelled.  A module *)
(* that never yields goes on; what another worker has found is of no use   *)
(* any more.                                                               *)
TimedOut(r) ==
  IF NeverYields(r) THEN [req[r] EXCEPT !.front = "closed", !.cancelled = TRUE]
  ELSE [NewRequest EXCEPT !.front = "closed", !.cancelled = TRUE,
          !.method = req[r].method, !.work = req[r].work]

TimerFires(r) ==
  /\ req[r].front = "open"
  /\ Upd(r, TimedOut(r))
  /\ UNCHANGED <<indexVars, free, enabled>>

(* The handler future is dropped and its guard cancels the token. *)
ClientGone(r) ==
  /\ req[r].front = "open"
  /\ Upd(r, TimedOut(r))
  /\ UNCHANGED <<indexVars, free, enabled>>

(* The indexer and handle_reorg write the index first and current_height   *)
(* after it; the blocks after a rollback are of another branch.            *)
CommitBlock ==
  /\ moving = NoValue /\ Len(disk) < MaxHeight
  /\ disk' = Append(disk, <<Len(disk) + 1, cuts>>) /\ moving' = Len(disk) + 1
  /\ first' = Append(first, <<Len(disk) + 1, cuts>>)
  /\ UNCHANGED <<current, cuts>>

Rollback(h) ==
  /\ moving = NoValue /\ cuts > 0 /\ h < Len(disk)
  /\ disk' = Trimmed(disk, h) /\ first' = Trimmed(first, h) /\ moving' = h /\ cuts' = cuts - 1
  /\ UNCHANGED current

PublishTip ==
  /\ moving # NoValue
  /\ current' = moving + 1 /\ moving' = NoValue
  /\ UNCHANGED <<first, disk, cuts>>

(* The history variables: a request whose height is rolled back, or whose  *)
(* preview's height is indexed, has nothing to count on any more; a search *)
(* is noted whose list became shorter meanwhile.                           *)
StillStands(r) ==
  IF req[r].work \in {"execute", "read"} /\ ~Stands(r, req[r].h, disk') THEN NoValue
  ELSE req[r].truth

SearchesCut(r) ==
  IF Len(disk') < Len(disk) /\ req[r].search # NoSearch THEN {Len(req[r].got) + 1} ELSE {}

(* Below the requests the index moves. *)
IndexerStep ==
  /\ \/ CommitBlock
     \/ \E h \in 0 .. MaxHeight : Rollback(h)
     \/ PublishTip
  /\ req' = [r \in Requests |->
       [req[r] EXCEPT !.truth = StillStands(r), !.cut = @ \cup SearchesCut(r)]]
  /\ UNCHANGED <<free, enabled>>

RequestStep(r) ==
  \/ \E m \in Methods, a \in {Latest, 1} : Post(r, m, a)
  \/ StorageRead(r) \/ PreviewRefused(r) \/ CheckFloor(r)
  \/ AcquirePermit(r) \/ AcquireTimesOut(r) \/ ResolveHeight(r) \/ DecodeFails(r)
  \/ PreviewExecutes(r) \/ PreviewFails(r) \/ ReadLength(r) \/ ReadSlot(r) \/ ViewReturns(r)
  \/ ViewOutgrows(r) \/ WorkerCancelled(r) \/ Answer(r) \/ TimerFires(r)
  \/ ClientGone(r)

HostDone ==
  /\ \A r \in Requests : req[r].front \notin {"new", "open"} /\ ~Running(r)
  /\ moving = NoValue /\ Len(disk) = MaxHeight
  /\ UNCHANGED hostVars

HostNext ==
  \/ IndexerStep
  \/ \E r \in Requests : RequestStep(r)
  \/ HostDone

HostSpec == ServerInit /\ [][HostNext]_hostVars

(* Timers fire and a cancelled worker reaches its next yield, if it has    *)
(* one; nothing is asked of the modules, which may never return.           *)
FairHostSpec ==
  /\ HostSpec
  /\ \A r \in Requests :
       /\ WF_hostVars(TimerFires(r)) /\ WF_hostVars(WorkerCancelled(r))

(***************************************************************************)
(* Properties.                                                             *)
(***************************************************************************)
(* Permits are neither lost nor made: every way a worker ends, cancelled   *)
(* between any two of its steps included, gives back what it took.         *)
PermitsBalance == free + Cardinality({r \in Requests : Holds(r)}) = ViewConcurrency

(* No request outlives its timer: the client is answered or gone, and the  *)
(* worker gone with it, though the view it runs never returns.  Only the   *)
(* worker of a preview may stay, in its module and with its permit.        *)
NoOrphans ==
  \A r \in Requests :
    req[r].front = "open" ~> req[r].front # "open" /\ (Running(r) => NeverYields(r))

(* The answer a request expects to its question i: a view the chain's      *)
(* state at its height; a preview its block's update in the key the block  *)
(* updates, and the state below the block in the other.                    *)
Expected(r, i) ==
  IF req[r].method = "preview" /\ Asked[i] = "first" THEN PreviewSlot(r) ELSE req[r].truth

(* A request at a height that was indexed when it began and not rolled     *)
(* back since is told the chain's state at that height in all its keys,    *)
(* although every slot is read by a get of its own and blocks are          *)
(* committed, rolled back above the height and previewed in between.  The  *)
(* one thing that may go wrong is that a rollback shortens a list while it *)
(* is being searched: that search may end in an error, which the guest     *)
(* sees as an empty value.                                                 *)
ViewsConsistent ==
  \A r \in Requests : req[r].truth # NoValue =>
    \A i \in DOMAIN req[r].got :
      req[r].got[i] = Expected(r, i) \/ (i \in req[r].cut /\ req[r].got[i] = Empty)

=============================================================================
