-------------------------- MODULE ViewServerProofs --------------------------
(***************************************************************************)
(* Permits of ViewServer balance, and views see one state of the index,    *)
(* for any number of requests, permits and heights and any interleaving    *)
(* of workers, timers, clients and the indexer.                            *)
(***************************************************************************)
EXTENDS ViewServer, FiniteSetTheorems, TLAPS

Holders == {r \in Requests : Holds(r)}

(* A worker between its permit and its end. *)
Permitted == {"resolve", "execute", "read"}

(* What a request is, and that only views and previews ask for a permit. *)
WellFormed(q) ==
  /\ DOMAIN q = DOMAIN NewRequest
  /\ q.front = "new" => q.work = "none"
  /\ q.work \in {"floor", "permit"} \cup Permitted => q.method \in {"view", "preview"}

RequestsWellFormed ==
  /\ req = [r \in Requests |-> req[r]]
  /\ \A r \in Requests : WellFormed(req[r])

PermitInv ==
  /\ RequestsWellFormed
  /\ free \in Nat
  /\ PermitsBalance

(* Changing one request leaves the others' permits alone. *)
LEMMA UpdFacts ==
  ASSUME RequestsWellFormed, NEW r \in Requests, NEW new, WellFormed(new), Upd(r, new)
  PROVE  /\ RequestsWellFormed'
         /\ \A x \in Requests \ {r} : Holds(x)' <=> Holds(x)
         /\ Holds(r)' <=> new.work \in Permitted
<1>1. req' = [req EXCEPT ![r] = new] BY DEF Upd
<1>2. req'[r] = new /\ \A x \in Requests \ {r} : req'[x] = req[x]
  BY <1>1 DEF RequestsWellFormed
<1>3. RequestsWellFormed'
  <2>1. req' = [x \in Requests |-> req'[x]] BY <1>1 DEF RequestsWellFormed
  <2>2. \A x \in Requests : WellFormed(req'[x]) BY <1>2 DEF RequestsWellFormed
  <2> QED BY <2>1, <2>2 DEF RequestsWellFormed, WellFormed
<1>4. \A x \in Requests \ {r} : Holds(x)' <=> Holds(x)
  BY <1>2 DEF Holds, Limited
<1>5. Holds(r)' <=> new.work \in Permitted
  BY <1>2 DEF Holds, Limited, WellFormed, Permitted
<1> QED BY <1>3, <1>4, <1>5

(* The three things a step can do to the permits. *)
LEMMA NobodyMoves ==
  ASSUME PermitInv, RequestsWellFormed', UNCHANGED free,
         \A x \in Requests : Holds(x)' <=> Holds(x)
  PROVE  PermitInv'
<1>1. Holders' = Holders BY DEF Holders
<1> QED BY <1>1 DEF PermitInv, PermitsBalance, Holders

LEMMA OneTakes ==
  ASSUME PermitInv, RequestsWellFormed', NEW r \in Requests,
         ~Holds(r), Holds(r)', \A x \in Requests \ {r} : Holds(x)' <=> Holds(x),
         free > 0, free' = free - 1
  PROVE  PermitInv'
<1>1. Holders' = Holders \cup {r} /\ r \notin Holders BY DEF Holders
<1>2. IsFiniteSet(Holders) BY FS_Subset, ServerAssumption DEF Holders
<1>3. Cardinality(Holders') = Cardinality(Holders) + 1 /\ Cardinality(Holders) \in Nat
  BY <1>1, <1>2, FS_AddElement, FS_CardinalityType
<1> QED BY <1>3, ServerAssumption DEF PermitInv, PermitsBalance, Holders

LEMMA OneGivesBack ==
  ASSUME PermitInv, RequestsWellFormed', NEW r \in Requests,
         Holds(r), ~Holds(r)', \A x \in Requests \ {r} : Holds(x)' <=> Holds(x),
         free' = free + 1
  PROVE  PermitInv'
<1>1. Holders' = Holders \ {r} /\ r \in Holders BY DEF Holders
<1>2. IsFiniteSet(Holders) BY FS_Subset, ServerAssumption DEF Holders
<1>3. Cardinality(Holders') = Cardinality(Holders) - 1 /\ Cardinality(Holders) \in Nat
  BY <1>1, <1>2, FS_RemoveElement, FS_CardinalityType
<1> QED BY <1>3, ServerAssumption DEF PermitInv, PermitsBalance, Holders

(* A step of a request that moves it neither into nor out of the permitted *)
(* steps. *)
LEMMA StepKeepsPermit ==
  ASSUME PermitInv, NEW r \in Requests, NEW new, WellFormed(new), Upd(r, new),
         UNCHANGED free, req[r].work \in Permitted <=> new.work \in Permitted
  PROVE  PermitInv'
<1>1. WellFormed(req[r]) /\ RequestsWellFormed BY DEF PermitInv, RequestsWellFormed
<1>2. Holds(r) <=> req[r].work \in Permitted
  BY <1>1 DEF Holds, Limited, WellFormed, Permitted
<1>3. /\ RequestsWellFormed'
      /\ \A x \in Requests \ {r} : Holds(x)' <=> Holds(x)
      /\ Holds(r)' <=> new.work \in Permitted
  BY <1>1, UpdFacts
<1>4. \A x \in Requests : Holds(x)' <=> Holds(x)
  BY <1>2, <1>3
<1> QED BY <1>3, <1>4, NobodyMoves

(* However a worker ends, it gives back exactly what it holds. *)
LEMMA EndKeepsBalance ==
  ASSUME PermitInv, NEW r \in Requests, WorkerEnds(r), req[r].work # "none"
  PROVE  PermitInv'
<1> DEFINE new == [NewRequest EXCEPT !.front = req[r].front, !.work = "done"]
<1>1. RequestsWellFormed /\ WellFormed(req[r]) BY DEF PermitInv, RequestsWellFormed
<1>2. req[r].front # "new" BY <1>1 DEF WellFormed
<1>3. DOMAIN new = DOMAIN NewRequest /\ new.work = "done" /\ new.front = req[r].front
  BY DEF NewRequest
<1>4. WellFormed(new) BY <1>2, <1>3 DEF WellFormed, Permitted
<1>5. Upd(r, new) /\ free' = Released(r) BY DEF WorkerEnds
<1> HIDE DEF new
<1>6. /\ RequestsWellFormed'
      /\ \A x \in Requests \ {r} : Holds(x)' <=> Holds(x)
      /\ ~Holds(r)'
  BY <1>1, <1>3, <1>4, <1>5, UpdFacts DEF Permitted
<1>7. CASE Holds(r)
  BY <1>5, <1>6, <1>7, OneGivesBack DEF Released
<1>8. CASE ~Holds(r)
  <2>1. UNCHANGED free BY <1>5, <1>8 DEF Released
  <2>2. \A x \in Requests : Holds(x)' <=> Holds(x) BY <1>6, <1>8
  <2> QED BY <1>6, <2>1, <2>2, NobodyMoves
<1> QED BY <1>7, <1>8

(* A request has the fields the steps assign. *)
LEMMA Fields ==
  ASSUME NEW q, WellFormed(q)
  PROVE  {"method", "asked", "front", "work", "cancelled", "h", "search", "got", "shadow",
          "truth", "cut"} = DOMAIN q
BY DEF WellFormed, NewRequest

(* A client posts a request: the handler opens and its worker starts. *)
LEMMA PostKeeps ==
  ASSUME PermitInv, NEW r \in Requests, NEW m \in Methods, NEW a, Post(r, m, a)
  PROVE  PermitInv'
<1> DEFINE new == [req[r] EXCEPT !.front = "open", !.method = m, !.asked = a,
                     !.work = IF m = "storage" THEN "lookup" ELSE "floor"]
<1>1. WellFormed(req[r]) BY DEF PermitInv, RequestsWellFormed
<1>2. req[r].front = "new" /\ Upd(r, new) /\ UNCHANGED free BY DEF Post
<1>3. /\ DOMAIN new = DOMAIN req[r] /\ new.front = "open" /\ new.method = m
      /\ new.work = IF m = "storage" THEN "lookup" ELSE "floor"
  BY <1>1, Fields
<1> HIDE DEF new
<1>4. m \in {"view", "preview", "storage"} BY ServerAssumption
<1>5. WellFormed(new) BY <1>1, <1>3, <1>4 DEF WellFormed, Permitted
<1>6. req[r].work \notin Permitted /\ new.work \notin Permitted
  BY <1>1, <1>2, <1>3 DEF WellFormed, Permitted
<1> QED BY <1>2, <1>5, <1>6, StepKeepsPermit

(* Past the memory floor a view or preview waits for its permit. *)
LEMMA CheckFloorKeeps ==
  ASSUME PermitInv, NEW r \in Requests, CheckFloor(r)
  PROVE  PermitInv'
<1> DEFINE new == [req[r] EXCEPT !.work = "permit"]
<1>1. WellFormed(req[r]) /\ req[r].work = "floor"
  BY DEF PermitInv, RequestsWellFormed, CheckFloor, Working
<1>2. CASE Upd(r, new) /\ UNCHANGED free
  <2>1. DOMAIN new = DOMAIN req[r] /\ new.work = "permit" /\ new.front = req[r].front
        /\ new.method = req[r].method
    BY <1>1, Fields
  <2> HIDE DEF new
  <2>2. WellFormed(new) BY <1>1, <2>1 DEF WellFormed, Permitted
  <2>3. req[r].work \notin Permitted /\ new.work \notin Permitted
    BY <1>1, <2>1 DEF Permitted
  <2> QED BY <1>2, <2>2, <2>3, StepKeepsPermit
<1>3. CASE WorkerEnds(r) BY <1>1, <1>3, EndKeepsBalance
<1> QED BY <1>2, <1>3 DEF CheckFloor

(* A permit is taken, once. *)
LEMMA AcquirePermitKeeps ==
  ASSUME PermitInv, NEW r \in Requests, AcquirePermit(r)
  PROVE  PermitInv'
<1> DEFINE new == [req[r] EXCEPT !.work = "resolve"]
<1>1. RequestsWellFormed /\ WellFormed(req[r]) /\ req[r].work = "permit"
  BY DEF PermitInv, RequestsWellFormed, AcquirePermit, Working
<1>2. Upd(r, new) /\ free > 0 /\ free' = free - 1 BY DEF AcquirePermit
<1>3. DOMAIN new = DOMAIN req[r] /\ new.work = "resolve" /\ new.front = req[r].front
      /\ new.method = req[r].method
  BY <1>1, Fields
<1> HIDE DEF new
<1>4. WellFormed(new) BY <1>1, <1>3 DEF WellFormed, Permitted
<1>5. /\ RequestsWellFormed'
      /\ \A x \in Requests \ {r} : Holds(x)' <=> Holds(x)
      /\ Holds(r)'
  BY <1>1, <1>2, <1>3, <1>4, UpdFacts DEF Permitted
<1>6. ~Holds(r) BY <1>1 DEF Holds
<1> QED BY <1>2, <1>5, <1>6, OneTakes

(* The permitted steps that go on: the height is resolved, the block of a  *)
(* preview run, a key read. *)
LEMMA PermittedGoesOn ==
  ASSUME PermitInv, NEW r \in Requests, NEW new, Upd(r, new), UNCHANGED free,
         DOMAIN new = DOMAIN req[r], new.front = req[r].front,
         new.method = req[r].method,
         req[r].work \in Permitted, new.work \in Permitted
  PROVE  PermitInv'
<1>1. WellFormed(req[r]) BY DEF PermitInv, RequestsWellFormed
<1>2. WellFormed(new) BY <1>1 DEF WellFormed, Permitted
<1> QED BY <1>2, StepKeepsPermit

LEMMA ResolveHeightKeeps ==
  ASSUME PermitInv, NEW r \in Requests, ResolveHeight(r)
  PROVE  PermitInv'
<1> DEFINE h == IF req[r].asked = Latest THEN SatSub(current, 1) ELSE req[r].asked
           new == [req[r] EXCEPT !.h = h,
                     !.work = IF req[r].method = "preview" THEN "execute" ELSE "read",
                     !.truth = IF Stands(r, h, disk) THEN SlotAt(disk, h) ELSE NoValue]
<1>1. WellFormed(req[r]) /\ req[r].work = "resolve"
  BY DEF PermitInv, RequestsWellFormed, ResolveHeight, Working
<1>2. Upd(r, new) /\ UNCHANGED free BY DEF ResolveHeight
<1>3. /\ DOMAIN new = DOMAIN req[r] /\ new.front = req[r].front
      /\ new.method = req[r].method
      /\ new.work = IF req[r].method = "preview" THEN "execute" ELSE "read"
  BY <1>1, Fields
<1> HIDE DEF new
<1> QED BY <1>1, <1>2, <1>3, PermittedGoesOn DEF Permitted

LEMMA PreviewExecutesKeeps ==
  ASSUME PermitInv, NEW r \in Requests, PreviewExecutes(r)
  PROVE  PermitInv'
<1> DEFINE new == [req[r] EXCEPT !.work = "read", !.shadow = ShadowWritten(r)]
<1>1. WellFormed(req[r]) /\ req[r].work = "execute"
  BY DEF PermitInv, RequestsWellFormed, PreviewExecutes, Working
<1>2. Upd(r, new) /\ UNCHANGED free BY DEF PreviewExecutes
<1>3. /\ DOMAIN new = DOMAIN req[r] /\ new.front = req[r].front
      /\ new.method = req[r].method /\ new.work = "read"
  BY <1>1, Fields
<1> HIDE DEF new
<1> QED BY <1>1, <1>2, <1>3, PermittedGoesOn DEF Permitted

(* A get of a search, or its answer, is put down in the request.          *)
LEMMA ReadsPut ==
  ASSUME NEW r \in Requests, ReadLength(r) \/ ReadSlot(r)
  PROVE  /\ req[r].work = "read" /\ UNCHANGED <<indexVars, free>>
         /\ \/ \E slot : Told(r, slot)
            \/ \E s : Upd(r, [req[r] EXCEPT !.search = s])
BY DEF ReadLength, ReadSlot, Reading, Working

LEMMA ReadsKeep ==
  ASSUME PermitInv, NEW r \in Requests, ReadLength(r) \/ ReadSlot(r)
  PROVE  PermitInv'
<1>1. WellFormed(req[r]) /\ req[r].work = "read" /\ UNCHANGED free
  BY ReadsPut DEF PermitInv, RequestsWellFormed
<1>2. ASSUME NEW new, Upd(r, new), DOMAIN new = DOMAIN req[r], new.front = req[r].front,
             new.method = req[r].method, new.work = req[r].work
      PROVE  PermitInv'
  BY <1>1, <1>2, PermittedGoesOn DEF Permitted
<1>3. ASSUME NEW slot, Told(r, slot) PROVE PermitInv'
  <2> DEFINE new == [req[r] EXCEPT !.got = Append(@, slot), !.search = NoSearch]
  <2>1. /\ DOMAIN new = DOMAIN req[r] /\ new.front = req[r].front
        /\ new.method = req[r].method /\ new.work = req[r].work
    BY <1>1, Fields
  <2> QED BY <1>2, <1>3, <2>1 DEF Told
<1>4. ASSUME NEW s, Upd(r, [req[r] EXCEPT !.search = s]) PROVE PermitInv'
  <2> DEFINE new == [req[r] EXCEPT !.search = s]
  <2>1. /\ DOMAIN new = DOMAIN req[r] /\ new.front = req[r].front
        /\ new.method = req[r].method /\ new.work = req[r].work
    BY <1>1, Fields
  <2> QED BY <1>2, <1>4, <2>1
<1> QED BY <1>3, <1>4, ReadsPut

(* What the handler does to a request, while its worker may still run:     *)
(* the permit stays with the worker. *)
LEMMA TimedOutFacts ==
  ASSUME NEW r \in Requests, WellFormed(req[r])
  PROVE  LET new == TimedOut(r)
         IN  /\ DOMAIN new = DOMAIN req[r] /\ new.front = "closed"
             /\ new.method = req[r].method /\ new.work = req[r].work
<1>1. CASE NeverYields(r) BY <1>1, Fields DEF TimedOut
<1>2. CASE ~NeverYields(r) BY <1>2 DEF TimedOut, NewRequest, WellFormed
<1> QED BY <1>1, <1>2

LEMMA HandlerKeeps ==
  ASSUME PermitInv, NEW r \in Requests, Answer(r) \/ TimerFires(r) \/ ClientGone(r)
  PROVE  PermitInv'
<1>1. WellFormed(req[r]) BY DEF PermitInv, RequestsWellFormed
<1>2. \E new : /\ Upd(r, new) /\ UNCHANGED free
               /\ DOMAIN new = DOMAIN req[r] /\ new.front # "new"
               /\ new.method = req[r].method /\ new.work = req[r].work
  <2>1. CASE Answer(r)
    <3> DEFINE new == [req[r] EXCEPT !.front = "closed"]
    <3>1. Upd(r, new) /\ UNCHANGED free BY <2>1 DEF Answer
    <3>2. /\ DOMAIN new = DOMAIN req[r] /\ new.front # "new"
          /\ new.method = req[r].method /\ new.work = req[r].work
      BY <1>1, Fields
    <3> QED BY <3>1, <3>2
  <2>2. CASE TimerFires(r) \/ ClientGone(r)
    <3>1. Upd(r, TimedOut(r)) /\ UNCHANGED free BY <2>2 DEF TimerFires, ClientGone
    <3> QED BY <1>1, <3>1, TimedOutFacts
  <2> QED BY <2>1, <2>2
<1>3. PICK new : /\ Upd(r, new) /\ UNCHANGED free
                 /\ DOMAIN new = DOMAIN req[r] /\ new.front # "new"
                 /\ new.method = req[r].method /\ new.work = req[r].work
  BY <1>2
<1>4. WellFormed(new) BY <1>1, <1>3 DEF WellFormed, Permitted
<1> QED BY <1>3, <1>4, StepKeepsPermit

(* The steps that end the worker. *)
LEMMA EndingKeeps ==
  ASSUME PermitInv, NEW r \in Requests,
         \/ StorageRead(r) \/ PreviewRefused(r) \/ AcquireTimesOut(r) \/ DecodeFails(r)
         \/ PreviewFails(r) \/ ViewReturns(r) \/ ViewOutgrows(r) \/ WorkerCancelled(r)
  PROVE  PermitInv'
<1>1. req[r].work # "none" /\ WorkerEnds(r)
  BY DEF StorageRead, PreviewRefused, AcquireTimesOut, DecodeFails, PreviewFails,
         ViewReturns, ViewOutgrows, WorkerCancelled, Working, Running
<1> QED BY <1>1, EndKeepsBalance

(* The indexer only notes in a request how the index moved. *)
LEMMA IndexerKeeps ==
  ASSUME PermitInv, IndexerStep
  PROVE  PermitInv'
<1>1. UNCHANGED free /\ req' = [x \in Requests |-> req'[x]] BY DEF IndexerStep
<1>2. ASSUME NEW x \in Requests
      PROVE  WellFormed(req'[x]) /\ (Holds(x)' <=> Holds(x))
  <2>1. WellFormed(req[x]) BY DEF PermitInv, RequestsWellFormed
  <2>2. \E t, c : req'[x] = [req[x] EXCEPT !.truth = t, !.cut = c] BY DEF IndexerStep
  <2>3. PICK t, c : req'[x] = [req[x] EXCEPT !.truth = t, !.cut = c] BY <2>2
  <2>4. /\ DOMAIN req'[x] = DOMAIN req[x] /\ req'[x].front = req[x].front
        /\ req'[x].method = req[x].method /\ req'[x].work = req[x].work
    BY <2>1, <2>3, Fields
  <2> QED BY <2>1, <2>4 DEF WellFormed, Holds, Limited
<1>3. RequestsWellFormed' BY <1>1, <1>2 DEF RequestsWellFormed, WellFormed
<1> QED BY <1>1, <1>2, <1>3, NobodyMoves

(* The inductive invariant holds at the start and is kept by every step. *)
LEMMA PermitInvInitially == ServerInit => PermitInv
<1> SUFFICES ASSUME ServerInit PROVE PermitInv OBVIOUS
<1>1. WellFormed(NewRequest) BY DEF WellFormed, NewRequest, Permitted
<1>2. RequestsWellFormed BY <1>1 DEF ServerInit, RequestsWellFormed
<1>3. {r \in Requests : Holds(r)} = {}
  BY DEF ServerInit, Holds, Limited, NewRequest
<1>4. Cardinality({r \in Requests : Holds(r)}) = 0 BY <1>3, FS_EmptySet
<1>5. free = ViewConcurrency BY DEF ServerInit
<1>6. PermitsBalance BY <1>4, <1>5, ServerAssumption DEF PermitsBalance
<1> QED BY <1>2, <1>5, <1>6, ServerAssumption DEF PermitInv

LEMMA PermitInvKept == PermitInv /\ [HostNext]_hostVars => PermitInv'
<1> SUFFICES ASSUME PermitInv, [HostNext]_hostVars PROVE PermitInv' OBVIOUS
<1>1. CASE IndexerStep BY <1>1, IndexerKeeps
<1>2. CASE \E r \in Requests : RequestStep(r)
  <2>1. PICK r \in Requests : RequestStep(r) BY <1>2
  <2>2. CASE \E m \in Methods, a \in {Latest, 1} : Post(r, m, a) BY <2>2, PostKeeps
  <2>3. CASE \/ StorageRead(r) \/ PreviewRefused(r) \/ AcquireTimesOut(r) \/ DecodeFails(r)
            \/ PreviewFails(r) \/ ViewReturns(r) \/ ViewOutgrows(r) \/ WorkerCancelled(r)
    BY <2>3, EndingKeeps
  <2>4. CASE CheckFloor(r) BY <2>4, CheckFloorKeeps
  <2>5. CASE AcquirePermit(r) BY <2>5, AcquirePermitKeeps
  <2>6. CASE ResolveHeight(r) BY <2>6, ResolveHeightKeeps
  <2>7. CASE PreviewExecutes(r) BY <2>7, PreviewExecutesKeeps
  <2>8. CASE ReadLength(r) \/ ReadSlot(r) BY <2>8, ReadsKeep
  <2>9. CASE Answer(r) \/ TimerFires(r) \/ ClientGone(r) BY <2>9, HandlerKeeps
  <2> QED BY <2>1, <2>2, <2>3, <2>4, <2>5, <2>6, <2>7, <2>8, <2>9 DEF RequestStep
<1>3. CASE UNCHANGED hostVars
  BY <1>3 DEF hostVars, PermitInv, RequestsWellFormed, PermitsBalance, Holds, Limited,
              WellFormed
<1>4. CASE HostDone BY <1>3, <1>4 DEF HostDone
<1> QED BY <1>1, <1>2, <1>3, <1>4 DEF HostNext

(* Permits are neither lost nor made: whatever ends a view or a preview -- *)
(* its result, a refusal, an error, its timer, its client -- the semaphore *)
(* has the permits that no worker holds, for every number of requests.     *)
THEOREM PermitsAlwaysBalance == HostSpec => []PermitsBalance
<1>1. PermitInv => PermitsBalance BY DEF PermitInv
<1> QED BY <1>1, PermitInvInitially, PermitInvKept, PTL DEF HostSpec

-----------------------------------------------------------------------------
(***************************************************************************)
(* What views and previews see, when the database is not behind a          *)
(* ForkAdapter: its two keys then move together, one slot per height.      *)
(***************************************************************************)

Slots == (Nat \X Nat) \cup {Empty}

Numbered(d) == d \in Seq(Nat \X Nat) /\ \A i \in 1 .. Len(d) : d[i][1] = i

IndexShape ==
  /\ first = disk /\ Numbered(disk) /\ current \in Nat /\ cuts \in Nat
  /\ moving # NoValue => moving \in Nat

(* What the block of a preview writes. *)
Written(q) == <<q.h + 1, MaxRollbacks + 1>>

(* Whether the question before a request is answered by a preview's own    *)
(* slot; the slot its answer is in, and the length of its list.            *)
InShadow(q) == q.method = "preview" /\ Asked[Len(q.got) + 1] = "first"
Goal(q) == IF InShadow(q) THEN q.h + 1 ELSE q.h
Length(q, d) == IF InShadow(q) THEN q.h + 1 ELSE Len(d)
Slot(q, d, i) == IF i > q.h THEN Written(q) ELSE d[i]

(* The index d still has what the request found when it began: a view's    *)
(* height is there, a preview's is the tip. *)
Tracks(q, d) ==
  /\ q.h <= Len(d) /\ q.truth = SlotAt(d, q.h)
  /\ q.method = "preview" => q.h = Len(d)
  /\ q.method = "preview" /\ q.work = "read" => q.shadow = <<q.h + 1, Written(q)>>
  /\ q.method = "view" => q.shadow = <<>>
  /\ q.work = "execute" =>
       q.method = "preview" /\ q.got = <<>> /\ q.shadow = <<>> /\ q.search = NoSearch

(* What it has been told is right, or a cut search's error. *)
Answered(q) ==
  /\ q.got \in Seq(Slots)
  /\ \A i \in 1 .. Len(q.got) :
       \/ q.got[i] = IF q.method = "preview" /\ Asked[i] = "first" THEN Written(q) ELSE q.truth
       \/ i \in q.cut /\ q.got[i] = Empty

(* The search on its way: the goal lies between left and right, and right  *)
(* lies in the list, unless the list has been cut. *)
OnTrack(q, d) ==
  /\ q.search \in [left : Nat, right : Nat, best : Slots]
  /\ q.search # NoSearch =>
       /\ q.search.left <= Goal(q) /\ Goal(q) <= q.search.right
       /\ q.search.left < q.search.right
       /\ q.search.right <= Length(q, d) \/ Len(q.got) + 1 \in q.cut
       /\ q.search.best = IF q.search.left = 0 THEN Empty ELSE Slot(q, d, q.search.left)

Consistent(q, d) ==
  /\ q.asked \in Nat /\ q.h \in Nat
  /\ q.work \notin {"execute", "read"} =>
       q.truth = NoValue /\ q.got = <<>> /\ q.shadow = <<>> /\ q.search = NoSearch
  /\ q.truth # NoValue => Tracks(q, d) /\ Answered(q) /\ OnTrack(q, d)

ViewInv ==
  /\ RequestsWellFormed
  /\ IndexShape
  /\ \A r \in Requests : Consistent(req[r], disk)

(* A step of one request, the index as it was. *)
LEMMA ViewStep ==
  ASSUME ViewInv, NEW r \in Requests, NEW new, WellFormed(new), Upd(r, new),
         UNCHANGED indexVars, Consistent(new, disk)
  PROVE  ViewInv'
<1>1. req' = [req EXCEPT ![r] = new] BY DEF Upd
<1>2. req'[r] = new /\ \A x \in Requests \ {r} : req'[x] = req[x]
  BY <1>1 DEF ViewInv, RequestsWellFormed
<1>3. RequestsWellFormed'
  BY UpdFacts DEF ViewInv
<1>4. IndexShape'
  BY DEF ViewInv, IndexShape, indexVars
<1>5. disk' = disk
  BY DEF indexVars
<1>6. \A x \in Requests : Consistent(req'[x], disk')
  BY <1>2, <1>5 DEF ViewInv
<1> QED
  BY <1>3, <1>4, <1>6 DEF ViewInv

(* A step before the reads, and one that leaves them alone.                *)
LEMMA NothingRead ==
  ASSUME ViewInv, NEW r \in Requests, NEW new, WellFormed(new), Upd(r, new),
         UNCHANGED indexVars, new.asked \in Nat, new.h = req[r].h, new.got = req[r].got,
         new.search = req[r].search, new.shadow = req[r].shadow,
         new.truth = req[r].truth, new.cut = req[r].cut,
         \/ new.work = req[r].work /\ new.method = req[r].method
         \/ {new.work, req[r].work} \cap {"execute", "read"} = {}
  PROVE  ViewInv'
<1>1. Consistent(req[r], disk)
  BY DEF ViewInv
<1>2. Consistent(new, disk)
  <2>1. CASE {new.work, req[r].work} \cap {"execute", "read"} = {}
    BY <1>1, <2>1 DEF Consistent
  <2>2. CASE new.work = req[r].work /\ new.method = req[r].method
    <3>1. Tracks(req[r], disk) => Tracks(new, disk)
      BY <2>2 DEF Tracks, Written
    <3>2. Answered(req[r]) => Answered(new)
      BY <2>2 DEF Answered, Written
    <3>3. OnTrack(req[r], disk) => OnTrack(new, disk)
      BY <2>2 DEF OnTrack, Goal, Length, Slot, InShadow, Written
    <3> QED
      BY <1>1, <2>2, <3>1, <3>2, <3>3 DEF Consistent
  <2> QED
    BY <2>1, <2>2
<1> QED
  BY <1>2, ViewStep

LEMMA AsksKeepView ==
  ASSUME ViewInv, NEW r \in Requests,
         \/ \E m \in Methods, a \in {Latest, 1} : Post(r, m, a)
         \/ AcquirePermit(r)
         \/ CheckFloor(r) /\ req'[r].work = "permit"
  PROVE  ViewInv'
<1>1. /\ WellFormed(req[r]) /\ Consistent(req[r], disk)
      /\ req = [x \in Requests |-> req[x]]
  BY DEF ViewInv, RequestsWellFormed
<1>2. ASSUME NEW m \in Methods, NEW a \in {Latest, 1}, Post(r, m, a) PROVE ViewInv'
  <2> DEFINE new == [req[r] EXCEPT !.front = "open", !.method = m, !.asked = a,
                       !.work = IF m = "storage" THEN "lookup" ELSE "floor"]
  <2>1. /\ req[r].front = "new" /\ Upd(r, new) /\ UNCHANGED indexVars
    BY <1>2 DEF Post
  <2>2. /\ DOMAIN new = DOMAIN req[r] /\ new.front = "open" /\ new.method = m
        /\ new.work = IF m = "storage" THEN "lookup" ELSE "floor"
        /\ new.asked = a /\ new.h = req[r].h /\ new.got = req[r].got
        /\ new.shadow = req[r].shadow /\ new.cut = req[r].cut /\ new.truth = req[r].truth
        /\ new.search = req[r].search
    BY <1>1, Fields
  <2> HIDE DEF new
  <2>3. m \in {"view", "preview", "storage"} /\ a \in Nat
    BY <1>2, ServerAssumption DEF Latest
  <2>4. WellFormed(new) /\ req[r].work = "none"
    BY <1>1, <2>1, <2>2, <2>3 DEF WellFormed, Permitted
  <2>5. {new.work, req[r].work} \cap {"execute", "read"} = {}
    BY <2>2, <2>4
  <2> QED
    BY <2>1, <2>2, <2>3, <2>4, <2>5, NothingRead
<1>3. CASE AcquirePermit(r)
  <2> DEFINE new == [req[r] EXCEPT !.work = "resolve"]
  <2>1. req[r].work = "permit" /\ Upd(r, new) /\ UNCHANGED indexVars
    BY <1>3 DEF AcquirePermit, Working
  <2>2. /\ DOMAIN new = DOMAIN req[r] /\ new.front = req[r].front
        /\ new.method = req[r].method /\ new.work = "resolve"
        /\ new.asked = req[r].asked /\ new.h = req[r].h /\ new.got = req[r].got
        /\ new.shadow = req[r].shadow /\ new.cut = req[r].cut /\ new.truth = req[r].truth
        /\ new.search = req[r].search
    BY <1>1, Fields
  <2> HIDE DEF new
  <2>3. WellFormed(new)
    BY <1>1, <2>1, <2>2 DEF WellFormed, Permitted
  <2>4. {new.work, req[r].work} \cap {"execute", "read"} = {}
    BY <2>1, <2>2
  <2> QED
    BY <1>1, <2>1, <2>2, <2>3, <2>4, NothingRead DEF Consistent
<1>4. CASE CheckFloor(r) /\ req'[r].work = "permit"
  <2> DEFINE new == [req[r] EXCEPT !.work = "permit"]
  <2>1. req[r].work = "floor" /\ UNCHANGED indexVars
    BY <1>4 DEF CheckFloor, Working
  <2>2. Upd(r, new)
    <3>1. ~WorkerEnds(r)
      BY <1>1, <1>4 DEF WorkerEnds, Upd, NewRequest
    <3> QED
      BY <1>4, <3>1 DEF CheckFloor
  <2>3. /\ DOMAIN new = DOMAIN req[r] /\ new.front = req[r].front
        /\ new.method = req[r].method /\ new.work = "permit"
        /\ new.asked = req[r].asked /\ new.h = req[r].h /\ new.got = req[r].got
        /\ new.shadow = req[r].shadow /\ new.cut = req[r].cut /\ new.truth = req[r].truth
        /\ new.search = req[r].search
    BY <1>1, Fields
  <2> HIDE DEF new
  <2>4. WellFormed(new)
    BY <1>1, <2>1, <2>3 DEF WellFormed, Permitted
  <2>5. {new.work, req[r].work} \cap {"execute", "read"} = {}
    BY <2>1, <2>3
  <2> QED
    BY <1>1, <2>1, <2>2, <2>3, <2>4, <2>5, NothingRead DEF Consistent
<1> QED
  BY <1>2, <1>3, <1>4

(* What a worker had found goes with it. *)
LEMMA EndKeepsView ==
  ASSUME ViewInv, NEW r \in Requests, WorkerEnds(r),
         req[r].work # "none", UNCHANGED indexVars
  PROVE  ViewInv'
<1> DEFINE new == [NewRequest EXCEPT !.front = req[r].front, !.work = "done"]
<1>1. WellFormed(req[r])
  BY DEF ViewInv, RequestsWellFormed
<1>2. /\ DOMAIN new = DOMAIN NewRequest /\ new.work = "done" /\ new.front = req[r].front
      /\ new.asked = 0 /\ new.h = 0 /\ new.got = <<>> /\ new.shadow = <<>>
      /\ new.truth = NoValue /\ new.search = NoSearch
  BY DEF NewRequest, Latest
<1>3. Upd(r, new)
  BY DEF WorkerEnds
<1> HIDE DEF new
<1>4. WellFormed(new)
  BY <1>1, <1>2 DEF WellFormed, Permitted
<1>5. Consistent(new, disk)
  BY <1>2 DEF Consistent
<1> QED
  BY <1>3, <1>4, <1>5, ViewStep

LEMMA EndingKeepsView ==
  ASSUME ViewInv, NEW r \in Requests,
         \/ StorageRead(r) \/ PreviewRefused(r) \/ AcquireTimesOut(r) \/ DecodeFails(r)
         \/ PreviewFails(r) \/ ViewReturns(r) \/ ViewOutgrows(r) \/ WorkerCancelled(r)
         \/ CheckFloor(r) /\ req'[r].work # "permit"
  PROVE  ViewInv'
<1>1. CASE CheckFloor(r) /\ req'[r].work # "permit"
  <2>1. WellFormed(req[r]) /\ req[r].work = "floor" /\ UNCHANGED indexVars
    BY <1>1 DEF ViewInv, RequestsWellFormed, CheckFloor, Working
  <2>2. ~Upd(r, [req[r] EXCEPT !.work = "permit"])
    <3>1. [req[r] EXCEPT !.work = "permit"].work = "permit"
      BY <2>1, Fields
    <3> QED
      BY <1>1, <3>1 DEF Upd, ViewInv, RequestsWellFormed
  <2> QED
    BY <1>1, <2>1, <2>2, EndKeepsView DEF CheckFloor
<1>2. CASE \/ StorageRead(r) \/ PreviewRefused(r) \/ AcquireTimesOut(r) \/ DecodeFails(r)
           \/ PreviewFails(r) \/ ViewReturns(r) \/ ViewOutgrows(r) \/ WorkerCancelled(r)
  <2>1. req[r].work # "none" /\ UNCHANGED indexVars /\ WorkerEnds(r)
    BY <1>2 DEF StorageRead, PreviewRefused, AcquireTimesOut, DecodeFails, PreviewFails,
                ViewReturns, ViewOutgrows, WorkerCancelled, Working, Running
  <2> QED
    BY <2>1, EndKeepsView
<1> QED
  BY <1>1, <1>2

(* The height is resolved, and what the index holds there noted. *)
LEMMA SlotAtIsSlot ==
  ASSUME NEW d, Numbered(d), NEW h \in Nat
  PROVE  /\ SlotAt(d, h) \in Slots
         /\ h <= Len(d) => SlotAt(d, h) = IF h = 0 THEN Empty ELSE d[h]
<1>1. Len(d) \in Nat /\ \A i \in 1 .. Len(d) : d[i] \in Nat \X Nat
  BY DEF Numbered
<1>2. CASE h = 0 \/ d = <<>>
  <2>1. SlotAt(d, h) = Empty
    BY <1>2 DEF SlotAt
  <2>2. h <= Len(d) => h = 0
    BY <1>2
  <2> QED
    BY <2>1, <2>2 DEF Slots
<1>3. CASE ~(h = 0 \/ d = <<>>)
  <2> DEFINE i == IF h <= Len(d) THEN h ELSE Len(d)
  <2>1. Len(d) # 0
    BY <1>3 DEF Numbered
  <2>2. i \in 1 .. Len(d) /\ SlotAt(d, h) = d[i]
    BY <1>1, <1>3, <2>1 DEF SlotAt
  <2> QED
    BY <1>1, <1>3, <2>2 DEF Slots
<1> QED
  BY <1>2, <1>3

LEMMA ResolveKeepsView ==
  ASSUME ViewInv, NEW r \in Requests, ResolveHeight(r)
  PROVE  ViewInv'
<1> DEFINE h == IF req[r].asked = Latest THEN SatSub(current, 1) ELSE req[r].asked
           t == IF Stands(r, h, disk) THEN SlotAt(disk, h) ELSE NoValue
           new == [req[r] EXCEPT !.h = h,
                     !.work = IF req[r].method = "preview" THEN "execute" ELSE "read",
                     !.truth = t]
<1>1. /\ WellFormed(req[r]) /\ Consistent(req[r], disk) /\ req[r].work = "resolve"
      /\ Numbered(disk) /\ Len(disk) \in Nat /\ current \in Nat
  BY DEF ViewInv, RequestsWellFormed, IndexShape, Numbered, ResolveHeight, Working
<1>2. Upd(r, new) /\ UNCHANGED indexVars
  BY DEF ResolveHeight
<1>3. h \in Nat
  BY <1>1 DEF Consistent, SatSub
<1>4. /\ DOMAIN new = DOMAIN req[r] /\ new.front = req[r].front
      /\ new.method = req[r].method /\ new.asked = req[r].asked /\ new.h = h
      /\ new.work = IF req[r].method = "preview" THEN "execute" ELSE "read"
      /\ new.got = req[r].got /\ new.shadow = req[r].shadow
      /\ new.search = req[r].search /\ new.truth = t
  BY <1>1, Fields
<1> HIDE DEF new
<1>5. WellFormed(new)
  BY <1>1, <1>4 DEF WellFormed, Permitted
<1>6. /\ new.got = <<>> /\ new.shadow = <<>> /\ new.search = NoSearch /\ new.asked \in Nat
      /\ new.h \in Nat /\ new.work \in {"execute", "read"}
  BY <1>1, <1>3, <1>4 DEF Consistent
<1>7. ASSUME new.truth # NoValue PROVE Tracks(new, disk)
  <2>1. Stands(r, h, disk) /\ new.truth = SlotAt(disk, h)
    BY <1>4, <1>7
  <2>2. h <= Len(disk) /\ (req[r].method = "preview" => h = Len(disk))
    <3> HIDE DEF h
    <3> QED BY <1>1, <1>3, <2>1 DEF Stands
  <2> HIDE DEF h
  <2> QED
    BY <1>4, <1>6, <2>1, <2>2 DEF Tracks
<1>8. Answered(new)
  BY <1>6 DEF Answered
<1>9. OnTrack(new, disk)
  BY <1>6 DEF OnTrack, NoSearch, StartSearch, Slots
<1>10. Consistent(new, disk)
  BY <1>6, <1>7, <1>8, <1>9 DEF Consistent
<1> QED
  BY <1>2, <1>5, <1>10, ViewStep

(* The block of a preview is written over the tip it will be read at,      *)
(* and, without --fork, nowhere else. *)
LEMMA PreviewKeepsView ==
  ASSUME ViewInv, ~Forked, NEW r \in Requests, PreviewExecutes(r)
  PROVE  ViewInv'
<1> DEFINE new == [req[r] EXCEPT !.work = "read", !.shadow = ShadowWritten(r)]
<1>1. /\ WellFormed(req[r]) /\ Consistent(req[r], disk) /\ req[r].work = "execute"
      /\ first = disk /\ Len(disk) \in Nat
  BY DEF ViewInv, RequestsWellFormed, IndexShape, Numbered, PreviewExecutes, Working
<1>2. /\ Upd(r, new) /\ UNCHANGED indexVars
      /\ ShadowWritten(r) = <<Len(disk) + 1, Written(req[r])>>
  BY <1>1 DEF PreviewExecutes, FirstWritten, ShadowWritten, IsolatedCopy, PreviewSlot, Written,
              indexVars
<1>3. /\ DOMAIN new = DOMAIN req[r] /\ new.front = req[r].front
      /\ new.method = req[r].method /\ new.asked = req[r].asked /\ new.h = req[r].h
      /\ new.work = "read" /\ new.shadow = ShadowWritten(r) /\ new.search = req[r].search
      /\ new.got = req[r].got /\ new.truth = req[r].truth /\ new.cut = req[r].cut
  BY <1>1, Fields
<1> HIDE DEF new
<1>4. WellFormed(new)
  BY <1>1, <1>3 DEF WellFormed, Permitted
<1>5. new.asked \in Nat /\ new.h \in Nat
  BY <1>1, <1>3 DEF Consistent
<1>6. ASSUME new.truth # NoValue PROVE Tracks(new, disk) /\ Answered(new) /\ OnTrack(new, disk)
  <2>1. Tracks(req[r], disk) /\ OnTrack(req[r], disk)
    BY <1>1, <1>3, <1>6 DEF Consistent
  <2>2. Written(new) = Written(req[r]) /\ new.got = <<>> /\ new.search = NoSearch
    BY <1>1, <1>3, <2>1 DEF Written, Tracks
  <2>3. new.method = "preview"
    BY <1>1, <1>3, <2>1 DEF Tracks
  <2>4. Tracks(new, disk)
    BY <1>2, <1>3, <2>1, <2>2, <2>3 DEF Tracks
  <2>5. Answered(new)
    BY <2>2 DEF Answered
  <2> QED
    BY <2>1, <2>2, <2>4, <2>5, <1>3 DEF OnTrack
<1>7. Consistent(new, disk)
  BY <1>3, <1>5, <1>6 DEF Consistent
<1> QED
  BY <1>2, <1>4, <1>7, ViewStep

(* The handler does not touch what a worker that goes on has read. *)
LEMMA HandlerKeepsView ==
  ASSUME ViewInv, NEW r \in Requests, Answer(r) \/ TimerFires(r) \/ ClientGone(r)
  PROVE  ViewInv'
<1>1. WellFormed(req[r]) /\ Consistent(req[r], disk)
  BY DEF ViewInv, RequestsWellFormed
<1>2. UNCHANGED indexVars
  BY DEF Answer, TimerFires, ClientGone
<1> DEFINE Same(new) ==
             /\ DOMAIN new = DOMAIN req[r] /\ new.front # "new" /\ new.method = req[r].method
             /\ new.work = req[r].work /\ new.asked = req[r].asked /\ new.h = req[r].h
             /\ new.got = req[r].got /\ new.search = req[r].search
             /\ new.shadow = req[r].shadow
             /\ new.truth = req[r].truth /\ new.cut = req[r].cut
<1>3. ASSUME NEW new, Upd(r, new), Same(new) PROVE ViewInv'
  <2>1. WellFormed(new)
    BY <1>1, <1>3 DEF WellFormed
  <2> QED
    BY <1>1, <1>2, <1>3, <2>1, NothingRead DEF Consistent
<1>4. CASE Answer(r)
  <2> DEFINE new == [req[r] EXCEPT !.front = "closed"]
  <2>1. Same(new) BY <1>1, Fields
  <2> QED BY <1>3, <1>4, <2>1 DEF Answer
<1>5. CASE (TimerFires(r) \/ ClientGone(r)) /\ NeverYields(r)
  <2> DEFINE new == [req[r] EXCEPT !.front = "closed", !.cancelled = TRUE]
  <2>1. Same(new) BY <1>1, Fields
  <2> QED BY <1>3, <1>5, <2>1 DEF TimerFires, ClientGone, TimedOut
<1>6. CASE (TimerFires(r) \/ ClientGone(r)) /\ ~NeverYields(r)
  <2> DEFINE new == TimedOut(r)
  <2>1. /\ new.asked \in Nat /\ new.h \in Nat
        /\ new.truth = NoValue /\ new.got = <<>> /\ new.shadow = <<>> /\ new.search = NoSearch
    BY <1>6 DEF TimedOut, NewRequest, Latest
  <2>2. WellFormed(new)
    BY <1>1, TimedOutFacts DEF WellFormed
  <2>3. Consistent(new, disk)
    BY <2>1 DEF Consistent
  <2>4. Upd(r, new)
    BY <1>6 DEF TimerFires, ClientGone
  <2> HIDE DEF new
  <2> QED
    BY <1>2, <2>2, <2>3, <2>4, ViewStep
<1> QED
  BY <1>4, <1>5, <1>6

(* A rollback leaves the slots up to its target. *)
LEMMA TrimmedIsPrefix ==
  ASSUME NEW d, Numbered(d), NEW h \in Nat, h < Len(d)
  PROVE  Trimmed(d, h) = SubSeq(d, 1, h)
<1> DEFINE kept == {i \in DOMAIN d : d[i][1] <= h}
<1>1. Len(d) \in Nat /\ DOMAIN d = 1 .. Len(d) /\ \A i \in 1 .. Len(d) : d[i][1] = i
  BY DEF Numbered
<1>2. kept = 1 .. h
  BY <1>1
<1>3. Trimmed(d, h) = SubSeq(d, 1, IF kept = {} THEN 0
                                   ELSE CHOOSE i \in kept : \A j \in kept : j <= i)
  BY DEF Trimmed
<1> HIDE DEF kept
<1>4. CASE h = 0
  <2>1. kept = {}
    BY <1>2, <1>4
  <2> QED
    BY <1>3, <1>4, <2>1
<1>5. CASE h # 0
  <2>1. h \in kept /\ \A j \in kept : j <= h
    BY <1>2, <1>5
  <2>2. \A i \in kept : (\A j \in kept : j <= i) => i = h
    BY <1>2, <2>1
  <2>3. (CHOOSE i \in kept : \A j \in kept : j <= i) = h
    BY <2>1, <2>2
  <2>4. kept # {}
    BY <2>1
  <2> QED
    BY <1>3, <2>3, <2>4
<1> QED
  BY <1>4, <1>5

(* However the index moves, its keys move together, and a slot that is     *)
(* there before and after is the same.                                     *)
LEMMA IndexMoves ==
  ASSUME IndexShape, CommitBlock \/ (\E h \in 0 .. MaxHeight : Rollback(h)) \/ PublishTip
  PROVE  /\ IndexShape'
         /\ \A i \in Nat : 1 <= i /\ i <= Len(disk) /\ i <= Len(disk') => disk'[i] = disk[i]
<1>1. /\ Numbered(disk) /\ disk \in Seq(Nat \X Nat) /\ Len(disk) \in Nat /\ cuts \in Nat
      /\ current \in Nat /\ first = disk
      /\ \A i \in 1 .. Len(disk) : disk[i] \in Nat \X Nat /\ disk[i][1] = i
  <2>1. Numbered(disk) /\ cuts \in Nat /\ current \in Nat /\ first = disk
    BY DEF IndexShape
  <2>2. disk \in Seq(Nat \X Nat) /\ \A i \in 1 .. Len(disk) : disk[i][1] = i
    BY <2>1 DEF Numbered
  <2>3. Len(disk) \in Nat
    BY <2>2
  <2>4. \A i \in 1 .. Len(disk) : disk[i] \in Nat \X Nat
    BY <2>2
  <2> QED
    BY <2>1, <2>2, <2>3, <2>4
<1>2. CASE CommitBlock
  <2> DEFINE s == <<Len(disk) + 1, cuts>>
             d == Append(disk, s)
  <2>1. /\ disk' = d /\ first' = d /\ current' = current /\ cuts' = cuts
        /\ moving' = Len(disk) + 1
    BY <1>1, <1>2 DEF CommitBlock
  <2>2. s \in Nat \X Nat /\ s[1] = Len(disk) + 1
    BY <1>1
  <2> HIDE DEF s
  <2>3. /\ d \in Seq(Nat \X Nat) /\ Len(d) = Len(disk) + 1 /\ d[Len(disk) + 1] = s
        /\ \A i \in 1 .. Len(disk) : d[i] = disk[i]
    BY <1>1, <2>2
  <2> HIDE DEF d
  <2>4. \A i \in 1 .. Len(d) : d[i][1] = i
    <3> TAKE i \in 1 .. Len(d)
    <3>1. i \in 1 .. Len(disk) \/ i = Len(disk) + 1
      BY <1>1, <2>3
    <3> QED
      BY <1>1, <2>2, <2>3, <3>1
  <2>5. \A i \in Nat : 1 <= i /\ i <= Len(disk) => d[i] = disk[i]
    BY <1>1, <2>3
  <2>6. moving' \in Nat
    BY <1>1, <2>1
  <2> QED
    BY <1>1, <2>1, <2>3, <2>4, <2>5, <2>6 DEF IndexShape, Numbered
<1>3. ASSUME NEW t \in 0 .. MaxHeight, Rollback(t)
      PROVE  /\ IndexShape'
             /\ \A i \in Nat : 1 <= i /\ i <= Len(disk) /\ i <= Len(disk') => disk'[i] = disk[i]
  <2> DEFINE d == SubSeq(disk, 1, t)
  <2>1. t \in Nat /\ t < Len(disk) /\ cuts > 0
    BY <1>3, ServerAssumption DEF Rollback
  <2>2. Trimmed(disk, t) = d
    BY <1>1, <2>1, TrimmedIsPrefix
  <2>3. /\ disk' = d /\ first' = d /\ current' = current /\ cuts' = cuts - 1 /\ moving' = t
    BY <1>1, <1>3, <2>2 DEF Rollback
  <2>4. /\ d \in Seq(Nat \X Nat) /\ Len(d) = t /\ \A i \in 1 .. t : d[i] = disk[i]
    BY <1>1, <2>1
  <2> HIDE DEF d
  <2>5. \A i \in 1 .. Len(d) : d[i][1] = i
    <3> TAKE i \in 1 .. Len(d)
    <3>1. i \in 1 .. Len(disk) /\ i \in 1 .. t
      BY <1>1, <2>1, <2>4
    <3> QED
      BY <1>1, <2>4, <3>1
  <2>6. \A i \in Nat : 1 <= i /\ i <= Len(disk) /\ i <= Len(d) => d[i] = disk[i]
    BY <1>1, <2>4
  <2>7. cuts' \in Nat
    BY <1>1, <2>1, <2>3
  <2> QED
    BY <1>1, <2>1, <2>3, <2>4, <2>5, <2>6, <2>7 DEF IndexShape, Numbered
<1>4. CASE PublishTip
  <2>1. /\ disk' = disk /\ first' = first /\ cuts' = cuts /\ moving' = NoValue
        /\ moving \in Nat /\ current' = moving + 1
    BY <1>4 DEF PublishTip, IndexShape
  <2>2. current' \in Nat
    BY <2>1
  <2> QED
    BY <1>1, <2>1, <2>2 DEF IndexShape
<1> QED
  BY <1>2, <1>3, <1>4

LEMMA IsSequence ==
  ASSUME NEW n \in Nat, NEW S, NEW f, f = [i \in 1 .. n |-> f[i]], \A i \in 1 .. n : f[i] \in S
  PROVE  f \in Seq(S) /\ Len(f) = n
<1>1. f \in [1 .. n -> S]
  OBVIOUS
<1> QED
  BY <1>1

(* The list a search is in: numbered, with the goal in it.                 *)
LEMMA ListFacts ==
  ASSUME ViewInv, NEW r \in Requests, Reading(r), req[r].truth # NoValue
  PROVE  LET q == req[r]
             l == ListSeen(r)
         IN  /\ q.h \in Nat /\ Goal(q) \in Nat /\ Len(l) = Length(q, disk) /\ Len(l) \in Nat
             /\ Goal(q) <= Len(l)
             /\ \A i \in 1 .. Len(l) :
                  /\ l[i] \in Slots /\ l[i] # Empty /\ l[i][1] = i
                  /\ l[i][1] <= ReadHeight(r) <=> i <= Goal(q)
                  /\ i <= Goal(q) => l[i] = Slot(q, disk, i)
<1> DEFINE q == req[r]
           l == ListSeen(r)
<1>1. /\ Consistent(q, disk) /\ Tracks(q, disk) /\ first = disk /\ Numbered(disk)
      /\ q.h \in Nat /\ q.h <= Len(disk) /\ q.work = "read"
      /\ q.method \in {"view", "preview"}
  BY DEF ViewInv, RequestsWellFormed, WellFormed, Permitted, IndexShape, Consistent, Tracks,
         Reading, Working
<1>2. /\ Len(disk) \in Nat
      /\ \A i \in 1 .. Len(disk) :
           disk[i] \in Nat \X Nat /\ disk[i][1] = i /\ disk[i] # Empty /\ disk[i] \in Slots
  BY <1>1 DEF Numbered, Empty, Slots
<1>3. CASE ~InShadow(q)
  <2>1. l = disk
    BY <1>1, <1>3 DEF ListSeen, SlotsSeen, InShadow, Tracks
  <2>2. Goal(q) = q.h /\ Length(q, disk) = Len(disk)
    BY <1>3 DEF Goal, Length
  <2>3. \A i \in 1 .. Len(disk) : i <= ReadHeight(r) <=> i <= q.h
    <3>1. CASE q.method = "view" BY <3>1 DEF ReadHeight
    <3>2. CASE q.method = "preview" BY <1>1, <1>2, <3>2 DEF ReadHeight, Tracks
    <3> QED BY <1>1, <3>1, <3>2
  <2>4. \A i \in 1 .. Len(disk) : i <= q.h => disk[i] = Slot(q, disk, i)
    BY <1>1, <1>2 DEF Slot
  <2> QED
    BY <1>1, <1>2, <2>1, <2>2, <2>3, <2>4
<1>4. CASE InShadow(q)
  <2> DEFINE s == [i \in 1 .. q.h + 1 |-> IF i = q.h + 1 THEN Written(q) ELSE disk[i]]
  <2>1. q.shadow = <<q.h + 1, Written(q)>> /\ q.h = Len(disk)
    BY <1>1, <1>4 DEF Tracks, InShadow
  <2>2. l = s
    <3>1. SlotsSeen(r) = [i \in 1 .. q.h + 1 |-> IF i = q.h + 1 THEN Written(q)
                            ELSE IF i <= Len(first) THEN first[i] ELSE Empty]
      BY <2>1 DEF SlotsSeen
    <3>2. \A i \in 1 .. q.h + 1 : i # q.h + 1 => i <= Len(first)
      BY <1>1, <2>1
    <3>3. SlotsSeen(r) = s
      BY <1>1, <3>1, <3>2
    <3> QED
      BY <1>4, <3>3 DEF ListSeen, InShadow
  <2>3. Written(q) \in Nat \X Nat /\ Written(q)[1] = q.h + 1 /\ Written(q) # Empty
    BY <1>1, ServerAssumption DEF Written, Empty
  <2>4. ASSUME NEW i \in 1 .. q.h + 1
        PROVE  s[i] \in Nat \X Nat /\ s[i] # Empty /\ s[i][1] = i /\ s[i] = Slot(q, disk, i)
    <3>1. CASE i = q.h + 1
      BY <1>1, <2>3, <3>1 DEF Slot
    <3>2. CASE i # q.h + 1
      <4>1. i \in 1 .. Len(disk) /\ ~(i > q.h)
        BY <1>1, <2>1, <2>4, <3>2
      <4> QED
        BY <1>2, <3>2, <4>1 DEF Slot
    <3> QED
      BY <3>1, <3>2
  <2>5. Len(s) = q.h + 1
    <3>1. \A i \in 1 .. q.h + 1 : s[i] \in Nat \X Nat
      BY <2>4
    <3>2. s = [i \in 1 .. q.h + 1 |-> s[i]] /\ q.h + 1 \in Nat
      BY <1>1
    <3> HIDE DEF s
    <3> QED
      BY <3>1, <3>2, IsSequence
  <2>6. Goal(q) = q.h + 1 /\ Length(q, disk) = q.h + 1 /\ ReadHeight(r) = q.h + 1
    BY <1>4 DEF Goal, Length, ReadHeight, InShadow
  <2> HIDE DEF s
  <2> QED
    BY <1>1, <2>2, <2>4, <2>5, <2>6 DEF Slots
<1> QED
  BY <1>3, <1>4

(* A search that ends at its goal has found what is wanted. *)
LEMMA GoalIsWanted ==
  ASSUME ViewInv, NEW r \in Requests, Reading(r), req[r].truth # NoValue
  PROVE  (IF Goal(req[r]) = 0 THEN Empty ELSE Slot(req[r], disk, Goal(req[r])))
           = IF InShadow(req[r]) THEN Written(req[r]) ELSE req[r].truth
<1> DEFINE q == req[r]
<1>1. Tracks(q, disk) /\ Numbered(disk) /\ q.h \in Nat
  BY DEF ViewInv, IndexShape, Consistent
<1>2. q.truth = IF q.h = 0 THEN Empty ELSE disk[q.h]
  BY <1>1, SlotAtIsSlot DEF Tracks
<1> QED
  BY <1>1, <1>2 DEF Goal, Slot

(* An answer that is wanted, or the error of a cut search, may be told.    *)
LEMMA TellingKeepsView ==
  ASSUME ViewInv, NEW r \in Requests, NEW slot, Reading(r), Told(r, slot),
         UNCHANGED indexVars,
         req[r].truth # NoValue =>
           /\ slot \in Slots
           /\ \/ slot = IF InShadow(req[r]) THEN Written(req[r]) ELSE req[r].truth
              \/ Len(req[r].got) + 1 \in req[r].cut /\ slot = Empty
  PROVE  ViewInv'
<1> DEFINE q == req[r]
           new == [q EXCEPT !.got = Append(@, slot), !.search = NoSearch]
<1>1. WellFormed(q) /\ Consistent(q, disk) /\ q.work = "read" /\ Upd(r, new)
  BY DEF ViewInv, RequestsWellFormed, Reading, Working, Told
<1>2. /\ DOMAIN new = DOMAIN q /\ new.front = q.front /\ new.method = q.method
      /\ new.asked = q.asked /\ new.h = q.h /\ new.work = q.work /\ new.shadow = q.shadow
      /\ new.truth = q.truth /\ new.cut = q.cut
      /\ new.got = Append(q.got, slot) /\ new.search = NoSearch
  BY <1>1, Fields
<1> HIDE DEF new
<1>3. WellFormed(new)
  BY <1>1, <1>2 DEF WellFormed
<1>4. ASSUME new.truth # NoValue PROVE Tracks(new, disk) /\ Answered(new) /\ OnTrack(new, disk)
  <2>1. Tracks(q, disk) /\ Answered(q) /\ q.truth # NoValue
    BY <1>1, <1>2, <1>4 DEF Consistent
  <2>2. Tracks(new, disk)
    BY <1>1, <1>2, <2>1 DEF Tracks, Written
  <2>3. OnTrack(new, disk)
    BY <1>2 DEF OnTrack, NoSearch, StartSearch, Slots
  <2>4. Answered(new)
    <3> DEFINE n == Len(q.got)
    <3> slot \in Slots BY <2>1
    <3>1. /\ n \in Nat /\ new.got \in Seq(Slots) /\ Len(new.got) = n + 1
          /\ new.got[n + 1] = slot /\ \A i \in 1 .. n : new.got[i] = q.got[i]
      BY <1>2, <2>1 DEF Answered
    <3> DEFINE W(i) == IF q.method = "preview" /\ Asked[i] = "first" THEN Written(q) ELSE q.truth
    <3>2. W(n + 1) = IF InShadow(q) THEN Written(q) ELSE q.truth
      BY DEF InShadow
    <3>3. slot = W(n + 1) \/ (n + 1 \in q.cut /\ slot = Empty)
      BY <2>1, <3>2
    <3>4. \A i \in 1 .. n : q.got[i] = W(i) \/ (i \in q.cut /\ q.got[i] = Empty)
      BY <2>1 DEF Answered
    <3> HIDE DEF W
    <3>5. \A i \in 1 .. n + 1 : new.got[i] = W(i) \/ (i \in q.cut /\ new.got[i] = Empty)
      <4> TAKE i \in 1 .. n + 1
      <4>1. CASE i = n + 1 BY <3>1, <3>3, <4>1
      <4>2. CASE i \in 1 .. n BY <3>1, <3>4, <4>2
      <4> QED BY <3>1, <4>1, <4>2
    <3>6. Written(new) = Written(q)
      BY <1>2 DEF Written
    <3> HIDE DEF n
    <3> QED
      BY <1>2, <3>1, <3>5, <3>6 DEF Answered, W
  <2> QED
    BY <2>2, <2>3, <2>4
<1>5. Consistent(new, disk)
  BY <1>1, <1>2, <1>4 DEF Consistent
<1> QED
  BY <1>1, <1>3, <1>5, ViewStep

(* So may a search go on that keeps its goal between left and right.       *)
LEMMA SearchKeepsView ==
  ASSUME ViewInv, NEW r \in Requests, NEW s, Reading(r), UNCHANGED indexVars,
         Upd(r, [req[r] EXCEPT !.search = s]),
         req[r].truth # NoValue => OnTrack([req[r] EXCEPT !.search = s], disk)
  PROVE  ViewInv'
<1> DEFINE q == req[r]
           new == [q EXCEPT !.search = s]
<1>1. WellFormed(q) /\ Consistent(q, disk) /\ q.work = "read" /\ Upd(r, new)
  BY DEF ViewInv, RequestsWellFormed, Reading, Working
<1>2. /\ DOMAIN new = DOMAIN q /\ new.front = q.front /\ new.method = q.method
      /\ new.asked = q.asked /\ new.h = q.h /\ new.work = q.work /\ new.shadow = q.shadow
      /\ new.truth = q.truth /\ new.cut = q.cut /\ new.got = q.got
  BY <1>1, Fields
<1>3. q.truth # NoValue => OnTrack(new, disk)
  OBVIOUS
<1> HIDE DEF new
<1>4. WellFormed(new)
  BY <1>1, <1>2 DEF WellFormed
<1>5. Tracks(q, disk) => Tracks(new, disk)
  BY <1>1, <1>2 DEF Tracks, Written
<1>6. Answered(q) => Answered(new)
  BY <1>2 DEF Answered, Written
<1>7. Consistent(new, disk)
  BY <1>1, <1>2, <1>3, <1>5, <1>6 DEF Consistent
<1> QED
  BY <1>1, <1>4, <1>7, ViewStep

LEMMA ReadLengthKeepsView ==
  ASSUME ViewInv, NEW r \in Requests, ReadLength(r)
  PROVE  ViewInv'
<1> DEFINE q == req[r]
           l == ListSeen(r)
           n == Len(l)
<1>1. Reading(r) /\ q.search = NoSearch /\ UNCHANGED indexVars
  BY DEF ReadLength
<1>2. CASE n = 0
  <2>1. Told(r, Empty)
    BY <1>2 DEF ReadLength
  <2>2. q.truth # NoValue => Empty = IF InShadow(q) THEN Written(q) ELSE q.truth
    BY <1>1, <1>2, ListFacts, GoalIsWanted
  <2> QED
    BY <1>1, <2>1, <2>2, TellingKeepsView DEF Slots
<1>3. CASE n # 0
  <2> DEFINE s == StartSearch(n, Empty)
             new == [q EXCEPT !.search = s]
  <2>1. Upd(r, new)
    BY <1>3 DEF ReadLength
  <2>2. ASSUME q.truth # NoValue PROVE OnTrack(new, disk)
    <3>1. WellFormed(q) /\ OnTrack(q, disk)
      BY <2>2 DEF ViewInv, RequestsWellFormed, Consistent
    <3>2. new.search = s /\ new.h = q.h /\ new.got = q.got /\ new.method = q.method
      BY <3>1, Fields
    <3>3. s \in [left : Nat, right : Nat, best : Slots] /\ s.left = 0 /\ s.right = n /\ s.best = Empty
      BY <1>1, <2>2, ListFacts DEF StartSearch, Slots
    <3>4. 0 <= Goal(q) /\ Goal(q) <= n /\ 0 < n /\ n <= Length(q, disk)
      BY <1>1, <1>3, <2>2, ListFacts
    <3>5. Goal(new) = Goal(q) /\ Length(new, disk) = Length(q, disk)
      BY <3>2 DEF Goal, Length, InShadow
    <3> HIDE DEF new, s, n
    <3> QED
      BY <3>2, <3>3, <3>4, <3>5 DEF OnTrack
  <2> HIDE DEF s, n
  <2> QED
    BY <1>1, <2>1, <2>2, SearchKeepsView
<1> QED
  BY <1>2, <1>3

(* One probe of a search, in the middle of what is left of the list.       *)
LEMMA NarrowedFacts ==
  ASSUME NEW B, NEW s \in [left : Nat, right : Nat, best : B], s.left < s.right, NEW x \in B
  PROVE  /\ Probed(s) \in s.left + 1 .. s.right
         /\ LET n == [s EXCEPT !.left = Probed(s), !.best = x]
            IN  /\ n \in [left : Nat, right : Nat, best : B]
                /\ n.left = Probed(s) /\ n.right = s.right /\ n.best = x
         /\ LET n == [s EXCEPT !.right = Probed(s) - 1]
            IN  /\ n \in [left : Nat, right : Nat, best : B]
                /\ n.left = s.left /\ n.right = Probed(s) - 1 /\ n.best = s.best
<1>1. s.left \in Nat /\ s.right \in Nat
  OBVIOUS
<1>2. Probed(s) \in s.left + 1 .. s.right
  BY <1>1 DEF Probed
<1>3. Probed(s) \in Nat /\ Probed(s) - 1 \in Nat
  BY <1>1, <1>2
<1> QED
  BY <1>1, <1>2, <1>3

LEMMA ReadSlotKeepsView ==
  ASSUME ViewInv, NEW r \in Requests, ReadSlot(r)
  PROVE  ViewInv'
<1> DEFINE q == req[r]
           l == ListSeen(r)
           i == Probed(q.search)
           slot == IF i <= Len(l) THEN l[i] ELSE Empty
           next == Narrowed(q.search, slot, slot[1] <= ReadHeight(r))
<1>1. Reading(r) /\ q.search # NoSearch /\ UNCHANGED indexVars
  BY DEF ReadSlot
<1>2. WellFormed(q) /\ (q.truth # NoValue => OnTrack(q, disk))
  BY DEF ViewInv, RequestsWellFormed, Consistent
<1>3. ASSUME q.truth # NoValue
      PROVE  /\ q.search \in [left : Nat, right : Nat, best : Slots]
             /\ i \in q.search.left + 1 .. q.search.right
             /\ slot = Empty => Len(q.got) + 1 \in q.cut
             /\ slot # Empty =>
                  /\ i \in 1 .. Len(l) /\ slot \in Slots
                  /\ slot[1] <= ReadHeight(r) <=> i <= Goal(q)
                  /\ i <= Goal(q) => slot = Slot(q, disk, i)
  <2>1. /\ q.search \in [left : Nat, right : Nat, best : Slots]
        /\ q.search.left < q.search.right
        /\ q.search.right <= Length(q, disk) \/ Len(q.got) + 1 \in q.cut
    BY <1>1, <1>2, <1>3 DEF OnTrack
  <2>2. q.search.left \in Nat /\ q.search.right \in Nat
    BY <2>1
  <2>3. i \in q.search.left + 1 .. q.search.right
    BY <2>1, <2>2, NarrowedFacts
  <2>4. Len(l) = Length(q, disk) /\ Len(l) \in Nat
    BY <1>1, <1>3, ListFacts
  <2>5. \A j \in 1 .. Len(l) :
          /\ l[j] \in Slots /\ l[j] # Empty
          /\ l[j][1] <= ReadHeight(r) <=> j <= Goal(q)
          /\ j <= Goal(q) => l[j] = Slot(q, disk, j)
    BY <1>1, <1>3, ListFacts
  <2> HIDE DEF i, l
  <2>6. CASE i <= Len(l)
    <3>1. i \in 1 .. Len(l) /\ slot = l[i]
      BY <2>2, <2>3, <2>4, <2>6
    <3>2. /\ l[i] \in Slots /\ l[i] # Empty
          /\ l[i][1] <= ReadHeight(r) <=> i <= Goal(q)
          /\ i <= Goal(q) => l[i] = Slot(q, disk, i)
      BY <2>5, <3>1
    <3>3. /\ slot \in Slots /\ slot # Empty
          /\ slot[1] <= ReadHeight(r) <=> i <= Goal(q)
          /\ i <= Goal(q) => slot = Slot(q, disk, i)
      BY <3>1, <3>2
    <3> HIDE DEF slot
    <3> QED
      BY <2>1, <2>3, <3>1, <3>3
  <2>7. CASE ~(i <= Len(l))
    <3>1. slot = Empty /\ Len(q.got) + 1 \in q.cut
      BY <2>1, <2>2, <2>3, <2>4, <2>7
    <3> HIDE DEF slot
    <3> QED
      BY <2>1, <2>3, <3>1
  <2> QED
    BY <2>6, <2>7
<1>4. ASSUME q.truth # NoValue, slot # Empty
      PROVE  /\ next \in [left : Nat, right : Nat, best : Slots]
             /\ next.left <= Goal(q) /\ Goal(q) <= next.right
             /\ next.right <= q.search.right
             /\ next.best = IF next.left = 0 THEN Empty ELSE Slot(q, disk, next.left)
  <2>1. /\ q.search \in [left : Nat, right : Nat, best : Slots]
        /\ q.search.left \in Nat /\ q.search.right \in Nat /\ Goal(q) \in Nat
        /\ q.search.left < q.search.right
        /\ q.search.left <= Goal(q) /\ Goal(q) <= q.search.right
        /\ q.search.best = IF q.search.left = 0 THEN Empty ELSE Slot(q, disk, q.search.left)
    BY <1>1, <1>2, <1>3, <1>4, ListFacts DEF OnTrack
  <2>2. /\ i \in q.search.left + 1 .. q.search.right /\ slot \in Slots
        /\ slot[1] <= ReadHeight(r) <=> i <= Goal(q)
        /\ i <= Goal(q) => slot = Slot(q, disk, i)
    BY <1>3, <1>4
  <2> HIDE DEF i, slot, l
  <2>3. CASE i <= Goal(q)
    <3>1. next = [q.search EXCEPT !.left = Probed(q.search), !.best = slot]
      BY <2>2, <2>3, Zenon DEF Narrowed
    <3> HIDE DEF next
    <3>2. /\ next \in [left : Nat, right : Nat, best : Slots]
          /\ next.left = i /\ next.right = q.search.right /\ next.best = slot
      BY <2>1, <2>2, <3>1, NarrowedFacts, Zenon DEF i
    <3> QED
      BY <2>1, <2>2, <2>3, <3>2
  <2>4. CASE ~(i <= Goal(q))
    <3>1. next = [q.search EXCEPT !.right = Probed(q.search) - 1]
      BY <2>2, <2>4, Zenon DEF Narrowed
    <3> HIDE DEF next
    <3>2. /\ next \in [left : Nat, right : Nat, best : Slots]
          /\ next.left = q.search.left /\ next.right = i - 1 /\ next.best = q.search.best
      BY <2>1, <2>2, <3>1, NarrowedFacts, Zenon DEF i
    <3> QED
      BY <2>1, <2>2, <2>4, <3>2
  <2> QED
    BY <2>3, <2>4
<1>5. CASE slot = Empty
  <2>1. Told(r, Empty)
    BY <1>5 DEF ReadSlot
  <2>2. q.truth # NoValue => Len(q.got) + 1 \in q.cut
    BY <1>3, <1>5
  <2> QED
    BY <1>1, <2>1, <2>2, TellingKeepsView DEF Slots
<1>6. CASE slot # Empty /\ SearchEnded(next)
  <2>1. Told(r, next.best)
    BY <1>6 DEF ReadSlot
  <2>2. ASSUME q.truth # NoValue
        PROVE  /\ next.best \in Slots
               /\ next.best = IF InShadow(q) THEN Written(q) ELSE q.truth
    <3>1. /\ next \in [left : Nat, right : Nat, best : Slots]
          /\ next.left <= Goal(q) /\ Goal(q) <= next.right
          /\ next.best = IF next.left = 0 THEN Empty ELSE Slot(q, disk, next.left)
      BY <1>4, <1>6, <2>2
    <3>2. Goal(q) \in Nat
      BY <1>1, <2>2, ListFacts
    <3> HIDE DEF next
    <3>3. next.left = Goal(q)
      BY <1>6, <3>1, <3>2 DEF SearchEnded
    <3> QED
      BY <1>1, <2>2, <3>1, <3>3, GoalIsWanted
  <2> HIDE DEF next
  <2> QED
    BY <1>1, <2>1, <2>2, TellingKeepsView
<1>7. CASE slot # Empty /\ ~SearchEnded(next)
  <2> DEFINE new == [q EXCEPT !.search = next]
  <2>1. Upd(r, new)
    BY <1>7 DEF ReadSlot
  <2>2. ASSUME q.truth # NoValue PROVE OnTrack(new, disk)
    <3>1. /\ next \in [left : Nat, right : Nat, best : Slots]
          /\ next.left <= Goal(q) /\ Goal(q) <= next.right
          /\ next.right <= q.search.right
          /\ next.best = IF next.left = 0 THEN Empty ELSE Slot(q, disk, next.left)
      BY <1>4, <1>7, <2>2
    <3>2. /\ q.search.right \in Nat /\ Length(q, disk) \in Nat
          /\ q.search.right <= Length(q, disk) \/ Len(q.got) + 1 \in q.cut
      BY <1>1, <1>2, <2>2, ListFacts DEF OnTrack
    <3> HIDE DEF next
    <3>3. new.search = next /\ new.h = q.h /\ new.got = q.got /\ new.method = q.method
          /\ new.cut = q.cut
      BY <1>2, Fields
    <3> HIDE DEF new
    <3>4. next.left < next.right
      BY <1>7, <3>1 DEF SearchEnded
    <3>5. next.right <= Length(q, disk) \/ Len(q.got) + 1 \in q.cut
      BY <3>1, <3>2
    <3>6. /\ Goal(new) = Goal(q) /\ Length(new, disk) = Length(q, disk)
          /\ \A j : Slot(new, disk, j) = Slot(q, disk, j)
      BY <3>3 DEF Goal, Length, InShadow, Slot, Written
    <3> QED
      BY <3>1, <3>3, <3>4, <3>5, <3>6 DEF OnTrack
  <2> HIDE DEF next
  <2> QED
    BY <1>1, <2>1, <2>2, SearchKeepsView
<1> QED
  BY <1>5, <1>6, <1>7

(* A request the index does not move under keeps what it tracks. *)
LEMMA IndexerKeepsView ==
  ASSUME ViewInv, IndexerStep
  PROVE  ViewInv'
<1>1. /\ IndexShape'
      /\ \A i \in Nat : 1 <= i /\ i <= Len(disk) /\ i <= Len(disk') => disk'[i] = disk[i]
  BY IndexMoves DEF ViewInv, IndexerStep
<1>2. Len(disk) \in Nat /\ Len(disk') \in Nat /\ Numbered(disk) /\ Numbered(disk')
  BY <1>1 DEF ViewInv, IndexShape, Numbered
<1>3. req' = [x \in Requests |-> req'[x]]
  BY DEF IndexerStep
<1>4. ASSUME NEW x \in Requests PROVE WellFormed(req'[x]) /\ Consistent(req'[x], disk')
  <2> DEFINE q == req[x]
             new == [q EXCEPT !.truth = StillStands(x), !.cut = q.cut \cup SearchesCut(x)]
  <2>1. WellFormed(q) /\ Consistent(q, disk)
    BY DEF ViewInv, RequestsWellFormed
  <2>2. req'[x] = new
    BY DEF IndexerStep
  <2>3. /\ DOMAIN new = DOMAIN q /\ new.front = q.front
        /\ new.method = q.method /\ new.work = q.work /\ new.asked = q.asked
        /\ new.h = q.h /\ new.got = q.got /\ new.shadow = q.shadow /\ new.search = q.search
        /\ new.truth = StillStands(x) /\ new.cut = q.cut \cup SearchesCut(x)
    BY <2>1, Fields
  <2> HIDE DEF new
  <2>4. WellFormed(new)
    BY <2>1, <2>3 DEF WellFormed
  <2>5. q.truth = NoValue => new.truth = NoValue
    BY <2>3 DEF StillStands
  <2>6. ASSUME new.truth # NoValue
        PROVE  Tracks(new, disk') /\ Answered(new) /\ OnTrack(new, disk')
    <3>1. /\ new.truth = q.truth /\ q.h \in Nat /\ q.work \in {"execute", "read"}
          /\ Stands(x, q.h, disk') /\ Tracks(q, disk) /\ Answered(q) /\ OnTrack(q, disk)
      BY <2>1, <2>3, <2>5, <2>6 DEF Consistent, StillStands
    <3>2. /\ q.h <= Len(disk) /\ q.h <= Len(disk')
          /\ q.method = "preview" => q.h = Len(disk) /\ q.h = Len(disk')
      BY <1>2, <3>1 DEF Stands, Tracks
    <3>3. \A i \in 1 .. q.h : disk'[i] = disk[i]
      BY <1>1, <1>2, <3>1, <3>2
    <3>4. SlotAt(disk', q.h) = SlotAt(disk, q.h)
      BY <1>2, <3>1, <3>2, <3>3, SlotAtIsSlot
    <3>5. Tracks(new, disk')
      BY <2>3, <3>1, <3>2, <3>4 DEF Tracks, Written
    <3>6. Answered(new)
      BY <2>3, <3>1 DEF Answered, Written
    <3>7. OnTrack(new, disk')
      <4>1. /\ Goal(new) = Goal(q)
            /\ \A i \in Nat : i <= Goal(q) /\ i # 0 => Slot(new, disk', i) = Slot(q, disk, i)
        <5>1. \A i \in Nat : ~(i > q.h) /\ i # 0 => disk'[i] = disk[i]
          BY <3>1, <3>3
        <5> QED
          BY <2>3, <5>1 DEF Goal, InShadow, Slot, Written
      <4>2. CASE q.search = NoSearch
        BY <2>3, <3>1, <4>2 DEF OnTrack
      <4>3. CASE q.search # NoSearch
        <5>1. /\ q.search \in [left : Nat, right : Nat, best : Slots]
              /\ q.search.left \in Nat /\ q.search.right \in Nat
              /\ q.search.left <= Goal(q) /\ Goal(q) <= q.search.right
              /\ q.search.left < q.search.right
              /\ q.search.right <= Length(q, disk) \/ Len(q.got) + 1 \in q.cut
              /\ q.search.best = IF q.search.left = 0 THEN Empty ELSE Slot(q, disk, q.search.left)
          BY <3>1, <4>3 DEF OnTrack
        <5>2. q.search.right <= Length(new, disk') \/ Len(q.got) + 1 \in new.cut
          <6>1. CASE Len(disk') < Len(disk)
            BY <2>3, <4>3, <6>1 DEF SearchesCut
          <6>2. CASE ~(Len(disk') < Len(disk))
            <7>1. Length(q, disk) <= Length(new, disk') /\ Length(q, disk) \in Nat
                  /\ Length(new, disk') \in Nat
              BY <1>2, <2>3, <3>1, <6>2 DEF Length, InShadow
            <7> QED
              BY <2>3, <5>1, <7>1
          <6> QED
            BY <6>1, <6>2
        <5> QED
          BY <2>3, <4>1, <5>1, <5>2 DEF OnTrack
      <4> QED
        BY <4>2, <4>3
    <3> QED
      BY <3>5, <3>6, <3>7
  <2>7. Consistent(new, disk')
    BY <2>1, <2>3, <2>5, <2>6 DEF Consistent
  <2> QED
    BY <2>2, <2>4, <2>7
<1>5. RequestsWellFormed'
  BY <1>3, <1>4 DEF RequestsWellFormed, WellFormed
<1> QED
  BY <1>1, <1>4, <1>5 DEF ViewInv

LEMMA ViewInvInitially == ServerInit => ViewInv
<1> SUFFICES ASSUME ServerInit PROVE ViewInv
  OBVIOUS
<1>1. WellFormed(NewRequest)
  BY DEF WellFormed, NewRequest, Permitted
<1>2. RequestsWellFormed
  BY <1>1 DEF ServerInit, RequestsWellFormed
<1>3. IndexShape
  BY ServerAssumption DEF ServerInit, IndexShape, Numbered
<1>4. Consistent(NewRequest, disk)
  BY DEF Consistent, NewRequest, Latest
<1>5. \A r \in Requests : req[r] = NewRequest
  BY DEF ServerInit
<1> QED
  BY <1>2, <1>3, <1>4, <1>5 DEF ViewInv

LEMMA ViewInvKept ==
  ASSUME ~Forked, ViewInv, [HostNext]_hostVars
  PROVE  ViewInv'
<1>1. CASE IndexerStep
  BY <1>1, IndexerKeepsView
<1>2. ASSUME NEW r \in Requests, RequestStep(r) PROVE ViewInv'
  <2>1. CASE \/ \E m \in Methods, a \in {Latest, 1} : Post(r, m, a)
             \/ AcquirePermit(r)
             \/ CheckFloor(r) /\ req'[r].work = "permit"
    BY <2>1, AsksKeepView
  <2>2. CASE \/ StorageRead(r) \/ PreviewRefused(r) \/ AcquireTimesOut(r) \/ DecodeFails(r)
             \/ PreviewFails(r) \/ ViewReturns(r) \/ ViewOutgrows(r) \/ WorkerCancelled(r)
             \/ CheckFloor(r) /\ req'[r].work # "permit"
    BY <2>2, EndingKeepsView
  <2>3. CASE ResolveHeight(r)
    BY <2>3, ResolveKeepsView
  <2>4. CASE PreviewExecutes(r)
    BY <2>4, PreviewKeepsView
  <2>5. CASE ReadLength(r) \/ ReadSlot(r)
    BY <2>5, ReadLengthKeepsView, ReadSlotKeepsView
  <2>6. CASE Answer(r) \/ TimerFires(r) \/ ClientGone(r)
    BY <2>6, HandlerKeepsView
  <2> QED
    BY <1>2, <2>1, <2>2, <2>3, <2>4, <2>5, <2>6 DEF RequestStep
<1>3. CASE UNCHANGED hostVars
  BY <1>3 DEF hostVars, ViewInv, RequestsWellFormed, WellFormed, IndexShape
<1>4. CASE HostDone
  BY <1>3, <1>4 DEF HostDone
<1> QED
  BY <1>1, <1>2, <1>3, <1>4 DEF HostNext

(* Without --fork, a view or preview is told one state of the index, the   *)
(* one at the height it resolved, unless that height has been rolled back  *)
(* or, under a preview, built upon; what it is told otherwise is nothing,  *)
(* in a search whose list was shortened under it.  Between any two gets    *)
(* any number of blocks may be committed and rolled back and any number of *)
(* previews run.                                                           *)
THEOREM ViewsAreConsistent ==
  ASSUME ~Forked
  PROVE  HostSpec => []ViewsConsistent
<1>1. ViewInv => ViewsConsistent
  <2> SUFFICES ASSUME ViewInv, NEW r \in Requests, req[r].truth # NoValue,
                      NEW i \in DOMAIN req[r].got
               PROVE  \/ req[r].got[i] = Expected(r, i)
                      \/ i \in req[r].cut /\ req[r].got[i] = Empty
    BY DEF ViewsConsistent
  <2>1. Answered(req[r])
    BY DEF ViewInv, Consistent
  <2>2. i \in 1 .. Len(req[r].got)
    BY <2>1 DEF Answered
  <2> QED
    BY <2>1, <2>2 DEF Answered, Expected, PreviewSlot, Written
<1>2. ViewInv /\ [HostNext]_hostVars => ViewInv'
  BY ViewInvKept
<1> QED
  BY <1>1, <1>2, ViewInvInitially, PTL DEF HostSpec
=============================================================================
