----------------------------- MODULE StoreReader -----------------------------
(***************************************************************************)
(* A reader of the index next to the operations of IndexStore.  It looks a *)
(* key up at a height (SMTHelper::get_at_height) without a lock or a       *)
(* database snapshot: one get for the length of the key's list and one for *)
(* every slot the search probes, and before each of them blocks may be     *)
(* committed, rollbacks may write, fail or be cut off.                     *)
(***************************************************************************)
EXTENDS IndexStore, ListSearch

VARIABLE reader   \* the lookup in progress

readerVars == <<vars, reader>>

NotReading == [pc |-> "idle"]

(* Mutant: an update is visible only after its height. *)
VisibleAfter(e, h) == e.h < h

Visible(e, h) == e.h <= h

(* No height above this one is sure to have its updates.                   *)
SafeTop == IF FreshDb THEN -1 ELSE intact

(* The length is read; without one, or at 0, there is nothing to search.   *)
(* The history variables: whether the height was safe all the while, and   *)
(* whether the list has become shorter since.                              *)
BeginLookup(k, h) ==
  /\ reader = NotReading
  /\ reader' = [pc |-> "search", key |-> k, h |-> h,
                s |-> StartSearch(Len(hist[k]), Hole), safe |-> h <= SafeTop, cut |-> FALSE]
  /\ UNCHANGED vars

Searching == reader.pc = "search" /\ ~SearchEnded(reader.s)

(* The slot that is looked at, a hole where its key is missing.            *)
SlotRead ==
  LET i == Probed(reader.s)
  IN  IF i <= Len(hist[reader.key]) THEN hist[reader.key][i] ELSE Hole

(* One probe: "Missing update at index" ends the lookup with an error.     *)
ProbeSlot ==
  /\ Searching
  /\ reader' = IF SlotRead = Hole THEN [reader EXCEPT !.pc = "error"]
               ELSE [reader EXCEPT !.s = Narrowed(@, SlotRead, Visible(SlotRead, reader.h))]
  /\ UNCHANGED vars

(* The answer, or the error, goes to the caller.                           *)
Return ==
  /\ reader # NotReading /\ ~Searching
  /\ reader' = NotReading
  /\ UNCHANGED vars

(* A step of the store, as the lookup's history variables see it.          *)
StoreMoves ==
  /\ Next
  /\ reader' = IF reader = NotReading THEN reader
               ELSE [reader EXCEPT !.safe = @ /\ reader.h <= SafeTop',
                       !.cut = @ \/ Len(hist'[reader.key]) < Len(hist[reader.key])]

ReaderInit == Init /\ reader = NotReading

ReaderNext ==
  \/ StoreMoves
  \/ \E k \in Keys, h \in Heights : BeginLookup(k, h)
  \/ ProbeSlot \/ Return

ReaderSpec == ReaderInit /\ [][ReaderNext]_readerVars

(***************************************************************************)
(* Properties.                                                             *)
(***************************************************************************)

(* The last update the recorded chain made to key k at or below height h,  *)
(* a hole if it made none.                                                 *)
LastUpdate(k, h) ==
  LET writers == {x \in StartBlock .. h : Updates[hash[x]][k] > 0}
      last    == CHOOSE x \in writers : \A y \in writers : y <= x
  IN  IF writers = {} THEN Hole
      ELSE [h |-> last, b |-> hash[last], n |-> Updates[hash[last]][k]]

(* Historical reads: a lookup at a height that was safe all the while      *)
(* finds the last update that the recorded chain made there, though every  *)
(* slot is read at another moment and blocks are committed and rollbacks   *)
(* to a greater or equal height run in between; or it ends in the error    *)
(* "Missing update", and then its list was being cut.                      *)
ReadsMatchChain ==
  Undamaged =>
    /\ reader.pc = "search" /\ SearchEnded(reader.s) /\ reader.safe =>
         reader.s.best = LastUpdate(reader.key, reader.h)
    /\ reader.pc = "error" => reader.cut

-----------------------------------------------------------------------------
Lookups == [pc : {"search", "error"}, key : Keys, h : Heights, safe : BOOLEAN, cut : BOOLEAN,
            s : [left : Nat, right : Nat, best : Entry]]

(* Why the search may be taken apart: what it has left behind on its left  *)
(* is at or below the height and stays, what it has left behind on its     *)
(* right is above it or gone.                                              *)
LookupInv ==
  reader # NotReading =>
    LET s == reader.s
        l == hist[reader.key]
    IN  /\ reader \in Lookups /\ s.left <= s.right
        /\ ~reader.cut => s.right <= Len(l)
        /\ reader.pc = "error" => reader.cut
        /\ reader.safe =>
             /\ reader.h <= SafeTop /\ s.left <= Len(l)
             /\ s.best = IF s.left = 0 THEN Hole ELSE l[s.left]
             /\ \A i \in 1 .. Len(l) : /\ i <= s.left => l[i].h <= reader.h
                                       /\ i > s.right => l[i].h > reader.h

RInv == IInv /\ (Undamaged => LookupInv)
=============================================================================
