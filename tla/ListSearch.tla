------------------------------ MODULE ListSearch ------------------------------
(***************************************************************************)
(* SMTHelper::get_at_height: a binary search for the last slot of a list   *)
(* at or below a height.  The length and every slot it looks at are read   *)
(* from the database one by one, so that a reader takes it step by step.   *)
(***************************************************************************)
EXTENDS Integers

(* The length has been read; best is None. *)
StartSearch(length, none) == [left |-> 0, right |-> length, best |-> none]

SearchEnded(s) == s.left >= s.right

(* The slot to look at next, key/mid.  (Slots are numbered from 1 here.)   *)
Probed(s) == (s.left + s.right) \div 2 + 1

(* What the slot tells: best_value and left, or right.                     *)
Narrowed(s, slot, visible) ==
  IF visible THEN [s EXCEPT !.left = Probed(s), !.best = slot]
  ELSE [s EXCEPT !.right = Probed(s) - 1]

===============================================================================
