----------------------------- MODULE GuestMemory -----------------------------
(***************************************************************************)
(* The library an indexer is linked with: a cache in front of the host's   *)
(* reads, the queue of keys to flush, and the checkpoint stack of an       *)
(* AtomicPointer, all in the memory of the WASM instance.  Operators over  *)
(* one memory; BlockRunner decides when a memory is made and lost.         *)
(***************************************************************************)
EXTENDS Integers, Sequences, FiniteSets

CONSTANTS
  Keys,     \* the keys the indexer uses
  NoValue   \* None

Nothing == [k \in {} |-> 0]

(* initialize: cache, queue and stack as the first call makes them. *)
NewMemory == [cache |-> Nothing, queue |-> <<>>, stack |-> <<Nothing>>]

Put(map, k, v) == [x \in DOMAIN map \cup {k} |-> IF x = k THEN v ELSE map[x]]

PipeTo(from, to) == [x \in DOMAIN from \cup DOMAIN to |->
                       IF x \in DOMAIN from THEN from[x] ELSE to[x]]

(* get: the cache, else the host; either way the cache has it afterwards. *)
Value(mem, host, k) == IF k \in DOMAIN mem.cache THEN mem.cache[k] ELSE host[k]

Caches(mem, host, k) == [mem EXCEPT !.cache = Put(@, k, Value(mem, host, k))]

(* set: into the cache, and onto the queue. *)
SetKey(mem, k, v) ==
  [mem EXCEPT !.cache = Put(@, k, v), !.queue = Append(@, k)]

(* flush: the queue's keys with what the cache holds now. *)
Batch(mem) == [k \in {mem.queue[i] : i \in 1 .. Len(mem.queue)} |-> mem.cache[k]]

Flushed(mem) == [mem EXCEPT !.queue = <<>>]

Depth(mem) == Len(mem.stack)

Top(mem) == mem.stack[Depth(mem)]

(* AtomicPointer::get: the youngest checkpoint that has the key, else get. *)
Holding(mem, k) == {i \in 1 .. Depth(mem) : k \in DOMAIN mem.stack[i]}

AtomicValue(mem, host, k) ==
  IF Holding(mem, k) = {} THEN Value(mem, host, k)
  ELSE mem.stack[CHOOSE i \in Holding(mem, k) : \A j \in Holding(mem, k) : j <= i][k]

AtomicSet(mem, k, v) == [mem EXCEPT !.stack[Depth(mem)] = Put(@, k, v)]

Checkpoint(mem) == [mem EXCEPT !.stack = Append(@, Nothing)]

Pop(mem) == SubSeq(mem.stack, 1, Depth(mem) - 1)

(* commit: into the checkpoint below, or into the store from the last one, *)
(* which keeps its entries.                                                *)
SetAll(mem, map) ==
  [mem EXCEPT !.cache = PipeTo(map, @),
     !.queue = @ \o CHOOSE s \in [1 .. Cardinality(DOMAIN map) -> DOMAIN map] :
                      {s[i] : i \in DOMAIN s} = DOMAIN map]

DropTop(mem) == [mem EXCEPT !.stack = Pop(mem)]

CommitTop(mem) ==
  IF Depth(mem) > 1
  THEN [mem EXCEPT !.stack = [Pop(mem) EXCEPT ![Depth(mem) - 1] = PipeTo(Top(mem), @)]]
  ELSE SetAll(mem, Top(mem))

RollbackTop(mem) == [mem EXCEPT !.stack = Pop(mem)]

(***************************************************************************)
(* One call of the indexer: add one to a key, directly or through the      *)
(* atomic pointer, or move the checkpoints.                                *)
(***************************************************************************)
AddTo(mem, host, k) == SetKey(Caches(mem, host, k), k, Value(mem, host, k) + 1)

AtomicAdd(mem, host, k) ==
  AtomicSet(IF Holding(mem, k) = {} THEN Caches(mem, host, k) ELSE mem,
            k, AtomicValue(mem, host, k) + 1)

CallOf(mem, host, op) ==
  CASE op[1] = "add"        -> AddTo(mem, host, op[2])
    [] op[1] = "atomic"     -> AtomicAdd(mem, host, op[2])
    [] op[1] = "checkpoint" -> Checkpoint(mem)
    [] op[1] = "commit"     -> CommitTop(mem)
    [] op[1] = "rollback"   -> RollbackTop(mem)

(***************************************************************************)
(* What the calls of a block are for, without caches and pointers: a stack *)
(* of the additions made in each checkpoint and not rolled back, the       *)
(* additions made directly, and those the base of the stack has committed. *)
(***************************************************************************)
NoAdds == [k \in Keys |-> 0]

Plus(a, b) == [k \in Keys |-> a[k] + b[k]]

One(k) == [NoAdds EXCEPT ![k] = 1]

Intent == [kept |-> NoAdds, base |-> NoAdds, stack |-> <<NoAdds>>]

After(in, op) ==
  LET n == Len(in.stack)
  IN  CASE op[1] = "add"        -> [in EXCEPT !.kept = Plus(@, One(op[2]))]
        [] op[1] = "atomic"     -> [in EXCEPT !.stack[n] = Plus(@, One(op[2]))]
        [] op[1] = "checkpoint" -> [in EXCEPT !.stack = Append(@, NoAdds)]
        [] op[1] = "rollback"   -> [in EXCEPT !.stack = SubSeq(@, 1, n - 1)]
        [] op[1] = "commit" /\ n > 1 ->
             [in EXCEPT !.stack = [SubSeq(@, 1, n - 1) EXCEPT ![n - 1] = Plus(@, in.stack[n])]]
        [] op[1] = "commit" /\ n = 1 -> [in EXCEPT !.base = in.stack[1]]
        [] OTHER -> in

(* After each call of a block, and the additions of a whole block. *)
Intents(block) ==
  LET state[i \in 0 .. Len(block)] ==
        IF i = 0 THEN Intent ELSE After(state[i - 1], block[i])
  IN  state

AddsOf(block) ==
  LET end == Intents(block)[Len(block)] IN Plus(end.kept, end.base)

(* What an indexer is held to: main! flushes once, after its code; a key   *)
(* is not both added to directly and through the atomic pointer, whose     *)
(* commit writes what the pointer read before; and a rollback undoes a     *)
(* checkpoint, else the pointer has nothing left to write to and panics.   *)
Disciplined(block) ==
  LET n == Len(block)
  IN  /\ n \in Nat \ {0} /\ block[n] = <<"flush">>
      /\ \E direct \in SUBSET Keys : \A i \in 1 .. n - 1 :
           \/ \E k \in direct : block[i] = <<"add", k>>
           \/ \E k \in Keys \ direct : block[i] = <<"atomic", k>>
           \/ block[i] \in {<<"checkpoint">>, <<"commit">>}
           \/ block[i] = <<"rollback">> /\ Len(Intents(block)[i - 1].stack) > 1
=============================================================================
