-------------------------- MODULE BlockRunnerProofs --------------------------
(***************************************************************************)
(* A block that is committed had the effect its calls are for, once, for   *)
(* every disciplined indexer and any failures and rollbacks.  The first    *)
(* half is about the library alone: its memory follows the additions made  *)
(* so far, checkpoint by checkpoint.                                       *)
(***************************************************************************)
EXTENDS BlockRunner, FiniteSetTheorems, WellFoundedInduction, TLAPS

(* A nonempty set of naturals has a least element. *)
LEMMA LeastExists ==
  ASSUME NEW T, T \subseteq Nat, T # {}
  PROVE  \E x \in T : \A y \in T : x <= y
<1>1. IsWellFoundedOn(OpToRel(<, Nat), Nat)
  BY NatLessThanWellFounded
<1>2. PICK x \in T : \A y \in T : ~ (<<y, x>> \in OpToRel(<, Nat))
  BY <1>1, WFMin
<1>3. \A y \in T : ~ (y < x)
  BY <1>2 DEF OpToRel
<1> QED
  BY <1>3

(* A nonempty set of naturals below a bound has a greatest element. *)
LEMMA GreatestExists ==
  ASSUME NEW n \in Nat, NEW T, T \subseteq 0 .. n, T # {}
  PROVE  \E x \in T : \A y \in T : y <= x
<1> DEFINE U == {u \in 0 .. n : n - u \in T}
<1>1. U \subseteq Nat /\ U # {}
  <2>1. PICK t \in T : TRUE
    OBVIOUS
  <2>2. t \in 0 .. n /\ n - t \in 0 .. n /\ n - (n - t) = t
    BY <2>1
  <2> QED
    BY <2>1, <2>2
<1>2. PICK u \in U : \A v \in U : u <= v
  BY <1>1, LeastExists
<1>3. u \in 0 .. n /\ n - u \in T
  OBVIOUS
<1>4. ASSUME NEW y \in T PROVE y <= n - u
  <2>1. y \in 0 .. n /\ n - y \in 0 .. n /\ n - (n - y) = y
    OBVIOUS
  <2>2. n - y \in U
    BY <2>1
  <2>3. u <= n - y
    BY <1>2, <2>2
  <2> QED
    BY <1>3, <2>1, <2>3
<1> QED
  BY <1>3, <1>4

Vec == [Keys -> Int]

(* What caches and checkpoints are: values for some of the keys. *)
Maps == UNION {[K -> Int] : K \in SUBSET Keys}

LEMMA MapFacts ==
  ASSUME NEW f \in Maps
  PROVE  /\ DOMAIN f \subseteq Keys /\ f = [k \in DOMAIN f |-> f[k]]
         /\ \A k \in DOMAIN f : f[k] \in Int
<1>1. PICK K \in SUBSET Keys : f \in [K -> Int]
  BY DEF Maps
<1> QED
  BY <1>1

LEMMA MapFrom ==
  ASSUME NEW K \in SUBSET Keys, NEW f \in [K -> Int]
  PROVE  f \in Maps
BY DEF Maps

LEMMA PutFacts ==
  ASSUME NEW f \in Maps, NEW k \in Keys, NEW v \in Int
  PROVE  Put(f, k, v) \in Maps
<1> DEFINE K == DOMAIN f \cup {k}
           g == [x \in K |-> IF x = k THEN v ELSE f[x]]
<1>1. K \in SUBSET Keys /\ \A x \in DOMAIN f : f[x] \in Int
  BY MapFacts
<1>2. g \in [K -> Int]
  BY <1>1
<1>3. g \in Maps
  <2> HIDE DEF g, K
  <2> QED
    BY <1>1, <1>2, MapFrom
<1> QED
  BY <1>3 DEF Put

LEMMA PipeFacts ==
  ASSUME NEW f \in Maps, NEW g \in Maps
  PROVE  /\ PipeTo(f, g) \in Maps
         /\ DOMAIN PipeTo(f, g) = DOMAIN f \cup DOMAIN g
         /\ \A x \in DOMAIN f : PipeTo(f, g)[x] = f[x]
         /\ \A x \in DOMAIN g \ DOMAIN f : PipeTo(f, g)[x] = g[x]
<1> DEFINE K == DOMAIN f \cup DOMAIN g
           h == [x \in K |-> IF x \in DOMAIN f THEN f[x] ELSE g[x]]
<1>1. /\ K \in SUBSET Keys
      /\ \A x \in DOMAIN f : f[x] \in Int
      /\ \A x \in DOMAIN g : g[x] \in Int
  BY MapFacts
<1>2. h \in [K -> Int]
  BY <1>1
<1>3. h \in Maps
  <2> HIDE DEF h, K
  <2> QED
    BY <1>1, <1>2, MapFrom
<1> QED
  BY <1>3 DEF PipeTo

LEMMA NothingFacts == Nothing \in Maps /\ DOMAIN Nothing = {}
<1>1. Nothing \in [{} -> Int] /\ DOMAIN Nothing = {}
  BY DEF Nothing
<1> QED
  BY <1>1, MapFrom

LEMMA PlusFacts ==
  ASSUME NEW a \in Vec, NEW b \in Vec
  PROVE  Plus(a, b) \in Vec /\ \A k \in Keys : Plus(a, b)[k] = a[k] + b[k]
BY DEF Plus, Vec

LEMMA OneFacts ==
  ASSUME NEW k \in Keys
  PROVE  /\ NoAdds \in Vec /\ One(k) \in Vec
         /\ \A x \in Keys : NoAdds[x] = 0 /\ One(k)[x] = IF x = k THEN 1 ELSE 0
BY DEF NoAdds, One, Vec

LEMMA NoAddsFacts == NoAdds \in Vec /\ \A x \in Keys : NoAdds[x] = 0
BY DEF NoAdds, Vec

-----------------------------------------------------------------------------
(***************************************************************************)
(* The checkpoints.  val[i] is what the keys would be if the checkpoints   *)
(* up to the i-th were committed; each one holds the keys it has added to, *)
(* with those values.  No key is in one that is added to directly.         *)
(***************************************************************************)
Layer(m, a, below, above, direct) ==
  /\ DOMAIN m \subseteq Keys \ direct
  /\ \A k \in Keys : above[k] = below[k] + a[k]
  /\ \A k \in DOMAIN m : m[k] = above[k]
  /\ \A k \in Keys \ DOMAIN m : a[k] = 0

Stacked(ms, is, host, direct, val) ==
  /\ ms \in Seq(Maps) /\ is \in Seq(Vec) /\ Len(ms) = Len(is) /\ Len(is) >= 1
  /\ val \in [0 .. Len(is) -> Vec] /\ val[0] = host
  /\ \A i \in 1 .. Len(is) : Layer(ms[i], is[i], val[i - 1], val[i], direct)

(* A checkpoint is pushed. *)
LEMMA PushLayer ==
  ASSUME NEW ms, NEW is, NEW host, NEW direct, NEW val, Stacked(ms, is, host, direct, val)
  PROVE  \E w : Stacked(Append(ms, Nothing), Append(is, NoAdds), host, direct, w)
<1> DEFINE n == Len(is)
           w == [i \in 0 .. n + 1 |-> IF i = n + 1 THEN val[n] ELSE val[i]]
           ms2 == Append(ms, Nothing)
           is2 == Append(is, NoAdds)
<1>1. /\ ms \in Seq(Maps) /\ is \in Seq(Vec) /\ Len(ms) = n /\ n \in Nat /\ n >= 1
      /\ val \in [0 .. n -> Vec] /\ val[0] = host
  BY DEF Stacked
<1>2. /\ ms2 \in Seq(Maps) /\ Len(ms2) = n + 1 /\ ms2[n + 1] = Nothing
      /\ \A i \in 1 .. n : ms2[i] = ms[i]
  BY <1>1, NothingFacts
<1>3. /\ is2 \in Seq(Vec) /\ Len(is2) = n + 1 /\ is2[n + 1] = NoAdds
      /\ \A i \in 1 .. n : is2[i] = is[i]
  BY <1>1, NoAddsFacts
<1>4. /\ w \in [0 .. n + 1 -> Vec] /\ w[n + 1] = val[n]
      /\ \A i \in 0 .. n : w[i] = val[i]
  <2> HIDE DEF n, ms2, is2
  <2>1. n + 1 \in 0 .. n + 1 /\ \A i \in 0 .. n : i \in 0 .. n + 1 /\ i # n + 1
    BY <1>1
  <2>2. \A i \in 0 .. n + 1 : i # n + 1 => i \in 0 .. n
    BY <1>1
  <2>3. val[n] \in Vec /\ \A i \in 0 .. n : val[i] \in Vec
    BY <1>1
  <2> QED
    BY <2>1, <2>2, <2>3
<1> HIDE DEF ms2, is2, w
<1>5. ASSUME NEW i \in 1 .. n + 1
      PROVE  Layer(ms2[i], is2[i], w[i - 1], w[i], direct)
  <2>1. CASE i = n + 1
    <3>1. w[i - 1] = val[n] /\ w[i] = val[n] /\ val[n] \in Vec
      BY <1>1, <1>4, <2>1
    <3>2. \A k \in Keys : val[n][k] = val[n][k] + NoAdds[k]
      BY <3>1, NoAddsFacts DEF Vec
    <3> QED
      BY <1>2, <1>3, <2>1, <3>1, <3>2, NothingFacts, NoAddsFacts DEF Layer
  <2>2. CASE i # n + 1
    <3>1. i \in 1 .. n /\ i - 1 \in 0 .. n /\ i \in 0 .. n
      BY <1>1, <2>2
    <3> QED
      BY <1>2, <1>3, <1>4, <3>1 DEF Stacked
  <2> QED
    BY <2>1, <2>2
<1>6. w[0] = host
  BY <1>1, <1>4
<1>7. Stacked(ms2, is2, host, direct, w)
  BY <1>1, <1>2, <1>3, <1>4, <1>5, <1>6 DEF Stacked
<1> QED
  BY <1>7 DEF ms2, is2

(* The youngest checkpoint goes. *)
LEMMA PopLayer ==
  ASSUME NEW ms, NEW is, NEW host, NEW direct, NEW val, Stacked(ms, is, host, direct, val),
         Len(is) > 1
  PROVE  \E w : /\ Stacked(SubSeq(ms, 1, Len(is) - 1), SubSeq(is, 1, Len(is) - 1), host,
                           direct, w)
                /\ \A i \in 0 .. Len(is) - 1 : w[i] = val[i]
<1> DEFINE n == Len(is)
           w == [i \in 0 .. n - 1 |-> val[i]]
           ms2 == SubSeq(ms, 1, n - 1)
           is2 == SubSeq(is, 1, n - 1)
<1>1. /\ ms \in Seq(Maps) /\ is \in Seq(Vec) /\ Len(ms) = n /\ n \in Nat /\ n > 1
      /\ val \in [0 .. n -> Vec] /\ val[0] = host
  BY DEF Stacked
<1>2. /\ ms2 \in Seq(Maps) /\ Len(ms2) = n - 1 /\ \A i \in 1 .. n - 1 : ms2[i] = ms[i]
  BY <1>1
<1>3. /\ is2 \in Seq(Vec) /\ Len(is2) = n - 1 /\ \A i \in 1 .. n - 1 : is2[i] = is[i]
  BY <1>1
<1>4. /\ w \in [0 .. n - 1 -> Vec] /\ \A i \in 0 .. n - 1 : w[i] = val[i]
  BY <1>1
<1> HIDE DEF ms2, is2, w
<1>5. ASSUME NEW i \in 1 .. n - 1
      PROVE  Layer(ms2[i], is2[i], w[i - 1], w[i], direct)
  <2>1. i \in 1 .. n /\ i - 1 \in 0 .. n - 1 /\ i \in 0 .. n - 1
    BY <1>1
  <2> QED
    BY <1>2, <1>3, <1>4, <2>1 DEF Stacked
<1>6. w[0] = host /\ n - 1 >= 1
  BY <1>1, <1>4
<1>7. Stacked(ms2, is2, host, direct, w)
  BY <1>1, <1>2, <1>3, <1>4, <1>5, <1>6 DEF Stacked
<1> QED
  BY <1>4, <1>7 DEF ms2, is2

(* The youngest checkpoint changes. *)
LEMMA ChangeLayer ==
  ASSUME NEW ms, NEW is, NEW host, NEW direct, NEW val, Stacked(ms, is, host, direct, val),
         NEW n, n = Len(is),
         NEW m \in Maps, NEW a \in Vec, NEW v \in Vec, Layer(m, a, val[n - 1], v, direct)
  PROVE  \E w : Stacked([ms EXCEPT ![n] = m], [is EXCEPT ![n] = a], host, direct, w)
<1> DEFINE w == [val EXCEPT ![n] = v]
           ms2 == [ms EXCEPT ![n] = m]
           is2 == [is EXCEPT ![n] = a]
<1>1. /\ ms \in Seq(Maps) /\ is \in Seq(Vec) /\ Len(ms) = n /\ n \in Nat /\ n >= 1
      /\ val \in [0 .. n -> Vec] /\ val[0] = host
  BY DEF Stacked
<1>2. /\ ms2 \in Seq(Maps) /\ Len(ms2) = n /\ ms2[n] = m
      /\ \A i \in 1 .. n : i # n => ms2[i] = ms[i]
  BY <1>1
<1>3. /\ is2 \in Seq(Vec) /\ Len(is2) = n /\ is2[n] = a
      /\ \A i \in 1 .. n : i # n => is2[i] = is[i]
  BY <1>1
<1>4. /\ w \in [0 .. n -> Vec] /\ w[n] = v /\ \A i \in 0 .. n : i # n => w[i] = val[i]
  BY <1>1
<1> HIDE DEF ms2, is2, w
<1>5. ASSUME NEW i \in 1 .. n
      PROVE  Layer(ms2[i], is2[i], w[i - 1], w[i], direct)
  <2>1. i - 1 \in 0 .. n /\ i - 1 # n /\ i \in 0 .. n
    BY <1>1
  <2>2. CASE i = n
    BY <1>2, <1>3, <1>4, <2>1, <2>2
  <2>3. CASE i # n
    BY <1>2, <1>3, <1>4, <2>1, <2>3 DEF Stacked
  <2> QED
    BY <2>2, <2>3
<1>6. w[0] = host
  BY <1>1, <1>4
<1>7. Stacked(ms2, is2, host, direct, w)
  BY <1>1, <1>2, <1>3, <1>4, <1>5, <1>6 DEF Stacked
<1> QED
  BY <1>7 DEF ms2, is2

(* A value no checkpoint above the i-th has added to is the i-th's. *)
LEMMA LevelAbove ==
  ASSUME NEW n \in Nat, NEW f, NEW i \in 0 .. n,
         \A j \in 1 .. n : j > i => f[j] = f[j - 1]
  PROVE  f[n] = f[i]
<1> DEFINE Bad == {j \in 0 .. n : j >= i /\ f[j] # f[i]}
<1>1. SUFFICES ASSUME Bad # {} PROVE FALSE
  BY DEF Bad
<1>2. PICK j \in Bad : \A y \in Bad : j <= y
  <2>1. Bad \subseteq Nat
    OBVIOUS
  <2> QED
    BY <1>1, <2>1, LeastExists
<1>3. j \in 0 .. n /\ j >= i /\ f[j] # f[i]
  OBVIOUS
<1>4. j # i
  BY <1>3
<1>5. j \in 1 .. n /\ j > i /\ j - 1 \in 0 .. n /\ j - 1 >= i /\ ~ (j <= j - 1)
  BY <1>3, <1>4
<1>6. f[j - 1] = f[i]
  <2>1. j - 1 \notin Bad
    BY <1>2, <1>5
  <2> QED
    BY <1>5, <2>1
<1> QED
  BY <1>3, <1>5, <1>6

(* What AtomicPointer finds: the youngest checkpoint with the key, else    *)
(* whatever is below them all. *)
With(ms, k) == {i \in 1 .. Len(ms) : k \in DOMAIN ms[i]}

LEMMA YoungestHolds ==
  ASSUME NEW ms, NEW is, NEW host, NEW direct, NEW val, Stacked(ms, is, host, direct, val),
         NEW k \in Keys
  PROVE  /\ With(ms, k) = {} => val[Len(is)][k] = host[k]
         /\ With(ms, k) # {} => \E x \in With(ms, k) : \A j \in With(ms, k) : j <= x
         /\ \A x \in With(ms, k) :
              (\A j \in With(ms, k) : j <= x) => ms[x][k] = val[Len(is)][k]
<1> DEFINE n == Len(is)
           H == {i \in 1 .. Len(ms) : k \in DOMAIN ms[i]}
           f == [j \in 0 .. n |-> val[j][k]]
<1>1. /\ n \in Nat /\ n >= 1 /\ Len(ms) = n /\ val \in [0 .. n -> Vec] /\ val[0] = host
      /\ \A i \in 1 .. n : Layer(ms[i], is[i], val[i - 1], val[i], direct)
  BY DEF Stacked
<1>2. ASSUME NEW j \in 1 .. n, j \notin H PROVE f[j] = f[j - 1]
  <2>1. j \in 0 .. n /\ j - 1 \in 0 .. n
    BY <1>1
  <2>2. val[j][k] = val[j - 1][k] + is[j][k] /\ is[j][k] = 0
    BY <1>1, <1>2 DEF Layer
  <2>3. val[j - 1][k] \in Int
    BY <1>1, <2>1 DEF Vec
  <2> QED
    BY <2>1, <2>2, <2>3
<1>3. f[n] = val[n][k] /\ f[0] = host[k] /\ 0 \in 0 .. n
  BY <1>1
<1>4. ASSUME H = {} PROVE val[n][k] = host[k]
  <2>1. \A j \in 1 .. n : j > 0 => f[j] = f[j - 1]
    BY <1>2, <1>4
  <2> HIDE DEF f
  <2>2. f[n] = f[0]
    BY <1>1, <1>3, <2>1, LevelAbove
  <2> QED
    BY <1>3, <2>2
<1>5. ASSUME H # {} PROVE \E x \in H : \A j \in H : j <= x
  <2>1. H \subseteq 0 .. n
    BY <1>1
  <2> QED
    BY <1>1, <1>5, <2>1, GreatestExists
<1>6. ASSUME NEW i \in H, \A j \in H : j <= i PROVE ms[i][k] = val[n][k]
  <2>2. \A j \in H : j <= i
    BY <1>6
  <2>3. i \in 1 .. n /\ k \in DOMAIN ms[i]
    BY <1>1
  <2>4. ms[i][k] = val[i][k]
    BY <1>1, <2>3 DEF Layer
  <2>5. i \in 0 .. n /\ f[i] = val[i][k]
    BY <1>1, <2>3
  <2>6. \A j \in 1 .. n : j > i => f[j] = f[j - 1]
    <3> TAKE j \in 1 .. n
    <3> HAVE j > i
    <3>1. j \notin H
      BY <2>2, <2>3
    <3> QED
      BY <1>2, <3>1
  <2> HIDE DEF f
  <2>7. f[n] = f[i]
    BY <1>1, <2>5, <2>6, LevelAbove
  <2> QED
    BY <1>3, <2>4, <2>5, <2>7
<1>7. With(ms, k) = H
  BY DEF With
<1> HIDE DEF H
<1> QED
  BY <1>4, <1>5, <1>6, <1>7

-----------------------------------------------------------------------------
(***************************************************************************)
(* The memory follows the calls: a cached key has what the host has and    *)
(* the additions made directly or committed by the base, a key that is not *)
(* queued has none of those, and the base's keys stay in the first         *)
(* checkpoint.                                                             *)
(***************************************************************************)
Memory(mem) ==
  /\ mem = [cache |-> mem.cache, queue |-> mem.queue, stack |-> mem.stack]
  /\ mem.cache \in Maps /\ mem.queue \in Seq(Keys)

Intention(in) ==
  /\ in = [kept |-> in.kept, base |-> in.base, stack |-> in.stack]
  /\ in.kept \in Vec /\ in.base \in Vec

Queued(queue) == {queue[i] : i \in 1 .. Len(queue)}

Cached(cache, queued, kept, base, host, direct) ==
  /\ queued \subseteq DOMAIN cache
  /\ \A k \in DOMAIN cache : cache[k] = host[k] + kept[k] + base[k]
  /\ \A k \in Keys \ queued : kept[k] = 0 /\ base[k] = 0
  /\ \A k \in direct : base[k] = 0
  /\ \A k \in Keys \ direct : kept[k] = 0

Follows(mem, in, host, direct) ==
  /\ Memory(mem) /\ Intention(in) /\ host \in Vec /\ direct \subseteq Keys
  /\ Cached(mem.cache, Queued(mem.queue), in.kept, in.base, host, direct)
  /\ \A k \in Keys : in.base[k] # 0 => k \in DOMAIN mem.stack[1]
  /\ \E val : Stacked(mem.stack, in.stack, host, direct, val)

LEMMA QueuedAppend ==
  ASSUME NEW q \in Seq(Keys), NEW k \in Keys
  PROVE  Append(q, k) \in Seq(Keys) /\ Queued(Append(q, k)) = Queued(q) \cup {k}
<1> DEFINE s == Append(q, k)
<1>1. /\ s \in Seq(Keys) /\ Len(s) = Len(q) + 1 /\ Len(q) \in Nat /\ s[Len(q) + 1] = k
      /\ \A i \in 1 .. Len(q) : s[i] = q[i]
  OBVIOUS
<1> HIDE DEF s
<1>2. 1 .. Len(s) = (1 .. Len(q)) \cup {Len(q) + 1}
  BY <1>1
<1>3. Queued(s) = Queued(q) \cup {k}
  BY <1>1, <1>2 DEF Queued
<1> QED
  BY <1>1, <1>3 DEF s

LEMMA QueuedConcat ==
  ASSUME NEW q \in Seq(Keys), NEW s \in Seq(Keys)
  PROVE  q \o s \in Seq(Keys) /\ Queued(q \o s) = Queued(q) \cup Queued(s)
<1> DEFINE t == q \o s
<1>1. /\ t \in Seq(Keys) /\ Len(t) = Len(q) + Len(s) /\ Len(q) \in Nat /\ Len(s) \in Nat
      /\ \A i \in 1 .. Len(q) : t[i] = q[i]
      /\ \A i \in 1 .. Len(s) : t[Len(q) + i] = s[i]
  OBVIOUS
<1> HIDE DEF t
<1>2. ASSUME NEW i \in 1 .. Len(t) PROVE t[i] \in Queued(q) \cup Queued(s)
  <2>1. CASE i <= Len(q)
    BY <1>1, <2>1 DEF Queued
  <2>2. CASE i > Len(q)
    <3>1. i - Len(q) \in 1 .. Len(s) /\ Len(q) + (i - Len(q)) = i
      BY <1>1, <2>2
    <3>2. t[i] = s[i - Len(q)]
      BY <1>1, <3>1
    <3> QED
      BY <3>1, <3>2 DEF Queued
  <2> QED
    BY <1>1, <2>1, <2>2
<1>3. ASSUME NEW i \in 1 .. Len(q) PROVE q[i] \in Queued(t)
  BY <1>1 DEF Queued
<1>4. ASSUME NEW i \in 1 .. Len(s) PROVE s[i] \in Queued(t)
  <2>1. Len(q) + i \in 1 .. Len(t)
    BY <1>1
  <2> QED
    BY <1>1, <2>1 DEF Queued
<1>5. Queued(t) = Queued(q) \cup Queued(s)
  BY <1>2, <1>3, <1>4 DEF Queued
<1> QED
  BY <1>1, <1>5 DEF t

(* get, past the cache or not. *)
LEMMA ValueIs ==
  ASSUME NEW mem, NEW in, NEW host, NEW direct, Follows(mem, in, host, direct), NEW k \in Keys
  PROVE  /\ Value(mem, host, k) = host[k] + in.kept[k] + in.base[k]
         /\ Value(mem, host, k) \in Int
<1>1. /\ in.kept[k] \in Int /\ in.base[k] \in Int /\ host[k] \in Int
      /\ Cached(mem.cache, Queued(mem.queue), in.kept, in.base, host, direct)
  BY DEF Follows, Intention, Vec
<1>2. CASE k \in DOMAIN mem.cache
  BY <1>1, <1>2 DEF Value, Cached
<1>3. CASE k \notin DOMAIN mem.cache
  <2>1. k \notin Queued(mem.queue)
    BY <1>1, <1>3 DEF Cached
  <2>2. in.kept[k] = 0 /\ in.base[k] = 0
    BY <1>1, <2>1 DEF Cached
  <2> QED
    BY <1>1, <1>3, <2>2 DEF Value
<1> QED
  BY <1>2, <1>3

(* Reading a key into the cache changes nothing else. *)
LEMMA CachesFollows ==
  ASSUME NEW mem, NEW in, NEW host, NEW direct, Follows(mem, in, host, direct), NEW k \in Keys
  PROVE  /\ Follows(Caches(mem, host, k), in, host, direct)
         /\ Caches(mem, host, k).stack = mem.stack /\ Caches(mem, host, k).queue = mem.queue
         /\ Caches(mem, host, k).cache = Put(mem.cache, k, Value(mem, host, k))
<1> DEFINE new == Caches(mem, host, k)
           c == Put(mem.cache, k, Value(mem, host, k))
<1>1. /\ Memory(mem) /\ mem.cache \in Maps
      /\ Cached(mem.cache, Queued(mem.queue), in.kept, in.base, host, direct)
  BY DEF Follows, Memory
<1>2. new = [cache |-> c, queue |-> mem.queue, stack |-> mem.stack]
  BY <1>1 DEF Caches, Memory
<1>3. /\ c \in Maps /\ DOMAIN c = DOMAIN mem.cache \cup {k}
      /\ c[k] = Value(mem, host, k)
      /\ \A x \in DOMAIN mem.cache : x # k => c[x] = mem.cache[x]
  <2> DEFINE f == mem.cache
             u == Value(mem, host, k)
  <2>1. f \in Maps /\ u \in Int
    BY <1>1, ValueIs
  <2> HIDE DEF f, u
  <2>2. Put(f, k, u) \in Maps
    BY <2>1, PutFacts
  <2>3. /\ DOMAIN Put(f, k, u) = DOMAIN f \cup {k} /\ Put(f, k, u)[k] = u
        /\ \A x \in DOMAIN f : x # k => Put(f, k, u)[x] = f[x]
    BY DEF Put
  <2> QED
    BY <2>2, <2>3 DEF f, u
<1> HIDE DEF new, c
<1>4. Cached(c, Queued(mem.queue), in.kept, in.base, host, direct)
  BY <1>1, <1>3, ValueIs DEF Cached
<1>5. Memory(new) /\ new.cache = c /\ new.queue = mem.queue /\ new.stack = mem.stack
  BY <1>1, <1>2, <1>3 DEF Memory
<1>6. Follows(new, in, host, direct)
  BY <1>4, <1>5 DEF Follows
<1> QED
  BY <1>5, <1>6 DEF new, c

LEMMA CacheShape ==
  ASSUME NEW mem, Memory(mem), NEW c, NEW q
  PROVE  [mem EXCEPT !.cache = c, !.queue = q] = [cache |-> c, queue |-> q, stack |-> mem.stack]
<1> DEFINE e == [mem EXCEPT !.cache = c, !.queue = q]
           r == [cache |-> c, queue |-> q, stack |-> mem.stack]
<1>1. DOMAIN mem = {"cache", "queue", "stack"}
  <2>1. mem = [cache |-> mem.cache, queue |-> mem.queue, stack |-> mem.stack]
    BY DEF Memory
  <2> QED
    BY <2>1
<1>2. DOMAIN e = {"cache", "queue", "stack"} /\ DOMAIN r = {"cache", "queue", "stack"}
  BY <1>1
<1>3. e.cache = c /\ e.queue = q /\ e.stack = mem.stack
  BY <1>1
<1>4. r.cache = c /\ r.queue = q /\ r.stack = mem.stack
  OBVIOUS
<1>5. e = [x \in DOMAIN e |-> e[x]] /\ r = [x \in DOMAIN r |-> r[x]]
  OBVIOUS
<1> HIDE DEF e, r
<1>6. \A x \in {"cache", "queue", "stack"} : e[x] = r[x]
  BY <1>3, <1>4
<1>7. e = r
  BY <1>2, <1>5, <1>6
<1> QED
  BY <1>7 DEF e, r

LEMMA SetShape ==
  ASSUME NEW mem, Memory(mem), NEW k, NEW v
  PROVE  SetKey(mem, k, v) = [cache |-> Put(mem.cache, k, v), queue |-> Append(mem.queue, k),
                              stack |-> mem.stack]
<1> DEFINE c == Put(mem.cache, k, v)
           q == Append(mem.queue, k)
<1>1. SetKey(mem, k, v) = [mem EXCEPT !.cache = c, !.queue = q]
  BY DEF SetKey
<1> HIDE DEF c, q
<1>2. SetKey(mem, k, v) = [cache |-> c, queue |-> q, stack |-> mem.stack]
  BY <1>1, CacheShape
<1> QED
  BY <1>2 DEF c, q

(* set of a key that is not in any checkpoint. *)
LEMMA AddFollows ==
  ASSUME NEW mem, NEW in, NEW host, NEW direct, Follows(mem, in, host, direct),
         NEW k \in direct, NEW op, op = <<"add", k>>
  PROVE  Follows(CallOf(mem, host, op), After(in, op), host, direct)
<1> DEFINE v == Value(mem, host, k) + 1
           m1 == Caches(mem, host, k)
           c == Put(m1.cache, k, v)
           q == Append(mem.queue, k)
           new == SetKey(m1, k, v)
           kept == Plus(in.kept, One(k))
           in2 == [in EXCEPT !.kept = kept]
<1>1. /\ k \in Keys /\ Intention(in) /\ mem.queue \in Seq(Keys)
  BY DEF Follows, Memory
<1>2. Follows(m1, in, host, direct) /\ m1.stack = mem.stack /\ m1.queue = mem.queue
  BY <1>1, CachesFollows
<1>3. CallOf(mem, host, op) = new /\ After(in, op) = in2
  BY DEF CallOf, After, AddTo
<1>4. Value(mem, host, k) = host[k] + in.kept[k] + in.base[k] /\ v \in Int
      /\ host[k] \in Int /\ in.kept[k] \in Int /\ in.base[k] \in Int
  <2>1. /\ Value(mem, host, k) = host[k] + in.kept[k] + in.base[k]
        /\ Value(mem, host, k) \in Int
    BY <1>1, ValueIs
  <2>2. host \in Vec /\ in.kept \in Vec /\ in.base \in Vec
    BY DEF Follows, Intention
  <2> QED
    BY <1>1, <2>1, <2>2 DEF Vec
<1> HIDE DEF m1, v
<1>13. Memory(m1) /\ m1.cache \in Maps
  BY <1>2 DEF Follows, Memory
<1>5. /\ c \in Maps /\ DOMAIN c = DOMAIN m1.cache \cup {k}
      /\ c[k] = v /\ \A x \in DOMAIN m1.cache : x # k => c[x] = m1.cache[x]
  <2> DEFINE f == m1.cache
  <2>1. f \in Maps /\ v \in Int /\ k \in Keys
    BY <1>1, <1>4, <1>13
  <2> HIDE DEF f
  <2>2. Put(f, k, v) \in Maps
    BY <2>1, PutFacts
  <2>3. /\ DOMAIN Put(f, k, v) = DOMAIN f \cup {k} /\ Put(f, k, v)[k] = v
        /\ \A x \in DOMAIN f : x # k => Put(f, k, v)[x] = f[x]
    BY DEF Put
  <2> QED
    BY <2>2, <2>3 DEF f
<1>6. q \in Seq(Keys) /\ Queued(q) = Queued(m1.queue) \cup {k}
  BY <1>1, <1>2, QueuedAppend
<1>7. /\ kept \in Vec /\ \A x \in Keys : kept[x] = in.kept[x] + (IF x = k THEN 1 ELSE 0)
  BY <1>1, PlusFacts, OneFacts DEF Intention
<1>8. in2 = [kept |-> kept, base |-> in.base, stack |-> in.stack]
  BY <1>1 DEF Intention
<1>9. new = [cache |-> c, queue |-> q, stack |-> m1.stack]
  BY <1>2, <1>13, SetShape
<1> HIDE DEF c, q, kept, in2, new
<1>10. Cached(c, Queued(q), kept, in.base, host, direct)
  <2>1. Cached(m1.cache, Queued(m1.queue), in.kept, in.base, host, direct)
    BY <1>2 DEF Follows
  <2>2. \A x \in Keys : in.kept[x] \in Int
    BY <1>1 DEF Intention, Vec
  <2>3. \A x \in DOMAIN c : c[x] = host[x] + kept[x] + in.base[x]
    <3> TAKE x \in DOMAIN c
    <3>1. x \in Keys
      BY <1>5, MapFacts
    <3>2. CASE x = k
      <4>1. c[x] = Value(mem, host, k) + 1
        BY <1>5, <3>2 DEF v
      <4>2. kept[x] = in.kept[k] + 1
        BY <1>1, <1>7, <3>2
      <4> QED
        BY <1>4, <3>2, <4>1, <4>2
    <3>3. CASE x # k
      <4>1. c[x] = host[x] + in.kept[x] + in.base[x]
        BY <1>5, <2>1, <3>3 DEF Cached
      <4>2. kept[x] = in.kept[x]
        BY <1>7, <2>2, <3>1, <3>3
      <4> QED
        BY <4>1, <4>2
    <3> QED
      BY <3>2, <3>3
  <2>4. \A x \in Keys \ {k} : kept[x] = in.kept[x]
    BY <1>7, <2>2
  <2>5. Queued(q) \subseteq DOMAIN c
    BY <1>5, <1>6, <2>1 DEF Cached
  <2>6. \A x \in Keys \ Queued(q) : kept[x] = 0 /\ in.base[x] = 0
    BY <1>6, <2>1, <2>4 DEF Cached
  <2>7. \A x \in Keys \ direct : kept[x] = 0
    BY <2>1, <2>4 DEF Cached
  <2>8. \A x \in direct : in.base[x] = 0
    BY <2>1 DEF Cached
  <2> QED
    BY <2>3, <2>5, <2>6, <2>7, <2>8 DEF Cached
<1>11. Memory(new) /\ Intention(in2)
  BY <1>1, <1>5, <1>6, <1>7, <1>8, <1>9 DEF Memory, Intention
<1>12. Follows(new, in2, host, direct)
  BY <1>2, <1>8, <1>9, <1>10, <1>11 DEF Follows
<1> QED
  BY <1>3, <1>12

LEMMA StackShape ==
  ASSUME NEW mem, Memory(mem), NEW in, Intention(in), NEW s
  PROVE  /\ [mem EXCEPT !.stack = s] = [cache |-> mem.cache, queue |-> mem.queue, stack |-> s]
         /\ [in EXCEPT !.stack = s] = [kept |-> in.kept, base |-> in.base, stack |-> s]
<1>1. mem = [cache |-> mem.cache, queue |-> mem.queue, stack |-> mem.stack]
  BY DEF Memory
<1>2. in = [kept |-> in.kept, base |-> in.base, stack |-> in.stack]
  BY DEF Intention
<1>3. [mem EXCEPT !.stack = s] = [cache |-> mem.cache, queue |-> mem.queue, stack |-> s]
  BY <1>1
<1>4. [in EXCEPT !.stack = s] = [kept |-> in.kept, base |-> in.base, stack |-> s]
  BY <1>2
<1> QED
  BY <1>3, <1>4

(* Only the checkpoints change, and the first keeps its keys. *)
LEMMA StackFollows ==
  ASSUME NEW mem, NEW in, NEW host, NEW direct, Follows(mem, in, host, direct),
         NEW ms, NEW is, \E val : Stacked(ms, is, host, direct, val),
         DOMAIN mem.stack[1] \subseteq DOMAIN ms[1]
  PROVE  Follows([mem EXCEPT !.stack = ms], [in EXCEPT !.stack = is], host, direct)
<1> DEFINE new == [mem EXCEPT !.stack = ms]
           in2 == [in EXCEPT !.stack = is]
<1>1. Memory(mem) /\ Intention(in)
  BY DEF Follows
<1>2. /\ new = [cache |-> mem.cache, queue |-> mem.queue, stack |-> ms]
      /\ in2 = [kept |-> in.kept, base |-> in.base, stack |-> is]
  BY <1>1, StackShape
<1> HIDE DEF new, in2
<1>3. Memory(new) /\ Intention(in2)
  BY <1>1, <1>2 DEF Memory, Intention
<1>4. Follows(new, in2, host, direct)
  BY <1>2, <1>3 DEF Follows
<1> QED
  BY <1>4 DEF new, in2

(* What the atomic pointer reads. *)
LEMMA AtomicValueIs ==
  ASSUME NEW mem, NEW in, NEW host, NEW direct, Follows(mem, in, host, direct),
         NEW k \in Keys \ direct, NEW val, Stacked(mem.stack, in.stack, host, direct, val)
  PROVE  AtomicValue(mem, host, k) = val[Len(in.stack)][k]
<1> DEFINE ms == mem.stack
           is == in.stack
           H == With(ms, k)
           top == val[Len(is)][k]
<1>1. Holding(mem, k) = H
  BY DEF Holding, Depth, With
<1>2. /\ H = {} => top = host[k]
      /\ H # {} => \E x \in H : \A j \in H : j <= x
      /\ \A x \in H : (\A j \in H : j <= x) => ms[x][k] = top
  <2>1. Stacked(ms, is, host, direct, val)
    OBVIOUS
  <2> HIDE DEF ms, is
  <2> QED
    BY <2>1, YoungestHolds
<1> HIDE DEF top
<1>3. CASE H = {}
  <2>1. 1 \in 1 .. Len(ms) /\ k \in Keys
    BY DEF Stacked
  <2>2. k \notin DOMAIN ms[1]
    BY <1>3, <2>1 DEF With
  <2> HIDE DEF ms, is, H
  <2>3. in.kept[k] = 0
    BY DEF Follows, Cached
  <2>4. in.base[k] = 0
    BY <2>1, <2>2 DEF Follows, ms
  <2>5. Value(mem, host, k) = host[k] + in.kept[k] + in.base[k]
    BY <2>1, ValueIs
  <2>6. host[k] \in Int
    BY <2>1 DEF Follows, Vec
  <2>7. Value(mem, host, k) = host[k]
    BY <2>3, <2>4, <2>5, <2>6
  <2>8. AtomicValue(mem, host, k) = Value(mem, host, k)
    BY <1>1, <1>3 DEF AtomicValue
  <2>9. top = host[k]
    BY <1>2, <1>3
  <2> QED
    BY <2>7, <2>8, <2>9 DEF top, is
<1>4. CASE H # {}
  <2> DEFINE i == CHOOSE x \in H : \A j \in H : j <= x
  <2> HIDE DEF H
  <2>1. i \in H /\ \A j \in H : j <= i
    BY <1>2, <1>4
  <2>2. AtomicValue(mem, host, k) = ms[i][k]
    BY <1>1, <1>4 DEF AtomicValue
  <2> HIDE DEF i, ms
  <2> QED
    BY <1>2, <2>1, <2>2 DEF top
<1> QED
  BY <1>3, <1>4

(* An addition through the atomic pointer. *)
LEMMA AtomicFollows ==
  ASSUME NEW mem, NEW in, NEW host, NEW direct, Follows(mem, in, host, direct),
         NEW k \in Keys \ direct, NEW op, op = <<"atomic", k>>
  PROVE  Follows(CallOf(mem, host, op), After(in, op), host, direct)
<1> DEFINE n == Len(in.stack)
           H == Holding(mem, k)
           v == AtomicValue(mem, host, k)
           m1 == IF H = {} THEN Caches(mem, host, k) ELSE mem
           m == Put(mem.stack[n], k, v + 1)
           a == Plus(in.stack[n], One(k))
           ms == [mem.stack EXCEPT ![n] = m]
           is == [in.stack EXCEPT ![n] = a]
<1>1. PICK val : Stacked(mem.stack, in.stack, host, direct, val)
  BY DEF Follows
<1>2. /\ mem.stack \in Seq(Maps) /\ in.stack \in Seq(Vec) /\ n \in Nat /\ n >= 1
      /\ Len(mem.stack) = n /\ val \in [0 .. n -> Vec]
      /\ mem.stack[n] \in Maps /\ in.stack[n] \in Vec
      /\ Layer(mem.stack[n], in.stack[n], val[n - 1], val[n], direct)
  BY <1>1 DEF Stacked
<1>3. n \in 0 .. n /\ n - 1 \in 0 .. n /\ val[n] \in Vec /\ val[n - 1] \in Vec /\ k \in Keys
  <2>1. n \in 0 .. n /\ n - 1 \in 0 .. n
    BY <1>2
  <2> HIDE DEF n
  <2> QED
    BY <1>2, <2>1
<1>4. Follows(m1, in, host, direct) /\ m1.stack = mem.stack
  BY CachesFollows
<1>6. v = val[n][k]
  BY <1>1, AtomicValueIs
<1>7. v \in Int /\ v + 1 \in Int
  BY <1>3, <1>6 DEF Vec
<1> HIDE DEF v, H
<1>8. /\ m \in Maps /\ DOMAIN m = DOMAIN mem.stack[n] \cup {k} /\ m[k] = v + 1
      /\ \A x \in DOMAIN mem.stack[n] : x # k => m[x] = mem.stack[n][x]
  <2> DEFINE f == mem.stack[n]
             u == v + 1
  <2>1. f \in Maps /\ u \in Int /\ k \in Keys
    BY <1>2, <1>3, <1>7
  <2> HIDE DEF f, u
  <2>2. Put(f, k, u) \in Maps
    BY <2>1, PutFacts
  <2>3. /\ DOMAIN Put(f, k, u) = DOMAIN f \cup {k} /\ Put(f, k, u)[k] = u
        /\ \A x \in DOMAIN f : x # k => Put(f, k, u)[x] = f[x]
    BY DEF Put
  <2> QED
    BY <2>2, <2>3 DEF f, u
<1>9. a \in Vec /\ \A x \in Keys : a[x] = in.stack[n][x] + One(k)[x]
  BY <1>2, OneFacts, PlusFacts
<1>10. /\ Plus(val[n], One(k)) \in Vec
       /\ \A x \in Keys : Plus(val[n], One(k))[x] = val[n][x] + One(k)[x]
  BY <1>3, OneFacts, PlusFacts
<1> HIDE DEF m, a
<1> DEFINE w == Plus(val[n], One(k))
<1>11. Layer(m, a, val[n - 1], w, direct)
  <2>1. DOMAIN m \subseteq Keys \ direct
    BY <1>2, <1>8 DEF Layer
  <2>2. ASSUME NEW x \in Keys PROVE w[x] = val[n - 1][x] + a[x]
    <3>1. /\ val[n - 1][x] \in Int /\ in.stack[n][x] \in Int /\ One(k)[x] \in Int
          /\ val[n][x] = val[n - 1][x] + in.stack[n][x]
      BY <1>2, <1>3, OneFacts DEF Layer, Vec
    <3> QED
      BY <1>9, <1>10, <3>1
  <2>3. ASSUME NEW x \in DOMAIN m PROVE m[x] = w[x]
    <3>1. x \in Keys
      BY <2>1
    <3>2. CASE x = k
      <4>1. One(k)[k] = 1
        BY OneFacts
      <4> QED
        BY <1>6, <1>8, <1>10, <3>2, <4>1
    <3>3. CASE x # k
      <4>1. One(k)[x] = 0 /\ val[n][x] \in Int
        BY <1>3, <3>1, <3>3, OneFacts DEF Vec
      <4>2. m[x] = val[n][x]
        BY <1>2, <1>8, <3>3 DEF Layer
      <4> QED
        BY <1>10, <3>1, <4>1, <4>2
    <3> QED
      BY <3>2, <3>3
  <2>4. ASSUME NEW x \in Keys \ DOMAIN m PROVE a[x] = 0
    <3>1. One(k)[x] = 0 /\ in.stack[n][x] = 0
      BY <1>2, <1>8, OneFacts DEF Layer
    <3> QED
      BY <1>9, <3>1
  <2> QED
    BY <2>1, <2>2, <2>3, <2>4 DEF Layer
<1> HIDE DEF w
<1>12. \E u : Stacked(ms, is, host, direct, u)
  BY <1>1, <1>8, <1>9, <1>10, <1>11, ChangeLayer DEF w
<1>13. DOMAIN mem.stack[1] \subseteq DOMAIN ms[1]
  BY <1>2, <1>8
<1>14. Follows([m1 EXCEPT !.stack = ms], [in EXCEPT !.stack = is], host, direct)
  <2>1. DOMAIN m1.stack[1] \subseteq DOMAIN ms[1]
    BY <1>4, <1>13
  <2> HIDE DEF m1, ms, is
  <2> QED
    BY <1>4, <1>12, <2>1, StackFollows
<1>15. CallOf(mem, host, op) = [m1 EXCEPT !.stack = ms]
  <2>1. CallOf(mem, host, op) = AtomicAdd(mem, host, k)
    BY DEF CallOf
  <2>2. AtomicAdd(mem, host, k) = AtomicSet(m1, k, v + 1)
    BY DEF AtomicAdd, H, v
  <2>3. Depth(m1) = n
    BY <1>2, <1>4 DEF Depth
  <2> HIDE DEF m1
  <2>4. AtomicSet(m1, k, v + 1)
          = [m1 EXCEPT !.stack = [m1.stack EXCEPT ![n] = Put(m1.stack[n], k, v + 1)]]
    BY <2>3 DEF AtomicSet
  <2> QED
    BY <1>4, <2>1, <2>2, <2>4 DEF m
<1>16. After(in, op) = [in EXCEPT !.stack = is]
  BY DEF After, a
<1> QED
  BY <1>14, <1>15, <1>16

(* A checkpoint begins. *)
LEMMA CheckpointFollows ==
  ASSUME NEW mem, NEW in, NEW host, NEW direct, Follows(mem, in, host, direct),
         NEW op, op = <<"checkpoint">>
  PROVE  Follows(CallOf(mem, host, op), After(in, op), host, direct)
<1>1. PICK val : Stacked(mem.stack, in.stack, host, direct, val)
  BY DEF Follows
<1> DEFINE ms == Append(mem.stack, Nothing)
           is == Append(in.stack, NoAdds)
<1>2. \E u : Stacked(ms, is, host, direct, u)
  BY <1>1, PushLayer
<1>3. DOMAIN mem.stack[1] \subseteq DOMAIN ms[1]
  <2>1. mem.stack \in Seq(Maps) /\ Len(mem.stack) >= 1
    BY <1>1 DEF Stacked
  <2> QED
    BY <2>1
<1>4. CallOf(mem, host, op) = [mem EXCEPT !.stack = ms]
  BY DEF CallOf, Checkpoint
<1>5. After(in, op) = [in EXCEPT !.stack = is]
  BY DEF After
<1> HIDE DEF ms, is
<1> QED
  BY <1>2, <1>3, <1>4, <1>5, StackFollows

(* A checkpoint is given up. *)
LEMMA RollbackFollows ==
  ASSUME NEW mem, NEW in, NEW host, NEW direct, Follows(mem, in, host, direct),
         NEW op, op = <<"rollback">>, Len(in.stack) > 1
  PROVE  Follows(CallOf(mem, host, op), After(in, op), host, direct)
<1> DEFINE n == Len(in.stack)
           ms == SubSeq(mem.stack, 1, n - 1)
           is == SubSeq(in.stack, 1, n - 1)
<1>1. PICK val : Stacked(mem.stack, in.stack, host, direct, val)
  BY DEF Follows
<1>2. \E u : Stacked(ms, is, host, direct, u)
  BY <1>1, PopLayer
<1>3. n \in Nat /\ Len(mem.stack) = n /\ mem.stack \in Seq(Maps)
  BY <1>1 DEF Stacked
<1>4. DOMAIN mem.stack[1] \subseteq DOMAIN ms[1]
  BY <1>3
<1>5. CallOf(mem, host, op) = [mem EXCEPT !.stack = ms]
  BY <1>3 DEF CallOf, RollbackTop, Pop, Depth
<1>6. After(in, op) = [in EXCEPT !.stack = is]
  BY DEF After
<1> HIDE DEF ms, is, n
<1>7. Follows([mem EXCEPT !.stack = ms], [in EXCEPT !.stack = is], host, direct)
  BY <1>2, <1>4, StackFollows
<1> QED
  BY <1>5, <1>6, <1>7

LEMMA AfterMerge ==
  ASSUME NEW n \in Nat, n > 1, n # 1, NEW in, n = Len(in.stack), NEW op, op = <<"commit">>
  PROVE  After(in, op) = [in EXCEPT !.stack = [SubSeq(in.stack, 1, n - 1) EXCEPT
                            ![n - 1] = Plus(SubSeq(in.stack, 1, n - 1)[n - 1], in.stack[n])]]
<1> DEFINE new == [in EXCEPT !.stack = [SubSeq(in.stack, 1, n - 1) EXCEPT
                     ![n - 1] = Plus(SubSeq(in.stack, 1, n - 1)[n - 1], in.stack[n])]]
<1>1. op[1] = "commit"
  OBVIOUS
<1>2. op[1] # "add" /\ op[1] # "atomic" /\ op[1] # "checkpoint" /\ op[1] # "rollback"
  BY <1>1
<1>3. n # 1
  OBVIOUS
<1>4. After(in, op) = CASE op[1] = "add"        -> [in EXCEPT !.kept = Plus(@, One(op[2]))]
        [] op[1] = "atomic"     -> [in EXCEPT !.stack[n] = Plus(@, One(op[2]))]
        [] op[1] = "checkpoint" -> [in EXCEPT !.stack = Append(@, NoAdds)]
        [] op[1] = "rollback"   -> [in EXCEPT !.stack = SubSeq(@, 1, n - 1)]
        [] op[1] = "commit" /\ n > 1 -> new
        [] op[1] = "commit" /\ n = 1 -> [in EXCEPT !.base = in.stack[1]]
        [] OTHER -> in
  BY DEF After
<1> HIDE DEF new
<1>5. After(in, op) = new
  BY <1>1, <1>2, <1>3, <1>4
<1> QED
  BY <1>5 DEF new

(* A checkpoint is committed into the one below it. *)
LEMMA MergeFollows ==
  ASSUME NEW mem, NEW in, NEW host, NEW direct, Follows(mem, in, host, direct),
         NEW op, op = <<"commit">>, Len(in.stack) > 1
  PROVE  Follows(CallOf(mem, host, op), After(in, op), host, direct)
<1> DEFINE n == Len(in.stack)
           ms1 == SubSeq(mem.stack, 1, n - 1)
           is1 == SubSeq(in.stack, 1, n - 1)
           m == PipeTo(mem.stack[n], mem.stack[n - 1])
           a == Plus(in.stack[n - 1], in.stack[n])
           ms == [ms1 EXCEPT ![n - 1] = m]
           is == [is1 EXCEPT ![n - 1] = a]
<1>1. PICK val : Stacked(mem.stack, in.stack, host, direct, val)
  BY DEF Follows
<1>2. PICK low : /\ Stacked(ms1, is1, host, direct, low)
                 /\ \A i \in 0 .. n - 1 : low[i] = val[i]
  BY <1>1, PopLayer
<1>3. /\ mem.stack \in Seq(Maps) /\ in.stack \in Seq(Vec) /\ n \in Nat /\ n > 1
      /\ Len(mem.stack) = n /\ val \in [0 .. n -> Vec]
      /\ \A i \in 1 .. n : Layer(mem.stack[i], in.stack[i], val[i - 1], val[i], direct)
  <2>1. /\ mem.stack \in Seq(Maps) /\ in.stack \in Seq(Vec)
        /\ Len(mem.stack) = Len(in.stack) /\ val \in [0 .. Len(in.stack) -> Vec]
    BY <1>1 DEF Stacked
  <2>2. \A i \in 1 .. n : Layer(mem.stack[i], in.stack[i], val[i - 1], val[i], direct)
    BY <1>1 DEF Stacked
  <2>3. n \in Nat /\ n > 1
    BY <2>1
  <2> QED
    BY <2>1, <2>2, <2>3
<1>4. /\ n - 1 \in 1 .. n /\ n \in 1 .. n /\ n - 2 \in 0 .. n - 1 /\ n - 1 - 1 = n - 2
      /\ \A i \in 1 .. n : i \in 0 .. n /\ i - 1 \in 0 .. n
  BY <1>3
<1>5. /\ Len(is1) = n - 1 /\ Len(ms1) = n - 1 /\ ms1 \in Seq(Maps)
      /\ \A i \in 1 .. n - 1 : ms1[i] = mem.stack[i] /\ is1[i] = in.stack[i]
  BY <1>3
<1>6. /\ mem.stack[n] \in Maps /\ mem.stack[n - 1] \in Maps
      /\ in.stack[n] \in Vec /\ in.stack[n - 1] \in Vec
      /\ val[n] \in Vec /\ val[n - 1] \in Vec /\ val[n - 2] \in Vec
      /\ Layer(mem.stack[n], in.stack[n], val[n - 1], val[n], direct)
      /\ Layer(mem.stack[n - 1], in.stack[n - 1], val[n - 2], val[n - 1], direct)
  <2> HIDE DEF n
  <2>1. /\ mem.stack[n] \in Maps /\ mem.stack[n - 1] \in Maps
        /\ in.stack[n] \in Vec /\ in.stack[n - 1] \in Vec
    <3>1. n = Len(in.stack)
      BY DEF n
    <3> QED
      BY <1>3, <1>4, <3>1
  <2>2. n - 2 \in 0 .. n
    BY <1>3
  <2>3. val[n] \in Vec /\ val[n - 1] \in Vec /\ val[n - 2] \in Vec
    BY <1>3, <1>4, <2>2
  <2>4. /\ Layer(mem.stack[n], in.stack[n], val[n - 1], val[n], direct)
        /\ Layer(mem.stack[n - 1], in.stack[n - 1], val[n - 1 - 1], val[n - 1], direct)
    BY <1>3, <1>4
  <2> QED
    BY <1>4, <2>1, <2>3, <2>4
<1>7. /\ m \in Maps /\ DOMAIN m = DOMAIN mem.stack[n] \cup DOMAIN mem.stack[n - 1]
      /\ \A x \in DOMAIN mem.stack[n] : m[x] = mem.stack[n][x]
      /\ \A x \in DOMAIN mem.stack[n - 1] \ DOMAIN mem.stack[n] : m[x] = mem.stack[n - 1][x]
  BY <1>6, PipeFacts
<1>8. a \in Vec /\ \A x \in Keys : a[x] = in.stack[n - 1][x] + in.stack[n][x]
  BY <1>6, PlusFacts
<1> HIDE DEF m, a
<1>9. Layer(m, a, low[n - 2], val[n], direct)
  <2>1. low[n - 2] = val[n - 2]
    BY <1>2, <1>4
  <2>2. DOMAIN m \subseteq Keys \ direct
    BY <1>6, <1>7 DEF Layer
  <2>3. ASSUME NEW x \in Keys
        PROVE  /\ val[n - 2][x] \in Int /\ in.stack[n - 1][x] \in Int /\ in.stack[n][x] \in Int
               /\ val[n - 1][x] = val[n - 2][x] + in.stack[n - 1][x]
               /\ val[n][x] = val[n - 1][x] + in.stack[n][x]
    BY <1>6 DEF Layer, Vec
  <2> HIDE DEF n
  <2>4. ASSUME NEW x \in Keys PROVE val[n][x] = val[n - 2][x] + a[x]
    BY <1>8, <2>3
  <2>5. ASSUME NEW x \in DOMAIN m PROVE m[x] = val[n][x]
    <3>1. CASE x \in DOMAIN mem.stack[n]
      BY <1>6, <1>7, <3>1 DEF Layer
    <3>2. CASE x \notin DOMAIN mem.stack[n]
      <4>1. x \in Keys /\ x \in DOMAIN mem.stack[n - 1] \ DOMAIN mem.stack[n]
        BY <1>7, <2>2, <3>2
      <4>2. m[x] = val[n - 1][x] /\ in.stack[n][x] = 0
        BY <1>6, <1>7, <4>1 DEF Layer
      <4>3. val[n][x] = val[n - 1][x]
        BY <2>3, <4>1, <4>2
      <4> QED
        BY <4>2, <4>3
    <3> QED
      BY <3>1, <3>2
  <2>6. ASSUME NEW x \in Keys \ DOMAIN m PROVE a[x] = 0
    <3>1. in.stack[n][x] = 0 /\ in.stack[n - 1][x] = 0
      BY <1>6, <1>7 DEF Layer
    <3> QED
      BY <1>8, <3>1
  <2> QED
    BY <2>1, <2>2, <2>4, <2>5, <2>6 DEF Layer
<1>10. \E u : Stacked(ms, is, host, direct, u)
  <2> HIDE DEF ms1, is1, n
  <2> DEFINE p == n - 1
  <2>1. Len(is1) = p /\ Layer(m, a, low[p - 1], val[n], direct)
    BY <1>4, <1>5, <1>9
  <2> HIDE DEF p
  <2>2. \E u : Stacked([ms1 EXCEPT ![p] = m], [is1 EXCEPT ![p] = a], host, direct, u)
    BY <1>2, <1>6, <1>7, <1>8, <2>1, ChangeLayer
  <2> QED
    BY <2>2 DEF p
<1>11. DOMAIN mem.stack[1] \subseteq DOMAIN ms[1]
  <2>1. CASE n - 1 = 1
    <3>1. ms[1] = m
      BY <1>5, <2>1
    <3> QED
      BY <1>7, <2>1, <3>1
  <2>2. CASE n - 1 # 1
    <3>1. 1 \in 1 .. n - 1 /\ ms1[1] = mem.stack[1]
      BY <1>3, <1>5, <2>2
    <3> HIDE DEF ms1, n
    <3>2. ms[1] = ms1[1]
      BY <1>5, <2>2, <3>1
    <3> QED
      BY <3>1, <3>2
  <2> QED
    BY <2>1, <2>2
<1>12. CallOf(mem, host, op) = [mem EXCEPT !.stack = ms]
  <2>1. CallOf(mem, host, op) = CommitTop(mem)
    BY DEF CallOf
  <2>2. Depth(mem) = n /\ Top(mem) = mem.stack[n] /\ Pop(mem) = ms1
    BY <1>3 DEF Depth, Top, Pop
  <2>3. ms1[n - 1] = mem.stack[n - 1]
    BY <1>3, <1>5
  <2> HIDE DEF ms1, n
  <2>4. CommitTop(mem) = [mem EXCEPT !.stack = [ms1 EXCEPT ![n - 1] = PipeTo(mem.stack[n], ms1[n - 1])]]
    BY <1>3, <2>2 DEF CommitTop
  <2> QED
    BY <2>1, <2>3, <2>4 DEF m
<1>13. After(in, op) = [in EXCEPT !.stack = is]
  <2>1. is1[n - 1] = in.stack[n - 1]
    BY <1>3, <1>5
  <2>2. After(in, op) = [in EXCEPT !.stack = [is1 EXCEPT ![n - 1] = Plus(is1[n - 1], in.stack[n])]]
    <3>1. n # 1
      BY <1>3
    <3> QED
      BY <1>3, <3>1, AfterMerge
  <2> QED
    BY <2>1, <2>2 DEF a
<1> HIDE DEF ms, is
<1>14. Follows([mem EXCEPT !.stack = ms], [in EXCEPT !.stack = is], host, direct)
  BY <1>10, <1>11, StackFollows
<1> QED
  BY <1>12, <1>13, <1>14

(* A finite set can be put in a sequence. *)
LEMMA Listed ==
  ASSUME NEW D, D \subseteq Keys
  PROVE  LET s == CHOOSE s \in [1 .. Cardinality(D) -> D] : {s[i] : i \in DOMAIN s} = D
         IN  s \in Seq(Keys) /\ Queued(s) = D
<1> DEFINE s == CHOOSE s \in [1 .. Cardinality(D) -> D] : {s[i] : i \in DOMAIN s} = D
           N == Cardinality(D)
<1>1. IsFiniteSet(D)
  BY FS_Subset, RunnerAssumption
<1>2. N \in Nat /\ ExistsBijection(1 .. N, D)
  BY <1>1, FS_CardinalityType
<1>3. \E f \in [1 .. N -> D] : \A t \in D : \E i \in 1 .. N : f[i] = t
  <2> HIDE DEF N
  <2> QED
    BY <1>2 DEF ExistsBijection, Bijection, Surjection
<1>4. \E f \in [1 .. N -> D] : {f[i] : i \in DOMAIN f} = D
  <2> HIDE DEF N
  <2>1. PICK f \in [1 .. N -> D] : \A t \in D : \E i \in 1 .. N : f[i] = t
    BY <1>3
  <2>2. {f[i] : i \in DOMAIN f} = D
    BY <2>1
  <2> QED
    BY <2>2
<1>5. s \in [1 .. N -> D] /\ {s[i] : i \in DOMAIN s} = D
  BY <1>4
<1> HIDE DEF s, N
<1>6. s \in Seq(Keys) /\ Len(s) = N /\ DOMAIN s = 1 .. N
  BY <1>2, <1>5
<1>7. Queued(s) = D
  BY <1>5, <1>6 DEF Queued
<1> QED
  BY <1>6, <1>7 DEF s, N

(* The base is committed into the cache and the queue, and keeps its keys. *)
LEMMA BaseFollows ==
  ASSUME NEW mem, NEW in, NEW host, NEW direct, Follows(mem, in, host, direct),
         NEW op, op = <<"commit">>, Len(in.stack) = 1
  PROVE  Follows(CallOf(mem, host, op), After(in, op), host, direct)
<1> DEFINE map == mem.stack[1]
           D == DOMAIN map
           s == CHOOSE s \in [1 .. Cardinality(D) -> D] : {s[i] : i \in DOMAIN s} = D
           c == PipeTo(map, mem.cache)
           q == mem.queue \o s
           base == in.stack[1]
           new == [mem EXCEPT !.cache = c, !.queue = q]
           in2 == [in EXCEPT !.base = base]
<1>1. PICK val : Stacked(mem.stack, in.stack, host, direct, val)
  BY DEF Follows
<1>2. /\ Len(mem.stack) = 1 /\ map \in Maps /\ base \in Vec
      /\ val[0] = host /\ val[1 - 1] = val[0]
      /\ Layer(map, base, val[0], val[1], direct)
  BY <1>1 DEF Stacked
<1>3. /\ Memory(mem) /\ Intention(in) /\ mem.cache \in Maps /\ mem.queue \in Seq(Keys)
      /\ host \in Vec /\ direct \subseteq Keys
      /\ Cached(mem.cache, Queued(mem.queue), in.kept, in.base, host, direct)
      /\ \A k \in Keys : in.base[k] # 0 => k \in D
  BY DEF Follows, Memory
<1>4. s \in Seq(Keys) /\ Queued(s) = D /\ D \subseteq Keys
  <2>1. D \subseteq Keys
    BY <1>2, MapFacts
  <2> HIDE DEF D
  <2> QED
    BY <2>1, Listed
<1>5. q \in Seq(Keys) /\ Queued(q) = Queued(mem.queue) \cup D
  <2> HIDE DEF s, D
  <2> QED
    BY <1>3, <1>4, QueuedConcat
<1>6. /\ c \in Maps /\ DOMAIN c = D \cup DOMAIN mem.cache
      /\ \A x \in D : c[x] = map[x]
      /\ \A x \in DOMAIN mem.cache \ D : c[x] = mem.cache[x]
  BY <1>2, <1>3, PipeFacts
<1>7. CallOf(mem, host, op) = new
  <2>1. CallOf(mem, host, op) = CommitTop(mem)
    BY DEF CallOf
  <2>2. Depth(mem) = 1 /\ Top(mem) = map
    BY <1>2 DEF Depth, Top
  <2>3. CommitTop(mem) = SetAll(mem, map)
    BY <2>2 DEF CommitTop
  <2> QED
    BY <2>1, <2>3 DEF SetAll
<1>8. After(in, op) = in2
  BY DEF After
<1> HIDE DEF c, q, s
<1>9. new = [cache |-> c, queue |-> q, stack |-> mem.stack]
  BY <1>3, CacheShape
<1>10. in2 = [kept |-> in.kept, base |-> base, stack |-> in.stack]
  BY <1>3 DEF Intention
<1>11. Cached(c, Queued(q), in.kept, base, host, direct)
  <2>1. ASSUME NEW x \in Keys
        PROVE  host[x] \in Int /\ in.kept[x] \in Int /\ in.base[x] \in Int /\ base[x] \in Int
    BY <1>2, <1>3 DEF Intention, Vec
  <2>2. ASSUME NEW x \in Keys \ D PROVE base[x] = 0 /\ in.base[x] = 0
    BY <1>2, <1>3 DEF Layer
  <2>3. ASSUME NEW x \in D PROVE x \notin direct /\ in.kept[x] = 0 /\ map[x] = host[x] + base[x]
    BY <1>2, <1>3, <1>4 DEF Layer, Cached
  <2> HIDE DEF D, map, base
  <2>4. \A x \in DOMAIN c : c[x] = host[x] + in.kept[x] + base[x]
    <3> TAKE x \in DOMAIN c
    <3>1. x \in Keys
      BY <1>6, MapFacts
    <3>2. CASE x \in D
      BY <1>6, <2>1, <2>3, <3>1, <3>2
    <3>3. CASE x \notin D
      <4>1. c[x] = host[x] + in.kept[x] + in.base[x]
        BY <1>3, <1>6, <3>3 DEF Cached
      <4> QED
        BY <2>2, <3>1, <3>3, <4>1
    <3> QED
      BY <3>2, <3>3
  <2>5. Queued(q) \subseteq DOMAIN c
    BY <1>3, <1>5, <1>6 DEF Cached
  <2>6. \A x \in Keys \ Queued(q) : in.kept[x] = 0 /\ base[x] = 0
    BY <1>3, <1>5, <2>2 DEF Cached
  <2>7. \A x \in direct : base[x] = 0
    BY <1>3, <2>2, <2>3
  <2>8. \A x \in Keys \ direct : in.kept[x] = 0
    BY <1>3 DEF Cached
  <2> QED
    BY <2>4, <2>5, <2>6, <2>7, <2>8 DEF Cached
<1>12. \A k \in Keys : base[k] # 0 => k \in D
  BY <1>2 DEF Layer
<1> HIDE DEF new, in2
<1>13. Memory(new) /\ Intention(in2)
  BY <1>2, <1>3, <1>5, <1>6, <1>9, <1>10 DEF Memory, Intention
<1>14. Follows(new, in2, host, direct)
  BY <1>1, <1>3, <1>9, <1>10, <1>11, <1>12, <1>13 DEF Follows
<1> QED
  BY <1>7, <1>8, <1>14

-----------------------------------------------------------------------------
(***************************************************************************)
(* A whole block.                                                          *)
(***************************************************************************)

(* The intentions after each call are defined by recursion; that there is  *)
(* such a function is shown for ever longer beginnings of the block. *)
LEMMA IntentsExist ==
  ASSUME NEW block, Len(block) \in Nat
  PROVE  \E f : f = [i \in 0 .. Len(block) |-> IF i = 0 THEN Intent
                                               ELSE After(f[i - 1], block[i])]
<1> DEFINE n == Len(block)
           Step(m, f) == [i \in 0 .. m |-> IF i = 0 THEN Intent ELSE After(f[i - 1], block[i])]
           Bad == {m \in 0 .. n : ~ \E f : f = Step(m, f)}
<1>1. SUFFICES Bad = {}
  <2>1. n \in 0 .. n
    OBVIOUS
  <2>2. n \notin Bad => \E f : f = Step(n, f)
    BY <2>1
  <2> QED
    BY <2>2
<1>2. SUFFICES ASSUME Bad # {} PROVE FALSE
  OBVIOUS
<1>3. PICK m \in Bad : \A y \in Bad : m <= y
  <2>1. Bad \subseteq Nat
    OBVIOUS
  <2> QED
    BY <1>2, <2>1, LeastExists
<1>4. m \in 0 .. n /\ ~ \E f : f = Step(m, f)
  OBVIOUS
<1>5. CASE m = 0
  <2> DEFINE g == [i \in 0 .. 0 |-> Intent]
  <2>1. Step(0, g) = [i \in 0 .. 0 |-> Intent]
    OBVIOUS
  <2>2. g = Step(0, g)
    BY <2>1
  <2> QED
    BY <1>4, <1>5, <2>2
<1>6. CASE m # 0
  <2>1. m - 1 \in 0 .. n /\ m \in Nat /\ m >= 1 /\ ~ (m <= m - 1)
    BY <1>4, <1>6
  <2>2. m - 1 \notin Bad
    BY <1>3, <2>1
  <2>3. PICK f : f = Step(m - 1, f)
    BY <2>1, <2>2
  <2> DEFINE g == [i \in 0 .. m |-> IF i = m THEN After(f[m - 1], block[m]) ELSE f[i]]
  <2>4. \A i \in 0 .. m - 1 : f[i] = IF i = 0 THEN Intent ELSE After(f[i - 1], block[i])
    BY <2>3
  <2>5. /\ g[m] = After(f[m - 1], block[m])
        /\ \A i \in 0 .. m : i # m => g[i] = f[i]
        /\ g = [i \in 0 .. m |-> g[i]]
    BY <2>1
  <2> HIDE DEF g
  <2>6. ASSUME NEW i \in 0 .. m
        PROVE  g[i] = IF i = 0 THEN Intent ELSE After(g[i - 1], block[i])
    <3>1. CASE i = m
      <4>1. i # 0 /\ i - 1 \in 0 .. m /\ i - 1 # m
        BY <2>1, <3>1
      <4>2. g[i - 1] = f[m - 1]
        BY <2>5, <3>1, <4>1
      <4> QED
        BY <2>5, <3>1, <4>1, <4>2
    <3>2. CASE i # m /\ i # 0
      <4>1. i \in 0 .. m - 1 /\ i - 1 \in 0 .. m /\ i - 1 # m
        BY <2>1, <3>2
      <4>2. g[i] = f[i] /\ g[i - 1] = f[i - 1]
        BY <2>5, <3>2, <4>1
      <4> QED
        BY <2>4, <3>2, <4>1, <4>2
    <3>3. CASE i = 0 /\ i # m
      <4>1. 0 \in 0 .. m - 1
        BY <2>1
      <4> QED
        BY <2>4, <2>5, <3>3, <4>1
    <3> QED
      BY <3>1, <3>2, <3>3
  <2>7. g = Step(m, g)
    <3>1. Step(m, g) = [i \in 0 .. m |-> g[i]]
      BY <2>6
    <3> QED
      BY <2>5, <3>1
  <2> HIDE DEF Step
  <2> QED
    BY <1>4, <2>7
<1> QED
  BY <1>5, <1>6

LEMMA IntentsFacts ==
  ASSUME NEW block, Len(block) \in Nat
  PROVE  /\ Intents(block)[0] = Intent
         /\ \A i \in 1 .. Len(block) :
              Intents(block)[i] = After(Intents(block)[i - 1], block[i])
<1> DEFINE n == Len(block)
           Step(f) == [i \in 0 .. Len(block) |-> IF i = 0 THEN Intent
                                                 ELSE After(f[i - 1], block[i])]
           state == CHOOSE f : f = Step(f)
<1>1. Intents(block) = state
  BY DEF Intents
<1>2. state = Step(state)
  <2>1. \E f : f = Step(f)
    BY IntentsExist
  <2> QED
    BY <2>1
<1> HIDE DEF state
<1>3. \A i \in 0 .. n : state[i] = IF i = 0 THEN Intent ELSE After(state[i - 1], block[i])
  BY <1>2
<1>4. 0 \in 0 .. n /\ \A i \in 1 .. n : i \in 0 .. n /\ i # 0
  OBVIOUS
<1> QED
  BY <1>1, <1>3, <1>4

(* One call as an indexer may make it, when it adds to the keys of direct  *)
(* directly. *)
Proper(block, direct, i) ==
  \/ \E k \in direct : block[i] = <<"add", k>>
  \/ \E k \in Keys \ direct : block[i] = <<"atomic", k>>
  \/ block[i] \in {<<"checkpoint">>, <<"commit">>}
  \/ block[i] = <<"rollback">> /\ Len(Intents(block)[i - 1].stack) > 1

DirectKeys(block) ==
  CHOOSE direct \in SUBSET Keys : \A i \in 1 .. Len(block) - 1 : Proper(block, direct, i)

LEMMA DisciplineFacts ==
  ASSUME NEW block \in Programs
  PROVE  /\ Len(block) \in Nat /\ Len(block) # 0 /\ block[Len(block)] = <<"flush">>
         /\ DirectKeys(block) \subseteq Keys
         /\ \A i \in 1 .. Len(block) - 1 : Proper(block, DirectKeys(block), i)
<1>1. Disciplined(block)
  BY RunnerAssumption
<1>2. Len(block) \in Nat \ {0} /\ block[Len(block)] = <<"flush">>
  BY <1>1 DEF Disciplined
<1>3. \E direct \in SUBSET Keys : \A i \in 1 .. Len(block) - 1 : Proper(block, direct, i)
  BY <1>1 DEF Disciplined, Proper
<1>4. /\ DirectKeys(block) \in SUBSET Keys
      /\ \A i \in 1 .. Len(block) - 1 : Proper(block, DirectKeys(block), i)
  BY <1>3 DEF DirectKeys
<1> QED
  BY <1>2, <1>4

(* Which of a block's calls flush: the last one. *)
LEMMA FlushIsLast ==
  ASSUME NEW block \in Programs, NEW i \in 1 .. Len(block)
  PROVE  block[i][1] = "flush" <=> i = Len(block)
<1>1. CASE i = Len(block)
  <2>1. block[i] = <<"flush">>
    BY <1>1, DisciplineFacts
  <2> QED
    BY <1>1, <2>1
<1>2. CASE i # Len(block)
  <2>1. i \in 1 .. Len(block) - 1
    BY <1>2, DisciplineFacts
  <2>2. Proper(block, DirectKeys(block), i)
    BY <2>1, DisciplineFacts
  <2>3. block[i][1] \in {"add", "atomic", "checkpoint", "commit", "rollback"}
    BY <2>2 DEF Proper
  <2> QED
    BY <1>2, <2>3
<1> QED
  BY <1>1, <1>2

(* Any call but the flush. *)
LEMMA CallFollows ==
  ASSUME NEW block \in Programs, NEW i \in 1 .. Len(block) - 1, NEW mem, NEW host,
         Follows(mem, Intents(block)[i - 1], host, DirectKeys(block))
  PROVE  Follows(CallOf(mem, host, block[i]), Intents(block)[i], host, DirectKeys(block))
<1> DEFINE direct == DirectKeys(block)
           in == Intents(block)[i - 1]
<1>1. Intents(block)[i] = After(in, block[i])
  <2>1. Len(block) \in Nat /\ i \in 1 .. Len(block)
    BY DisciplineFacts
  <2> QED
    BY <2>1, IntentsFacts
<1>2. Proper(block, direct, i) /\ direct \subseteq Keys
  BY DisciplineFacts
<1> HIDE DEF direct, in
<1>3. Follows(mem, in, host, direct)
  BY DEF direct, in
<1>4. Follows(CallOf(mem, host, block[i]), After(in, block[i]), host, direct)
  <2>1. ASSUME NEW k \in direct, block[i] = <<"add", k>>
        PROVE  Follows(CallOf(mem, host, block[i]), After(in, block[i]), host, direct)
    BY <1>3, <2>1, AddFollows
  <2>2. ASSUME NEW k \in Keys \ direct, block[i] = <<"atomic", k>>
        PROVE  Follows(CallOf(mem, host, block[i]), After(in, block[i]), host, direct)
    BY <1>3, <2>2, AtomicFollows
  <2>3. CASE block[i] = <<"checkpoint">>
    BY <1>3, <2>3, CheckpointFollows
  <2>4. CASE block[i] = <<"commit">>
    <3>1. Len(in.stack) = 1 \/ Len(in.stack) > 1
      <4>1. PICK val : Stacked(mem.stack, in.stack, host, direct, val)
        BY <1>3 DEF Follows
      <4> DEFINE levels == Len(in.stack)
      <4>2. levels \in Nat /\ levels >= 1
        BY <4>1 DEF Stacked
      <4> HIDE DEF levels
      <4>3. levels = 1 \/ levels > 1
        BY <4>2
      <4> QED
        BY <4>3 DEF levels
    <3> QED
      BY <1>3, <2>4, <3>1, BaseFollows, MergeFollows
  <2>5. CASE block[i] = <<"rollback">> /\ Len(in.stack) > 1
    BY <1>3, <2>5, RollbackFollows
  <2> QED
    BY <1>2, <2>1, <2>2, <2>3, <2>4, <2>5 DEF Proper, in
<1> QED
  BY <1>1, <1>4 DEF direct

(* A memory as initialize makes it. *)
LEMMA FreshFollows ==
  ASSUME NEW host \in Vec, NEW direct \in SUBSET Keys
  PROVE  Follows(NewMemory, Intent, host, direct)
<1> DEFINE val == [i \in 0 .. 1 |-> host]
<1>1. /\ NewMemory = [cache |-> Nothing, queue |-> <<>>, stack |-> <<Nothing>>]
      /\ NewMemory.cache = Nothing /\ NewMemory.queue = <<>> /\ NewMemory.stack = <<Nothing>>
      /\ Intent = [kept |-> NoAdds, base |-> NoAdds, stack |-> <<NoAdds>>]
      /\ Intent.kept = NoAdds /\ Intent.base = NoAdds /\ Intent.stack = <<NoAdds>>
  BY DEF NewMemory, Intent
<1>2. Memory(NewMemory) /\ Intention(Intent)
  BY <1>1, NothingFacts, NoAddsFacts DEF Memory, Intention
<1>3. Queued(<<>>) = {}
  BY DEF Queued
<1>4. Cached(Nothing, {}, NoAdds, NoAdds, host, direct)
  BY NothingFacts, NoAddsFacts DEF Cached
<1>5. Layer(Nothing, NoAdds, host, host, direct)
  <2>1. \A k \in Keys : host[k] \in Int
    BY DEF Vec
  <2>2. \A k \in Keys : host[k] = host[k] + NoAdds[k]
    BY <2>1, NoAddsFacts
  <2> QED
    BY <2>2, NothingFacts, NoAddsFacts DEF Layer
<1>6. Stacked(<<Nothing>>, <<NoAdds>>, host, direct, val)
  <2>1. /\ <<Nothing>> \in Seq(Maps) /\ <<NoAdds>> \in Seq(Vec)
        /\ Len(<<Nothing>>) = 1 /\ Len(<<NoAdds>>) = 1
        /\ <<Nothing>>[1] = Nothing /\ <<NoAdds>>[1] = NoAdds
    BY NothingFacts, NoAddsFacts
  <2>2. val \in [0 .. 1 -> Vec] /\ val[0] = host /\ val[1] = host
    OBVIOUS
  <2> HIDE DEF val
  <2> QED
    BY <1>5, <2>1, <2>2 DEF Stacked
<1> HIDE DEF val
<1> QED
  BY <1>1, <1>2, <1>3, <1>4, <1>6, NoAddsFacts DEF Follows

(* The batch of the flush is what the whole block adds. *)
Exact(batch, block, host) ==
  batch \in Maps /\ PipeTo(batch, host) = Plus(host, AddsOf(block))

LEMMA FlushExact ==
  ASSUME NEW block \in Programs, NEW mem, NEW host,
         Follows(mem, Intents(block)[Len(block) - 1], host, DirectKeys(block))
  PROVE  Exact(Batch(mem), block, host)
<1> DEFINE n == Len(block)
           in == Intents(block)[n - 1]
           Q == Queued(mem.queue)
           b == [k \in Q |-> mem.cache[k]]
<1>1. n \in Nat /\ n # 0 /\ block[n] = <<"flush">> /\ n \in 1 .. n
  BY DisciplineFacts
<1>2. Intents(block)[n] = in
  <2>1. Intents(block)[n] = After(in, block[n])
    BY <1>1, IntentsFacts
  <2> HIDE DEF in
  <2>2. After(in, <<"flush">>) = in
    BY DEF After
  <2> QED
    BY <1>1, <2>1, <2>2
<1>3. AddsOf(block) = Plus(in.kept, in.base)
  BY <1>2 DEF AddsOf
<1> HIDE DEF in
<1>4. /\ Intention(in) /\ mem.cache \in Maps /\ host \in Vec
      /\ Cached(mem.cache, Q, in.kept, in.base, host, DirectKeys(block))
  BY DEF Follows, Memory, in
<1>5. Batch(mem) = b
  BY DEF Batch, Queued
<1>6. Q \subseteq Keys /\ Q \subseteq DOMAIN mem.cache /\ \A k \in Q : mem.cache[k] \in Int
  BY <1>4, MapFacts DEF Cached
<1>7. b \in Maps /\ DOMAIN b = Q /\ \A k \in Q : b[k] = mem.cache[k]
  <2> HIDE DEF Q
  <2>1. b \in [Q -> Int]
    BY <1>6
  <2> HIDE DEF b
  <2>2. b \in Maps
    BY <1>6, <2>1, MapFrom
  <2> QED
    BY <2>2 DEF b
<1> HIDE DEF b
<1>8. DOMAIN host = Keys
  BY <1>4 DEF Vec
<1>9. PipeTo(b, host) = [k \in Keys |-> IF k \in Q THEN mem.cache[k] ELSE host[k]]
  BY <1>6, <1>7, <1>8 DEF PipeTo
<1>10. Plus(host, AddsOf(block)) = [k \in Keys |-> host[k] + (in.kept[k] + in.base[k])]
  BY <1>3 DEF Plus
<1>11. ASSUME NEW k \in Keys
       PROVE  (IF k \in Q THEN mem.cache[k] ELSE host[k])
                = host[k] + (in.kept[k] + in.base[k])
  <2>1. host[k] \in Int /\ in.kept[k] \in Int /\ in.base[k] \in Int
    BY <1>4 DEF Intention, Vec
  <2>2. CASE k \in Q
    <3>1. mem.cache[k] = host[k] + in.kept[k] + in.base[k]
      BY <1>4, <1>6, <2>2 DEF Cached
    <3> QED
      BY <2>1, <2>2, <3>1
  <2>3. CASE k \notin Q
    <3>1. in.kept[k] = 0 /\ in.base[k] = 0
      BY <1>4, <2>3 DEF Cached
    <3> QED
      BY <2>1, <2>3, <3>1
  <2> QED
    BY <2>2, <2>3
<1> HIDE DEF Q
<1>12. PipeTo(b, host) = Plus(host, AddsOf(block))
  BY <1>9, <1>10, <1>11
<1> QED
  BY <1>5, <1>7, <1>12 DEF Exact

-----------------------------------------------------------------------------
(***************************************************************************)
(* The disk: what a height finds, and what appends and cuts do to it.      *)
(***************************************************************************)
At(d, h) ==
  LET top == IF h < Len(d) THEN h ELSE Len(d)
  IN  IF top = 0 THEN NoAdds ELSE d[top]

Tip(d) == At(d, Len(d))

Recorded(d, c) ==
  /\ d \in Seq(Vec) /\ c \in Seq(Programs) /\ Len(c) = Len(d)
  /\ \A h \in 1 .. Len(d) : d[h] = Plus(At(d, h - 1), AddsOf(c[h]))

LEMMA AtVec ==
  ASSUME NEW d \in Seq(Vec), NEW h \in Nat
  PROVE  At(d, h) \in Vec
<1> DEFINE top == IF h < Len(d) THEN h ELSE Len(d)
<1>1. top = 0 \/ top \in 1 .. Len(d)
  OBVIOUS
<1>2. top \in 1 .. Len(d) => d[top] \in Vec /\ top # 0
  OBVIOUS
<1>3. At(d, h) = IF top = 0 THEN NoAdds ELSE d[top]
  BY DEF At
<1> HIDE DEF top
<1> QED
  BY <1>1, <1>2, <1>3, NoAddsFacts

(* Two disks that agree up to a height find the same there. *)
LEMMA AtAgrees ==
  ASSUME NEW d \in Seq(Vec), NEW e \in Seq(Vec), NEW h \in Nat,
         h <= Len(d), h <= Len(e), \A i \in 1 .. h : d[i] = e[i]
  PROVE  At(d, h) = At(e, h)
<1>1. At(d, h) = IF h = 0 THEN NoAdds ELSE d[h]
  <2>1. (IF h < Len(d) THEN h ELSE Len(d)) = h
    OBVIOUS
  <2> QED
    BY <2>1 DEF At
<1>2. At(e, h) = IF h = 0 THEN NoAdds ELSE e[h]
  <2>1. (IF h < Len(e) THEN h ELSE Len(e)) = h
    OBVIOUS
  <2> QED
    BY <2>1 DEF At
<1>3. h = 0 \/ h \in 1 .. h
  OBVIOUS
<1> QED
  BY <1>1, <1>2, <1>3

LEMMA RecordedAppend ==
  ASSUME NEW d, NEW c, Recorded(d, c), NEW block \in Programs, NEW batch,
         Exact(batch, block, Tip(d))
  PROVE  Recorded(Append(d, PipeTo(batch, Tip(d))), Append(c, block))
<1> DEFINE n == Len(d)
           v == PipeTo(batch, Tip(d))
           d2 == Append(d, v)
           c2 == Append(c, block)
<1>1. d \in Seq(Vec) /\ c \in Seq(Programs) /\ Len(c) = n /\ n \in Nat
  BY DEF Recorded
<1>2. Tip(d) \in Vec
  BY <1>1, AtVec DEF Tip
<1>3. v \in Vec
  <2>1. Tip(d) \in Maps /\ DOMAIN Tip(d) = Keys
    BY <1>2, MapFrom DEF Vec
  <2>2. batch \in Maps
    BY DEF Exact
  <2>3. v \in Maps /\ DOMAIN v = DOMAIN batch \cup Keys
    BY <2>1, <2>2, PipeFacts
  <2>4. DOMAIN batch \subseteq Keys
    BY <2>2, MapFacts
  <2> HIDE DEF v
  <2>5. DOMAIN v = Keys /\ v = [k \in DOMAIN v |-> v[k]] /\ \A k \in DOMAIN v : v[k] \in Int
    BY <2>3, <2>4, MapFacts
  <2> QED
    BY <2>5 DEF Vec
<1>4. v = Plus(Tip(d), AddsOf(block))
  BY DEF Exact
<1> HIDE DEF v
<1>5. /\ d2 \in Seq(Vec) /\ Len(d2) = n + 1 /\ d2[n + 1] = v
      /\ \A i \in 1 .. n : d2[i] = d[i]
  BY <1>1, <1>3
<1>6. /\ c2 \in Seq(Programs) /\ Len(c2) = n + 1 /\ c2[n + 1] = block
      /\ \A i \in 1 .. n : c2[i] = c[i]
  BY <1>1
<1> HIDE DEF d2, c2
<1>7. ASSUME NEW h \in 0 .. n
      PROVE  At(d2, h) = At(d, h)
  <2>1. h \in Nat /\ h <= Len(d) /\ h <= Len(d2) /\ \A i \in 1 .. h : d2[i] = d[i]
    BY <1>1, <1>5
  <2> QED
    BY <1>1, <1>5, <2>1, AtAgrees
<1>8. ASSUME NEW h \in 1 .. n + 1
      PROVE  d2[h] = Plus(At(d2, h - 1), AddsOf(c2[h]))
  <2>1. CASE h = n + 1
    <3>1. h - 1 = n /\ n \in 0 .. n
      BY <1>1, <2>1
    <3>2. At(d2, h - 1) = Tip(d)
      BY <1>7, <3>1 DEF Tip
    <3> QED
      BY <1>4, <1>5, <1>6, <2>1, <3>2
  <2>2. CASE h # n + 1
    <3>1. h \in 1 .. n /\ h - 1 \in 0 .. n
      BY <1>1, <2>2
    <3>2. d[h] = Plus(At(d, h - 1), AddsOf(c[h]))
      BY <3>1 DEF Recorded
    <3> QED
      BY <1>5, <1>6, <1>7, <3>1, <3>2
  <2> QED
    BY <2>1, <2>2
<1> QED
  BY <1>5, <1>6, <1>8 DEF Recorded, d2, c2, v

LEMMA RecordedCut ==
  ASSUME NEW d, NEW c, Recorded(d, c), NEW h \in Nat, h < Len(d)
  PROVE  Recorded(SubSeq(d, 1, h), SubSeq(c, 1, h)) /\ Len(SubSeq(d, 1, h)) = h
<1> DEFINE d2 == SubSeq(d, 1, h)
           c2 == SubSeq(c, 1, h)
<1>1. d \in Seq(Vec) /\ c \in Seq(Programs) /\ Len(c) = Len(d) /\ Len(d) \in Nat
  BY DEF Recorded
<1>2. d2 \in Seq(Vec) /\ Len(d2) = h /\ \A i \in 1 .. h : d2[i] = d[i]
  BY <1>1
<1>3. c2 \in Seq(Programs) /\ Len(c2) = h /\ \A i \in 1 .. h : c2[i] = c[i]
  BY <1>1
<1> HIDE DEF d2, c2
<1>4. ASSUME NEW i \in 1 .. h
      PROVE  d2[i] = Plus(At(d2, i - 1), AddsOf(c2[i]))
  <2>1. /\ i - 1 \in Nat /\ i - 1 <= Len(d) /\ i - 1 <= Len(d2) /\ i \in 1 .. Len(d)
        /\ \A j \in 1 .. i - 1 : d2[j] = d[j]
    BY <1>1, <1>2
  <2>2. At(d2, i - 1) = At(d, i - 1)
    BY <1>1, <1>2, <2>1, AtAgrees
  <2>3. d[i] = Plus(At(d, i - 1), AddsOf(c[i]))
    BY <2>1 DEF Recorded
  <2> QED
    BY <1>2, <1>3, <2>2, <2>3
<1>5. Recorded(d2, c2)
  BY <1>2, <1>3, <1>4 DEF Recorded
<1> QED
  BY <1>2, <1>5 DEF d2, c2

-----------------------------------------------------------------------------
(***************************************************************************)
(* The invariant of the runner, while no memory refresh was missed.  The   *)
(* memory an attempt begins with is fresh; in the module it follows the    *)
(* block's calls, read against the tip; and the batch, in the slot or      *)
(* taken from it, is what the block adds to the tip.  All of this only if  *)
(* no rollback came in between: then the height is not the next one any    *)
(* more, and the commit is refused.                                        *)
(***************************************************************************)
Fits == run.h = Len(disk) + 1

Ready(batch) == Fits => Exact(batch, run.block, Tip(disk))

Shapes ==
  /\ DOMAIN run = {"pc", "h", "block", "at", "batch", "ok"}
  /\ run.pc \in {"idle", "attempt", "guest", "ended", "refresh", "commit"}
  /\ DOMAIN ctx = {"h", "state"}
  /\ DOMAIN inst = {"mem", "failed", "flushErr"}

AtRest == run.pc \in {"idle", "attempt", "commit"} => inst.mem = NewMemory

Attempted ==
  run.pc # "idle" => run.block \in Programs /\ run.h \in Nat /\ Len(disk) < run.h

InModule ==
  run.pc = "guest" =>
    /\ ctx.h = run.h /\ run.at \in 1 .. Len(run.block) + 1
    /\ ctx.state = 1 => run.at = Len(run.block) + 1
    /\ ctx.state = 1 => Ready(slot)
    /\ Fits /\ run.at # Len(run.block) + 1 =>
         Follows(inst.mem, Intents(run.block)[run.at - 1], Tip(disk), DirectKeys(run.block))

Batched ==
  /\ run.pc = "ended" /\ run.ok => Ready(slot)
  /\ run.pc = "refresh" /\ run.ok => Ready(run.batch)
  /\ run.pc = "commit" => Ready(run.batch)

Sound == Recorded(disk, chain) /\ Shapes /\ AtRest /\ Attempted /\ InModule /\ Batched

RunInv == ~spoiled => Sound

LEMMA InitSound == ASSUME RunnerInit PROVE Sound
<1>1. disk = <<>> /\ chain = <<>>
  BY DEF RunnerInit
<1>2. Recorded(disk, chain)
  BY <1>1 DEF Recorded
<1>3. Shapes /\ run.pc = "idle" /\ inst.mem = NewMemory
  BY DEF RunnerInit, IdleRun, FreshInst, Shapes
<1> QED
  BY <1>2, <1>3 DEF Sound, AtRest, Attempted, InModule, Batched

LEMMA BeginSound ==
  ASSUME Sound, NEW block \in Programs, BeginBlock(block)
  PROVE  Sound'
<1>1. /\ run'.pc = "attempt" /\ run'.h = Len(disk) + 1 /\ run'.block = block
      /\ DOMAIN run' = {"pc", "h", "block", "at", "batch", "ok"}
  BY DEF BeginBlock, IdleRun
<1>2. run.pc = "idle" /\ UNCHANGED <<chain, disk, ctx, slot, inst>>
  BY DEF BeginBlock
<1>3. Len(disk) \in Nat
  BY DEF Sound, Recorded
<1>4. inst.mem = NewMemory /\ Recorded(disk, chain)' /\ Shapes'
  BY <1>1, <1>2 DEF Sound, AtRest, Shapes
<1>5. Attempted'
  BY <1>1, <1>2, <1>3 DEF Attempted
<1> QED
  BY <1>1, <1>2, <1>4, <1>5 DEF Sound, AtRest, InModule, Batched

LEMMA ArmSound == ASSUME Sound, Arm PROVE Sound'
<1>1. /\ run'.pc = "guest" /\ run'.h = run.h /\ run'.block = run.block /\ run'.at = 1
      /\ DOMAIN run' = DOMAIN run
  BY DEF Arm, Sound, Shapes
<1>2. ctx'.h = run.h /\ ctx'.state = 0 /\ DOMAIN ctx' = {"h", "state"}
  BY DEF Arm
<1>3. run.pc = "attempt" /\ UNCHANGED <<chain, disk>>
  BY DEF Arm
<1>4. inst'.mem = NewMemory /\ DOMAIN inst' = DOMAIN inst
  BY <1>3 DEF Arm, Sound, Shapes, AtRest
<1>5. Shapes' /\ Recorded(disk, chain)' /\ Attempted'
  BY <1>1, <1>2, <1>3, <1>4 DEF Sound, Shapes, Attempted
<1>6. run.block \in Programs /\ Len(run.block) \in Nat /\ Len(run.block) # 0
  BY <1>3, DisciplineFacts DEF Sound, Attempted
<1>7. Follows(NewMemory, Intents(run.block)[0], Tip(disk), DirectKeys(run.block))
  <2>1. Tip(disk) \in Vec
    BY AtVec DEF Sound, Recorded, Tip
  <2>2. Intents(run.block)[0] = Intent /\ DirectKeys(run.block) \in SUBSET Keys
    BY <1>6, IntentsFacts, DisciplineFacts
  <2> QED
    BY <2>1, <2>2, FreshFollows
<1>8. InModule'
  <2>1. run'.at \in 1 .. Len(run'.block) + 1 /\ run'.at - 1 = 0
    BY <1>1, <1>6
  <2> QED
    BY <1>1, <1>2, <1>3, <1>4, <1>7, <2>1 DEF InModule, Tip, Fits
<1> QED
  BY <1>1, <1>5, <1>8 DEF Sound, AtRest, Batched

-----------------------------------------------------------------------------
(* In the module. *)
LEMMA GuestFacts ==
  ASSUME Sound, InGuest
  PROVE  /\ run.pc = "guest" /\ run.block \in Programs /\ Len(run.block) \in Nat
         /\ run.h \in Nat /\ ctx.h = run.h /\ run.at \in 1 .. Len(run.block) + 1
         /\ ctx.state = 1 => run.at = Len(run.block) + 1
         /\ ctx.state = 1 => Ready(slot)
         /\ ~Finished => run.at \in 1 .. Len(run.block) /\ ctx.state # 1
         /\ Fits /\ ~Finished =>
              Follows(inst.mem, Intents(run.block)[run.at - 1], Tip(disk), DirectKeys(run.block))
<1>1. run.pc = "guest"
  BY DEF InGuest
<1>2. run.block \in Programs /\ run.h \in Nat
  BY <1>1 DEF Sound, Attempted
<1>3. Len(run.block) \in Nat
  BY <1>2, DisciplineFacts
<1>4. run.at \in 1 .. Len(run.block) + 1 /\ (ctx.state = 1 => run.at = Len(run.block) + 1)
  BY <1>1 DEF Sound, InModule
<1>5. ~Finished => run.at \in 1 .. Len(run.block) /\ run.at # Len(run.block) + 1
  BY <1>3, <1>4 DEF Finished
<1> QED
  BY <1>1, <1>2, <1>3, <1>4, <1>5 DEF Sound, InModule

LEMMA GuestCallsSound == ASSUME Sound, GuestCalls PROVE Sound'
<1>1. InGuest /\ ~Finished /\ NextCall[1] # "flush" /\ UNCHANGED <<chain, disk, ctx, slot>>
  BY DEF GuestCalls
<1>2. /\ run'.pc = "guest" /\ run'.h = run.h /\ run'.block = run.block
      /\ run'.at = run.at + 1 /\ DOMAIN run' = DOMAIN run
  BY DEF GuestCalls, InGuest, Sound, Shapes
<1>3. inst'.mem = CallOf(inst.mem, Host, NextCall) /\ DOMAIN inst' = DOMAIN inst
  BY DEF GuestCalls, Sound, Shapes
<1>4. run.at \in 1 .. Len(run.block) - 1
  <2>1. run.at \in 1 .. Len(run.block) /\ run.block \in Programs /\ Len(run.block) \in Nat
    BY <1>1, GuestFacts
  <2>2. run.at # Len(run.block)
    BY <1>1, <2>1, FlushIsLast DEF NextCall
  <2> QED
    BY <2>1, <2>2
<1>5. Fits => Follows(inst'.mem, Intents(run.block)[run.at], Tip(disk), DirectKeys(run.block))
  <2> SUFFICES ASSUME Fits
               PROVE  Follows(inst'.mem, Intents(run.block)[run.at], Tip(disk),
                              DirectKeys(run.block))
    OBVIOUS
  <2>1. Host = Tip(disk)
    <3>1. ctx.h - 1 = Len(disk)
      BY <1>1, GuestFacts DEF Fits, Sound, Recorded
    <3> QED
      BY <3>1 DEF Host, GetAt, Tip, At
  <2>2. Follows(inst.mem, Intents(run.block)[run.at - 1], Tip(disk), DirectKeys(run.block))
    BY <1>1, GuestFacts
  <2>3. run.block \in Programs
    BY <1>1, GuestFacts
  <2>4. Follows(CallOf(inst.mem, Tip(disk), run.block[run.at]), Intents(run.block)[run.at],
                Tip(disk), DirectKeys(run.block))
    BY <1>4, <2>2, <2>3, CallFollows
  <2> QED
    BY <1>3, <2>1, <2>4 DEF NextCall
<1>6. Shapes' /\ Recorded(disk, chain)' /\ Attempted'
  BY <1>1, <1>2, <1>3, GuestFacts DEF Sound, Shapes, Attempted
<1>7. InModule'
  <2>1. Len(run.block) \in Nat /\ ctx.state # 1 /\ ctx.h = run.h
    BY <1>1, GuestFacts
  <2>2. run'.at \in 1 .. Len(run'.block) + 1 /\ run'.at - 1 = run.at
    BY <1>2, <1>4, <2>1
  <2> QED
    BY <1>1, <1>2, <1>5, <2>1, <2>2 DEF InModule, Fits, Tip
<1> QED
  BY <1>2, <1>6, <1>7 DEF Sound, AtRest, Batched

LEMMA FlushSound == ASSUME Sound, Flush PROVE Sound'
<1>1. InGuest /\ ~Finished /\ NextCall[1] = "flush" /\ UNCHANGED <<chain, disk>>
  BY DEF Flush
<1>2. /\ run'.pc = "guest" /\ run'.h = run.h /\ run'.block = run.block
      /\ run'.at = run.at + 1 /\ DOMAIN run' = DOMAIN run
  BY DEF Flush, InGuest, Sound, Shapes
<1>3. ctx'.h = ctx.h /\ DOMAIN ctx' = DOMAIN ctx /\ DOMAIN inst' = DOMAIN inst
  BY DEF Flush, Sound, Shapes
<1>4. run.at = Len(run.block) /\ Len(run.block) \in Nat
  <2>1. run.at \in 1 .. Len(run.block) /\ run.block \in Programs /\ Len(run.block) \in Nat
    BY <1>1, GuestFacts
  <2> QED
    BY <1>1, <2>1, FlushIsLast DEF NextCall
<1>5. slot' = Batch(inst.mem)
  BY DEF Flush
<1>6. Fits => Exact(slot', run.block, Tip(disk))
  <2>1. run.block \in Programs
    BY <1>1, GuestFacts
  <2>2. Fits => Follows(inst.mem, Intents(run.block)[Len(run.block) - 1], Tip(disk),
                        DirectKeys(run.block))
    BY <1>1, <1>4, GuestFacts
  <2> QED
    BY <1>5, <2>1, <2>2, FlushExact
<1>7. Shapes' /\ Recorded(disk, chain)' /\ Attempted'
  BY <1>1, <1>2, <1>3, GuestFacts DEF Sound, Shapes, Attempted
<1>8. InModule'
  <2>1. run'.at = Len(run'.block) + 1 /\ run'.at \in 1 .. Len(run'.block) + 1
    BY <1>2, <1>4
  <2>2. ctx'.h = run'.h
    BY <1>1, <1>2, <1>3, GuestFacts
  <2> QED
    BY <1>1, <1>2, <1>6, <2>1, <2>2 DEF InModule, Ready, Fits, Tip
<1> QED
  BY <1>2, <1>7, <1>8 DEF Sound, AtRest, Batched

LEMMA FlushFailsSound == ASSUME Sound, FlushFails PROVE Sound'
<1>1. /\ InGuest /\ ~Finished /\ NextCall[1] = "flush"
      /\ UNCHANGED <<chain, disk, ctx, slot>>
  BY DEF FlushFails
<1>2. /\ run'.pc = "guest" /\ run'.h = run.h /\ run'.block = run.block
      /\ run'.at = run.at + 1 /\ DOMAIN run' = DOMAIN run
  BY DEF FlushFails, InGuest, Sound, Shapes
<1>3. DOMAIN inst' = {"mem", "failed", "flushErr"}
  BY DEF FlushFails
<1>4. run.at = Len(run.block) /\ Len(run.block) \in Nat
  <2>1. run.at \in 1 .. Len(run.block) /\ run.block \in Programs /\ Len(run.block) \in Nat
    BY <1>1, GuestFacts
  <2> QED
    BY <1>1, <2>1, FlushIsLast DEF NextCall
<1>5. Shapes' /\ Recorded(disk, chain)' /\ Attempted'
  BY <1>1, <1>2, <1>3, GuestFacts DEF Sound, Shapes, Attempted
<1>6. InModule'
  <2>1. run'.at = Len(run'.block) + 1 /\ run'.at \in 1 .. Len(run'.block) + 1
    BY <1>2, <1>4
  <2>2. ctx'.h = run'.h /\ ctx'.state # 1
    BY <1>1, <1>2, GuestFacts
  <2> QED
    BY <2>1, <2>2 DEF InModule
<1> QED
  BY <1>2, <1>5, <1>6 DEF Sound, AtRest, Batched

LEMMA HostCallFailsSound == ASSUME Sound, HostCallFails PROVE Sound'
<1>1. run.pc = "guest" /\ UNCHANGED <<chain, disk, run, ctx, slot>>
  BY DEF HostCallFails, InGuest
<1>2. inst'.mem = inst.mem /\ DOMAIN inst' = DOMAIN inst
  BY DEF HostCallFails, Sound, Shapes
<1>3. Recorded(disk, chain)' /\ Shapes' /\ Attempted' /\ Batched' /\ AtRest'
  BY <1>1, <1>2 DEF Sound, Shapes, Attempted, Batched, AtRest, Ready, Fits, Tip
<1>4. InModule'
  BY <1>1, <1>2 DEF Sound, InModule, Ready, Fits, Tip
<1> QED
  BY <1>3, <1>4 DEF Sound

LEMMA GuestTrapsSound == ASSUME Sound, GuestTraps PROVE Sound'
<1>1. run.pc = "guest" /\ UNCHANGED <<chain, disk, ctx, slot, inst>>
  BY DEF GuestTraps, InGuest
<1>2. /\ run'.pc = "ended" /\ ~run'.ok /\ run'.h = run.h /\ run'.block = run.block
      /\ DOMAIN run' = DOMAIN run
  BY DEF GuestTraps, Sound, Shapes
<1>3. Recorded(disk, chain)' /\ Shapes' /\ Attempted'
  BY <1>1, <1>2 DEF Sound, Shapes, Attempted
<1> QED
  BY <1>2, <1>3 DEF Sound, AtRest, InModule, Batched

LEMMA GuestReturnsSound == ASSUME Sound, GuestReturns PROVE Sound'
<1>1. InGuest /\ run.pc = "guest" /\ UNCHANGED <<chain, disk, ctx, slot, inst>>
  BY DEF GuestReturns, InGuest
<1>2. /\ run'.pc = "ended" /\ run'.h = run.h /\ run'.block = run.block
      /\ run'.ok = Succeeded /\ DOMAIN run' = DOMAIN run
  BY DEF GuestReturns, Sound, Shapes
<1>3. run'.ok => Ready(slot)
  <2>1. run'.ok => ctx.state = 1
    BY <1>2 DEF Succeeded
  <2> QED
    BY <1>1, <2>1, GuestFacts
<1>4. Recorded(disk, chain)' /\ Shapes' /\ Attempted'
  BY <1>1, <1>2 DEF Sound, Shapes, Attempted
<1>5. Batched'
  BY <1>1, <1>2, <1>3 DEF Batched, Ready, Fits, Tip
<1> QED
  BY <1>2, <1>4, <1>5 DEF Sound, AtRest, InModule

-----------------------------------------------------------------------------
(* After the module. *)
LEMMA TakeBatchSound == ASSUME Sound, TakeBatch PROVE Sound'
<1>1. run.pc = "ended" /\ run.ok /\ UNCHANGED <<chain, disk, ctx, inst>>
  BY DEF TakeBatch
<1>2. /\ run'.pc = "refresh" /\ run'.h = run.h /\ run'.block = run.block
      /\ run'.batch = slot /\ DOMAIN run' = DOMAIN run
  BY DEF TakeBatch, Sound, Shapes
<1>3. Ready(slot)
  BY <1>1 DEF Sound, Batched
<1>4. Recorded(disk, chain)' /\ Shapes' /\ Attempted'
  BY <1>1, <1>2 DEF Sound, Shapes, Attempted
<1>5. Batched'
  BY <1>1, <1>2, <1>3 DEF Batched, Ready, Fits, Tip
<1> QED
  BY <1>2, <1>4, <1>5 DEF Sound, AtRest, InModule

LEMMA DisarmSound == ASSUME Sound, Disarm PROVE Sound'
<1>1. run.pc = "ended" /\ ~run.ok /\ UNCHANGED <<chain, disk, ctx, inst>>
  BY DEF Disarm
<1>2. /\ run'.pc = "refresh" /\ run'.h = run.h /\ run'.block = run.block
      /\ run'.ok = run.ok /\ DOMAIN run' = DOMAIN run
  BY DEF Disarm, Sound, Shapes
<1>3. Recorded(disk, chain)' /\ Shapes' /\ Attempted'
  BY <1>1, <1>2 DEF Sound, Shapes, Attempted
<1> QED
  BY <1>1, <1>2, <1>3 DEF Sound, AtRest, InModule, Batched

LEMMA RefreshSound == ASSUME Sound, Refresh PROVE Sound'
<1>1. run.pc = "refresh" /\ UNCHANGED <<chain, disk, ctx, slot>>
  BY DEF Refresh
<1>2. /\ run'.pc = (IF run.ok THEN "commit" ELSE "attempt")
      /\ run'.h = run.h /\ run'.block = run.block
      /\ run'.batch = run.batch /\ DOMAIN run' = DOMAIN run
  BY DEF Refresh, Sound, Shapes
<1>3. inst'.mem = NewMemory /\ DOMAIN inst' = {"mem", "failed", "flushErr"}
  BY DEF Refresh, Refreshed, FreshInst
<1>4. \/ run'.pc = "commit" /\ run.ok
      \/ run'.pc = "attempt"
  BY <1>2
<1>5. Recorded(disk, chain)' /\ Shapes' /\ Attempted'
  BY <1>1, <1>2, <1>3, <1>4 DEF Sound, Shapes, Attempted
<1>6. Batched'
  <2>1. run.ok => Ready(run.batch)
    BY <1>1 DEF Sound, Batched
  <2> QED
    BY <1>1, <1>2, <1>4, <2>1 DEF Batched, Ready, Fits, Tip
<1> QED
  BY <1>3, <1>4, <1>5, <1>6 DEF Sound, AtRest, InModule

LEMMA CommitSound == ASSUME Sound, Commit PROVE Sound'
<1>1. run.pc = "commit" /\ Fits /\ UNCHANGED <<ctx, inst>>
  BY DEF Commit, Fits
<1>2. run'.pc = "idle" /\ DOMAIN run' = {"pc", "h", "block", "at", "batch", "ok"}
  BY DEF Commit, IdleRun
<1>3. disk' = Append(disk, PipeTo(run.batch, Tip(disk))) /\ chain' = Append(chain, run.block)
  BY DEF Commit, GetAt, Tip, At
<1>4. Exact(run.batch, run.block, Tip(disk)) /\ run.block \in Programs
  BY <1>1 DEF Sound, Batched, Ready, Attempted
<1>5. Recorded(disk', chain')
  BY <1>3, <1>4, RecordedAppend DEF Sound
<1>6. Shapes' /\ AtRest'
  BY <1>1, <1>2 DEF Sound, Shapes, AtRest
<1> QED
  BY <1>2, <1>5, <1>6 DEF Sound, Attempted, InModule, Batched

LEMMA CommitFailsSound == ASSUME Sound, CommitFails PROVE Sound'
<1>1. run.pc = "commit" /\ UNCHANGED <<chain, disk, ctx, slot, inst>>
  BY DEF CommitFails
<1>2. /\ run'.pc = "attempt" /\ run'.h = run.h /\ run'.block = run.block
      /\ DOMAIN run' = DOMAIN run
  BY DEF CommitFails, Sound, Shapes
<1>3. Recorded(disk, chain)' /\ Shapes' /\ Attempted' /\ AtRest'
  BY <1>1, <1>2 DEF Sound, Shapes, Attempted, AtRest
<1> QED
  BY <1>2, <1>3 DEF Sound, InModule, Batched

LEMMA CommitRejectedSound == ASSUME Sound, CommitRejected PROVE Sound'
<1>1. run.pc = "commit" /\ UNCHANGED <<chain, disk, ctx, slot, inst>>
  BY DEF CommitRejected
<1>2. run'.pc = "idle" /\ DOMAIN run' = {"pc", "h", "block", "at", "batch", "ok"}
  BY DEF CommitRejected, IdleRun
<1>3. Recorded(disk, chain)' /\ Shapes' /\ AtRest'
  BY <1>1, <1>2 DEF Sound, Shapes, AtRest
<1> QED
  BY <1>2, <1>3 DEF Sound, Attempted, InModule, Batched

(* A rollback under a running block: its height is not the next any more. *)
LEMMA RollbackSound ==
  ASSUME Sound, NEW h \in 0 .. MaxHeight, Rollback(h)
  PROVE  Sound'
<1>1. h \in Nat /\ h < Len(disk) /\ Len(disk) \in Nat
  BY RunnerAssumption DEF Rollback, Sound, Recorded
<1>2. /\ disk' = SubSeq(disk, 1, h) /\ chain' = SubSeq(chain, 1, h)
      /\ UNCHANGED <<run, ctx, slot, inst>>
  BY DEF Rollback
<1>3. Recorded(disk', chain') /\ Len(disk') = h
  BY <1>1, <1>2, RecordedCut DEF Sound
<1>4. Shapes' /\ AtRest'
  BY <1>2 DEF Sound, Shapes, AtRest
<1>5. run.pc # "idle" => run.block \in Programs /\ run.h \in Nat /\ h < run.h /\ run.h # h + 1
  BY <1>1 DEF Sound, Attempted
<1>6. Attempted'
  BY <1>2, <1>3, <1>5 DEF Attempted
<1>7. run.pc # "idle" => ~Fits'
  BY <1>2, <1>3, <1>5 DEF Fits
<1>8. InModule'
  BY <1>2, <1>7 DEF Sound, InModule, Ready
<1>9. Batched'
  BY <1>2, <1>7 DEF Batched, Ready
<1> QED
  BY <1>3, <1>4, <1>6, <1>8, <1>9 DEF Sound

LEMMA RestSound == ASSUME Sound, UNCHANGED runnerVars PROVE Sound'
<1>1. UNCHANGED <<chain, disk, run, ctx, slot, inst>>
  BY DEF runnerVars
<1>2. Recorded(disk, chain)' /\ Shapes' /\ AtRest' /\ Attempted'
  BY <1>1 DEF Sound, Shapes, AtRest, Attempted
<1>3. InModule' /\ Batched'
  BY <1>1 DEF Sound, InModule, Batched, Ready, Fits, Tip
<1> QED
  BY <1>2, <1>3 DEF Sound

LEMMA StepSound == ASSUME RunInv, [RunnerNext]_runnerVars PROVE RunInv'
<1>1. CASE RootFails \/ RefreshFails
  BY <1>1 DEF RootFails, RefreshFails, RunInv
<1>2. CASE UNCHANGED runnerVars
  BY <1>2, RestSound DEF RunInv, runnerVars
<1>3. CASE \E block \in Programs : BeginBlock(block)
  <2>1. PICK block \in Programs : BeginBlock(block)
    BY <1>3
  <2>2. spoiled' = spoiled
    BY <2>1 DEF BeginBlock
  <2>3. Sound => Sound'
    BY <2>1, BeginSound
  <2> QED
    BY <2>2, <2>3 DEF RunInv
<1>4. CASE Arm
  BY <1>4, ArmSound DEF RunInv, Arm
<1>5. CASE GuestCalls
  BY <1>5, GuestCallsSound DEF RunInv, GuestCalls
<1>6. CASE Flush
  BY <1>6, FlushSound DEF RunInv, Flush
<1>7. CASE FlushFails
  BY <1>7, FlushFailsSound DEF RunInv, FlushFails
<1>8. CASE HostCallFails
  BY <1>8, HostCallFailsSound DEF RunInv, HostCallFails
<1>9. CASE GuestTraps
  BY <1>9, GuestTrapsSound DEF RunInv, GuestTraps
<1>10. CASE GuestReturns
  BY <1>10, GuestReturnsSound DEF RunInv, GuestReturns
<1>11. CASE TakeBatch
  BY <1>11, TakeBatchSound DEF RunInv, TakeBatch
<1>12. CASE Disarm
  BY <1>12, DisarmSound DEF RunInv, Disarm
<1>13. CASE Refresh
  BY <1>13, RefreshSound DEF RunInv, Refresh
<1>14. CASE Commit
  BY <1>14, CommitSound DEF RunInv, Commit
<1>15. CASE CommitFails
  BY <1>15, CommitFailsSound DEF RunInv, CommitFails
<1>16. CASE CommitRejected
  BY <1>16, CommitRejectedSound DEF RunInv, CommitRejected
<1>17. CASE \E h \in 0 .. MaxHeight : Rollback(h)
  <2>1. PICK h \in 0 .. MaxHeight : Rollback(h)
    BY <1>17
  <2>2. spoiled' = spoiled
    BY <2>1 DEF Rollback
  <2>3. Sound => Sound'
    BY <2>1, RollbackSound
  <2> QED
    BY <2>2, <2>3 DEF RunInv
<1> QED
  BY <1>1, <1>2, <1>3, <1>4, <1>5, <1>6, <1>7, <1>8, <1>9, <1>10, <1>11, <1>12, <1>13,
     <1>14, <1>15, <1>16, <1>17 DEF RunnerNext, RunnerDone

(***************************************************************************)
(* A committed block had the effect its calls are for, once, whatever the  *)
(* caches and checkpoints did, whatever attempts failed and were retried,  *)
(* and whatever rollback came under the block, unless a memory refresh was *)
(* missed.  For every set of disciplined indexers.                         *)
(***************************************************************************)
THEOREM BlocksHaveTheirEffect == RunnerSpec => []EffectsExact
<1>1. RunnerInit => RunInv
  BY InitSound DEF RunInv
<1>2. RunInv /\ [RunnerNext]_runnerVars => RunInv'
  BY StepSound
<1>3. RunInv => EffectsExact
  BY DEF RunInv, Sound, Recorded, EffectsExact, GetAt, At
<1> QED
  BY <1>1, <1>2, <1>3, PTL DEF RunnerSpec
=============================================================================
