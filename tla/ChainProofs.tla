----------------------------- MODULE ChainProofs -----------------------------
(***************************************************************************)
(* Facts about the operators of Chain, for every set of blocks that        *)
(* satisfies ChainAssumption.  Ancestry is a recursive function, so even   *)
(* that it exists has to be shown: every argument over the heights here    *)
(* takes the least (or the greatest) height for which the claim fails.     *)
(***************************************************************************)
EXTENDS Chain, WellFoundedInduction, TLAPS

(* A nonempty set of naturals has a least element. *)
LEMMA LeastExists ==
  ASSUME NEW T, T \subseteq Nat, T # {}
  PROVE  \E x \in T : \A y \in T : x <= y
<1>1. IsWellFoundedOn(OpToRel(<, Nat), Nat)
  BY NatLessThanWellFounded
<1>2. PICK x \in T : \A y \in T : ~ (<<y, x>> \in OpToRel(<, Nat))
  BY <1>1, WFMin
<1>3. \A y \in T : ~ (y < x)
  BY <1>2 DEF OpToRel
<1> QED
  BY <1>3

(* A nonempty set of naturals below a bound has a greatest element. *)
LEMMA GreatestExists ==
  ASSUME NEW n \in Nat, NEW T, T \subseteq 0 .. n, T # {}
  PROVE  \E x \in T : \A y \in T : y <= x
<1> DEFINE U == {u \in 0 .. n : n - u \in T}
<1>1. U \subseteq Nat /\ U # {}
  <2>1. PICK t \in T : TRUE
    OBVIOUS
  <2>2. t \in 0 .. n /\ n - t \in 0 .. n /\ n - (n - t) = t
    BY <2>1
  <2> QED
    BY <2>1, <2>2
<1>2. PICK u \in U : \A v \in U : u <= v
  BY <1>1, LeastExists
<1>3. u \in 0 .. n /\ n - u \in T
  OBVIOUS
<1>4. ASSUME NEW y \in T PROVE y <= n - u
  <2>1. y \in 0 .. n /\ n - y \in 0 .. n /\ n - (n - y) = y
    OBVIOUS
  <2>2. n - y \in U
    BY <2>1
  <2>3. u <= n - y
    BY <1>2, <2>2
  <2> QED
    BY <1>3, <2>1, <2>3
<1> QED
  BY <1>3, <1>4

(* One step of the recursion that Ancestry is defined by. *)
AncestryStep(tip, f) ==
  [h \in 0 .. Height[tip] |-> IF h = Height[tip] THEN tip ELSE Parent[f[h + 1]]]

(* Every prefix of the way down from tip can be walked. *)
LEMMA WalkDown ==
  ASSUME NEW tip \in Blocks, NEW m \in 0 .. Height[tip]
  PROVE  \E g \in [Height[tip] - m .. Height[tip] -> Blocks] :
           /\ g[Height[tip]] = tip
           /\ \A h \in DOMAIN g : Height[g[h]] = h
           /\ \A h \in DOMAIN g : h # Height[tip] => g[h] = Parent[g[h + 1]]
<1> DEFINE H == Height[tip]
           Way(k, g) == /\ g \in [H - k .. H -> Blocks]
                        /\ g[H] = tip
                        /\ \A h \in H - k .. H : Height[g[h]] = h
                        /\ \A h \in H - k .. H : h # H => g[h] = Parent[g[h + 1]]
           Bad == {k \in 0 .. H : ~ \E g : Way(k, g)}
<1>1. H \in Nat
  BY ChainAssumption DEF Heights
<1>2. Bad = {}
  <2>1. SUFFICES ASSUME Bad # {} PROVE FALSE
    OBVIOUS
  <2>2. PICK k \in Bad : \A y \in Bad : k <= y
    <3>1. Bad \subseteq Nat
      BY <1>1
    <3> QED
      BY <2>1, <3>1, LeastExists
  <2>3. CASE k = 0
    <3>1. Way(0, [h \in H .. H |-> tip])
      BY <1>1
    <3> QED
      BY <2>3, <3>1
  <2>4. CASE k # 0
    <3>1. k - 1 \in 0 .. H /\ k - 1 \notin Bad
      <4>1. k \in 0 .. H
        OBVIOUS
      <4>2. k - 1 \in 0 .. H /\ ~ (k <= k - 1)
        BY <1>1, <2>4, <4>1
      <4> QED
        BY <2>2, <4>2
    <3>2. PICK g : Way(k - 1, g)
      BY <3>1
    <3>3. H - (k - 1) \in H - (k - 1) .. H /\ H - (k - 1) = H - k + 1 /\ H - k + 1 # 0
      BY <1>1, <3>1
    <3>4. g[H - k + 1] \in Blocks /\ Height[g[H - k + 1]] = H - k + 1
      BY <3>2, <3>3
    <3>5. Parent[g[H - k + 1]] \in Blocks /\ Height[Parent[g[H - k + 1]]] = H - k
      <4>1. Height[g[H - k + 1]] # 0
        BY <3>3, <3>4
      <4>2. Parent[g[H - k + 1]] \in Blocks
            /\ Height[Parent[g[H - k + 1]]] = Height[g[H - k + 1]] - 1
        BY <3>4, <4>1, ChainAssumption
      <4> QED
        BY <1>1, <3>1, <3>4, <4>2
    <3> DEFINE f == [h \in H - k .. H |-> IF h = H - k THEN Parent[g[h + 1]] ELSE g[h]]
    <3>a. k \in 1 .. H
      BY <1>1, <2>4
    <3>b. \A h \in H - k .. H : h # H - k => h \in H - (k - 1) .. H
      BY <1>1, <3>a
    <3>c. f[H - k] = Parent[g[H - k + 1]]
          /\ \A h \in H - k .. H : h # H - k => f[h] = g[h]
      BY <1>1, <3>a
    <3>d. f = [h \in H - k .. H |-> f[h]]
      OBVIOUS
    <3> HIDE DEF f
    <3>e. \A h \in H - k .. H : f[h] \in Blocks
      BY <3>2, <3>5, <3>b, <3>c
    <3>f. H \in H - k .. H /\ H # H - k
      BY <1>1, <3>a
    <3>6. f \in [H - k .. H -> Blocks] /\ f[H] = tip
      BY <3>2, <3>c, <3>d, <3>e, <3>f
    <3>7. ASSUME NEW h \in H - k .. H PROVE Height[f[h]] = h
      BY <3>2, <3>5, <3>b, <3>c
    <3>8. ASSUME NEW h \in H - k .. H, h # H PROVE f[h] = Parent[f[h + 1]]
      <4>1. h + 1 \in H - k .. H /\ h + 1 # H - k
        <5>1. h \in Int /\ H - k <= h /\ h <= H
          BY <1>1, <3>a
        <5> QED
          BY <1>1, <3>8, <3>a, <5>1
      <4>2. f[h + 1] = g[h + 1]
        BY <3>c, <4>1
      <4>3. CASE h = H - k
        BY <3>c, <4>2, <4>3
      <4>4. CASE h # H - k
        BY <3>2, <3>8, <3>b, <3>c, <4>2, <4>4
      <4> QED
        BY <4>3, <4>4
    <3>9. Way(k, f)
      BY <3>6, <3>7, <3>8
    <3> QED
      BY <3>9
  <2> QED
    BY <2>3, <2>4
<1>3. PICK g : Way(m, g)
  BY <1>1, <1>2
<1>4. DOMAIN g = H - m .. H
  BY <1>3
<1> QED
  BY <1>3, <1>4

(* The recursion of Ancestry has a solution. *)
LEMMA AncestryExists ==
  ASSUME NEW tip \in Blocks
  PROVE  \E f : f = AncestryStep(tip, f)
<1> DEFINE H == Height[tip]
<1>1. H \in Nat
  BY ChainAssumption DEF Heights
<1>2. H \in 0 .. H
  BY <1>1
<1>a. PICK g \in [H - H .. H -> Blocks] :
           /\ g[H] = tip
           /\ \A h \in DOMAIN g : Height[g[h]] = h
           /\ \A h \in DOMAIN g : h # H => g[h] = Parent[g[h + 1]]
  BY <1>2, WalkDown
<1>3. H - H = 0 /\ DOMAIN g = 0 .. H
  BY <1>1
<1>4. g = AncestryStep(tip, g)
  BY <1>a, <1>3 DEF AncestryStep
<1> QED
  BY <1>4

(* So the heights of a chain hold blocks of these heights, each the parent *)
(* of the next one, up to the tip; above it there is nothing.              *)
LEMMA AncestryFacts ==
  ASSUME NEW tip \in Blocks
  PROVE  /\ Ancestry(tip) \in [Heights -> Blocks \cup {NoBlock}]
         /\ Ancestry(tip)[Height[tip]] = tip
         /\ \A h \in 0 .. Height[tip] : Ancestry(tip)[h] \in Blocks
                                         /\ Height[Ancestry(tip)[h]] = h
         /\ \A h \in Heights : h > Height[tip] => Ancestry(tip)[h] = NoBlock
         /\ \A h \in 0 .. Height[tip] : h # Height[tip] =>
                Ancestry(tip)[h] = Parent[Ancestry(tip)[h + 1]]
<1> DEFINE H == Height[tip]
           at == CHOOSE f : f = AncestryStep(tip, f)
           anc == Ancestry(tip)
<1>1. H \in Nat /\ H \in Heights /\ MaxHeight \in Nat
  BY ChainAssumption DEF Heights
<1>2. at = AncestryStep(tip, at)
  BY AncestryExists
<1>3. anc = [h \in Heights |-> IF h <= H THEN at[h] ELSE NoBlock]
  BY DEF Ancestry, AncestryStep
<1> HIDE DEF at
<1>4. \A h \in 0 .. H : at[h] = IF h = H THEN tip ELSE Parent[at[h + 1]]
  BY <1>2 DEF AncestryStep
<1> DEFINE Bad == {h \in 0 .. H : ~ (at[h] \in Blocks /\ Height[at[h]] = h)}
<1>5. Bad = {}
  <2>1. SUFFICES ASSUME Bad # {} PROVE FALSE
    OBVIOUS
  <2>2. PICK h \in Bad : \A y \in Bad : y <= h
    <3>1. Bad \subseteq 0 .. H
      OBVIOUS
    <3> QED
      BY <1>1, <2>1, <3>1, GreatestExists
  <2>3. h # H
    BY <1>1, <1>4
  <2>4. h + 1 \in 0 .. H /\ ~ (h + 1 <= h) /\ h + 1 # 0 /\ h \in 0 .. H /\ h + 1 - 1 = h
    BY <1>1, <2>3
  <2>5. at[h + 1] \in Blocks /\ Height[at[h + 1]] = h + 1
    BY <2>2, <2>4
  <2>6. Parent[at[h + 1]] \in Blocks /\ Height[Parent[at[h + 1]]] = h
    <3>1. Height[at[h + 1]] # 0
      BY <2>4, <2>5
    <3>2. Parent[at[h + 1]] \in Blocks /\ Height[Parent[at[h + 1]]] = Height[at[h + 1]] - 1
      BY <2>5, <3>1, ChainAssumption
    <3> QED
      BY <2>4, <2>5, <3>2
  <2>7. at[h] = Parent[at[h + 1]]
    BY <1>4, <2>3, <2>4
  <2> QED
    BY <2>6, <2>7
<1>6. \A h \in 0 .. H : at[h] \in Blocks /\ Height[at[h]] = h
  BY <1>5
<1>7. \A h \in 0 .. H : h \in Heights /\ anc[h] = at[h]
  BY <1>1, <1>3 DEF Heights
<1>8. \A h \in Heights : h > H => anc[h] = NoBlock
  BY <1>1, <1>3 DEF Heights
<1>9. \A h \in Heights : anc[h] \in Blocks \cup {NoBlock}
  <2>1. \A h \in Heights : h \in 0 .. H \/ h > H
    BY <1>1 DEF Heights
  <2> QED
    BY <1>6, <1>7, <1>8, <2>1
<1>10. anc[H] = tip
  BY <1>1, <1>4, <1>7
<1>11. \A h \in 0 .. H : h # H => anc[h] = Parent[anc[h + 1]]
  <2>1. \A h \in 0 .. H : h # H => h + 1 \in 0 .. H
    BY <1>1
  <2> QED
    BY <1>4, <1>7, <2>1
<1>12. anc \in [Heights -> Blocks \cup {NoBlock}]
  BY <1>3, <1>9
<1> HIDE DEF anc
<1> QED
  BY <1>6, <1>7, <1>8, <1>10, <1>11, <1>12 DEF anc

(* A chain that grows by one block keeps the blocks it had. *)
LEMMA AncestryOfParent ==
  ASSUME NEW tip \in Blocks, Height[tip] # 0
  PROVE  /\ Parent[tip] \in Blocks /\ Height[Parent[tip]] = Height[tip] - 1
         /\ \A h \in 0 .. Height[tip] - 1 : Ancestry(tip)[h] = Ancestry(Parent[tip])[h]
<1> DEFINE p == Parent[tip]
           A == Ancestry(tip)
           B == Ancestry(p)
           Bad == {h \in 0 .. Height[p] : ~ (A[h] = B[h])}
<1>1. Height[tip] \in Nat /\ p \in Blocks /\ Height[p] = Height[tip] - 1
  BY ChainAssumption DEF Heights
<1>2. \A h \in 0 .. Height[tip] : h # Height[tip] => A[h] = Parent[A[h + 1]]
  BY AncestryFacts
<1>3. \A h \in 0 .. Height[p] : h # Height[p] => B[h] = Parent[B[h + 1]]
  BY <1>1, AncestryFacts
<1>4. A[Height[tip]] = tip /\ B[Height[p]] = p
  BY <1>1, AncestryFacts
<1> HIDE DEF p, A, B
<1>5. Height[p] \in Nat /\ Height[tip] = Height[p] + 1
  BY <1>1
<1>6. A[Height[p]] = B[Height[p]]
  <2>1. Height[p] \in 0 .. Height[tip] /\ Height[p] # Height[tip]
    BY <1>5
  <2>2. A[Height[p]] = Parent[A[Height[p] + 1]]
    BY <1>2, <2>1
  <2>3. A[Height[p]] = Parent[tip]
    BY <1>4, <1>5, <2>2
  <2> QED
    BY <1>4, <2>3 DEF p
<1>7. Bad = {}
  <2>1. SUFFICES ASSUME Bad # {} PROVE FALSE
    OBVIOUS
  <2>2. PICK h \in Bad : \A y \in Bad : y <= h
    <3>1. Bad \subseteq 0 .. Height[p]
      OBVIOUS
    <3> QED
      BY <1>5, <2>1, <3>1, GreatestExists
  <2>3. h \in 0 .. Height[p] /\ h # Height[p]
    BY <1>6
  <2>4. h + 1 \in 0 .. Height[p] /\ ~ (h + 1 <= h) /\ h \in 0 .. Height[tip] /\ h # Height[tip]
    BY <1>5, <2>3
  <2>5. A[h + 1] = B[h + 1]
    BY <2>2, <2>4
  <2>6. A[h] = B[h]
    BY <1>2, <1>3, <2>3, <2>4, <2>5
  <2> QED
    BY <2>6
<1>8. \A h \in 0 .. Height[tip] - 1 : A[h] = B[h]
  BY <1>1, <1>7
<1> QED
  BY <1>1, <1>8 DEF p, A, B
=============================================================================
