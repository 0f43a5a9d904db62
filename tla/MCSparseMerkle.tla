--------------------------- MODULE MCSparseMerkle ---------------------------
(***************************************************************************)
(* Keys for SparseMerkle whose hashes share two bits, one bit and none.    *)
(***************************************************************************)
EXTENDS SparseMerkle

CONSTANTS a, b, c, v, w

MCValues == {v, w}

ValueSymmetry == Permutations(MCValues)

MCKeys == {a, b, c}

MCBits == (a :> <<0, 0, 0, 1>>) @@ (b :> <<0, 0, 1, 0>>) @@ (c :> <<0, 1, 1, 1>>)
=============================================================================
