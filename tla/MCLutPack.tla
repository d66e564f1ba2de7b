----------------------------- MODULE MCLutPack ------------------------------
(***************************************************************************)
(* LutPack for TLC: three weight tensors, two of which are tied (they have *)
(* the same data, so the same key).                                        *)
(***************************************************************************)
EXTENDS LutPack, TLC

CONSTANTS c1, c2, t1, t2, t3, k1, k2

MCKeyOf == t1 :> k1 @@ t2 :> k1 @@ t3 :> k2

Symmetry == Permutations(Callers) \union Permutations(Buffers)
=============================================================================
