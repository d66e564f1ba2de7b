------------------------------ MODULE MCMulMat ------------------------------
(***************************************************************************)
(* MulMat for TLC, with chunks and tiles of two rows instead of sixteen,   *)
(* row4 groups of one row and panels of four tokens.                       *)
(***************************************************************************)
EXTENDS MulMat

Product(op, lut, f32, wild, nr0, ne1, planes, nb) ==
  [op |-> op, lut |-> lut, f32 |-> f32, wild |-> wild, nr0 |-> nr0, ne1 |-> ne1, planes |-> planes, nb |-> nb]

\* Every way to compute a product, one after the other, in sizes that cannot be
\* shared evenly by two threads; the last of mul_mat has more chunks than threads,
\* so that the threads claim them, and so do they with the jobs of two of row4.
AllWays == <<
  Product("mul_mat", TRUE,  TRUE,  {},  5, 1, 1, 3),
  Product("mul_mat", TRUE,  FALSE, {2}, 3, 3, 2, 1),
  Product("mul_mat", TRUE,  FALSE, {},  3, 3, 1, 2),
  Product("wide",    TRUE,  TRUE,  {},  5, 1, 1, 3),
  Product("wide",    FALSE, TRUE,  {},  3, 3, 1, 1),
  Product("mul_mat", FALSE, TRUE,  {},  8, 3, 2, 2),
  Product("scalar",  FALSE, TRUE,  {},  4, 3, 1, 1),
  Product("i8mm",    FALSE, TRUE,  {},  6, 5, 1, 1),
  Product("dotprod", FALSE, TRUE,  {},  6, 1, 1, 2),
  Product("dotprod", FALSE, TRUE,  {},  4, 3, 1, 1),
  Product("i8mm",    FALSE, TRUE,  {},  4, 3, 1, 1)>>
=============================================================================
