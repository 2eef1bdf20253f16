---------------------------- MODULE MCTtyServer ----------------------------
(* Values for model-checking TtyServer.                                     *)
EXTENDS TtyServer, TLC

Dim(cols, rows) == [cols |-> cols, rows |-> rows]

Default == Dim(3, 3)
NoSizes == {}
\* Neither of the first two is the elementwise minimum of both.
ThreeSizes == {Dim(1, 2), Dim(2, 1), Dim(2, 2)}

Symmetry == Permutations(Connections)
=============================================================================
