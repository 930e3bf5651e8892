-------------------------- MODULE MCMatrixChannel --------------------------
(***************************************************************************)
(* A small room for MatrixChannel.                                         *)
(***************************************************************************)
EXTENDS MatrixChannel, TLC
=============================================================================
