----------------------------- MODULE MCNetServer -----------------------------
(***************************************************************************)
(* Instances of NetServer for TLC.  Descriptors are only compared, so the  *)
(* safety run may permute them.                                            *)
(***************************************************************************)
EXTENDS NetServer, TLC

FdSymmetry == Permutations(Fds)
=============================================================================
