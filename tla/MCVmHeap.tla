------------------------------ MODULE MCVmHeap -----------------------------
(* VmHeap with interchangeable objects, for TLC. *)
EXTENDS VmHeap, TLC

ObjSymmetry == Permutations(Obj)
=============================================================================
