----------------------------- MODULE MCOSKernel -----------------------------
(* Instances of OSKernel for TLC; the values are in the .cfg files. *)
EXTENDS OSKernel

(* All threads but the start-up one are interchangeable. *)
ThreadSymmetry == Permutations(Thread \ {DefaultThread})
=============================================================================
