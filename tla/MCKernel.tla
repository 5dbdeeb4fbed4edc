------------------------------ MODULE MCKernel ------------------------------
(* Kernel on a small instance: the packets are interchangeable, and so are *)
(* the contexts that are neither the scheduler nor the idle context.       *)
EXTENDS Kernel, TLC

Symmetry == Permutations(Packets) \cup Permutations(Callers \ {Scheduler})
=============================================================================
