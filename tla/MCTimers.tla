------------------------------ MODULE MCTimers ------------------------------
(* Timers of less than a tick, of one, two and three. *)
EXTENDS Timers, TLC

TimesUpToThree == {[sec |-> 0, usec |-> u] : u \in {50000, 100000, 150001, 300000}}
Symmetry == Permutations(Contexts)
=============================================================================
