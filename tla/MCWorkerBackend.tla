--------------------------- MODULE MCWorkerBackend ---------------------------
(* Small instances of WorkerBackend for TLC. *)
EXTENDS WorkerBackend, TLC

CONSTANTS f1, f2, w1

Finite == {5}
Mixed == {5, Infinity}
TwoBudgets == {3, 5}
Short == {3}
SomeEndless == {3, Infinity}
Endless == {Infinity}
FnSymmetry == Permutations(Fns)
=============================================================================
