----------------------------- MODULE MCDynlink -----------------------------
(* Instances of Dynlink for TLC.                                           *)
EXTENDS Dynlink, TLC

CONSTANTS t1, t2, t3, l1, l2

TwoThreads == {t1, t2}
ThreeThreads == {t1, t2, t3}
OneLib == {l1}
TwoLibs == {l1, l2}

\* Neither threads nor libraries are told apart (safety runs only).
Interchangeable == Permutations(Thread) \cup Permutations(Lib)

=============================================================================
