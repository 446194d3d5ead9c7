----------------------------- MODULE MCTitanDB ------------------------------
(***************************************************************************)
(* Small instances of TitanDB.  Keys, readers and GC threads are           *)
(* interchangeable: no definition singles one out.                         *)
(***************************************************************************)
EXTENDS TitanDB, TLC

CONSTANTS k1, k2, r1, j1, j2

OneKey   == {k1}
TwoKeys  == {k1, k2}
OneJob   == {j1}
TwoJobs  == {j1, j2}
OneReader == {r1}

Symmetry == Permutations(Key) \cup Permutations(Job)

=============================================================================
