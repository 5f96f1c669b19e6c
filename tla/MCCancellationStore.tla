------------------------ MODULE MCCancellationStore ------------------------
(* Two roots, three runs: a root with several runs, and a run registered   *)
(* under the wrong root.                                                   *)
EXTENDS CancellationStore, TLC

Symmetry == Permutations(Root) \cup Permutations(Run)
============================================================================
