------------------------------ MODULE MCFreshness ------------------------------
(* Instances of Freshness for TLC.                                         *)
EXTENDS Freshness, TLC

\* Threads, evictors and files are interchangeable.
Symmetry == Permutations(Thread) \cup Permutations(Evictor) \cup Permutations(File)
=============================================================================
