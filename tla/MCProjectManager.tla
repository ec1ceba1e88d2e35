-------------------------- MODULE MCProjectManager --------------------------
(* Instances of ProjectManager for TLC.                                    *)
EXTENDS ProjectManager, TLC

\* Threads and projects are interchangeable.
Symmetry == Permutations(Thread) \cup Permutations(Project)
=============================================================================
