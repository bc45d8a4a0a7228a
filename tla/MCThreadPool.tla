---------------------------- MODULE MCThreadPool ----------------------------
(* ThreadPool with model values: the threads are interchangeable.          *)
EXTENDS ThreadPool, TLC

Symmetry == Permutations(Threads)

=============================================================================
