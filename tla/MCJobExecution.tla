--------------------------- MODULE MCJobExecution ---------------------------
(* Small instances of JobExecution for TLC.                                *)
EXTENDS JobExecutionProps, TLC

\* Workers, threads and handlers are interchangeable: no action and no
\* checked invariant tells one from another (OnceWorkers is empty or all).
Symmetry == Permutations(Workers) \cup Permutations(Threads) \cup Permutations(Handlers)
=============================================================================
