------------------------- MODULE MCPlaybookExecution -------------------------
(* PlaybookExecution on small sets, for TLC.                               *)
EXTENDS PlaybookExecution, TLC

\* No property tells workers apart, and the safety properties no executions.
Symmetry == Permutations(Worker) \cup Permutations(Exec)
==============================================================================
