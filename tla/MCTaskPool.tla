----------------------------- MODULE MCTaskPool -----------------------------
(* Two VMs share two workers; three tasks, posted by VMs or by other tasks. *)
EXTENDS TaskPool, TLC

CONSTANTS v1, v2, t1, t2, t3

MCVMs == {v1, v2}
MCTasks == {t1, t2, t3}
MCTwoTasks == {t1, t2}
Symmetry == Permutations(MCVMs) \cup Permutations(MCTasks)

=============================================================================
