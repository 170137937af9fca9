---------------------------- MODULE MCAgentTasks ----------------------------
EXTENDS AgentTasks, TLC

\* Task ids are interchangeable.
Symmetry == Permutations(Tasks)
=============================================================================
