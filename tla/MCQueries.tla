----------------------------- MODULE MCQueries -----------------------------
(* TLC instances of Queries. *)
EXTENDS Queries, TLC

SymRows == Permutations(Tasks) \cup Permutations(Events)
             \cup Permutations(Robots) \cup Permutations(RobotStates)
=============================================================================
