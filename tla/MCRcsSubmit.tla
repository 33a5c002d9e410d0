---------------------------- MODULE MCRcsSubmit ----------------------------
(* TLC instances of RcsSubmit. *)
EXTENDS RcsSubmit, TLC

SymRequestsCodes == Permutations(Requests) \cup Permutations(Codes)
=============================================================================
