------------------------- MODULE MC_AccountRecords --------------------------
(* Instance of AccountRecords, with UserStanding beside it, for TLC. *)
EXTENDS UserStanding, TLC

RequestSymmetry == Permutations(Requests)
=============================================================================
