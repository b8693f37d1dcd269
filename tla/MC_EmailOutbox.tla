--------------------------- MODULE MC_EmailOutbox ---------------------------
(***************************************************************************)
(* Instances of EmailOutbox for TLC.  Mails and workers are interchange-   *)
(* able; runs of a temporal property do not use that.                      *)
(***************************************************************************)
EXTENDS EmailOutbox, TLC

OutboxSymmetry == Permutations(Mails) \cup Permutations(Workers)
=============================================================================
