------------------------------ MODULE MC_Inbox ------------------------------
(* Instance of Inbox for TLC. *)
EXTENDS Inbox, TLC

Kind(type, own) == [type |-> type, own |-> own, byDeveloper |-> TRUE]

\* To the owner of a task as such, and to both users whatever their persona.
RaisedByHandlers ==
  {<<"company", Kind("APPLICATION_CREATED", TRUE)>>} \cup
  {<<u, Kind("MODERATOR_ROLE_GRANTED", FALSE)>> : u \in Users}

RequestSymmetry == Permutations(Requests)
=============================================================================
