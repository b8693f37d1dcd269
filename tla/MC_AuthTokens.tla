--------------------------- MODULE MC_AuthTokens ----------------------------
(* Instance of AuthTokens for TLC: the bounds are in sessions.cfg. *)
EXTENDS AuthTokens
=============================================================================
