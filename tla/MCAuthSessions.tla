--------------------------- MODULE MCAuthSessions ---------------------------
(* AuthSessions on a small instance: a careful browser and one that sends    *)
(* requests in parallel, on the same account.                                *)
EXTENDS AuthSessions, TLC

Symmetry == Permutations(Handler) \cup Permutations(Token)
=============================================================================
