--------------------------- MODULE MCTokenManager ---------------------------
(***************************************************************************)
(* An instance of TokenManager for TLC.  Callers are interchangeable, and   *)
(* so are names: no action and no property tells one from another.         *)
(***************************************************************************)
EXTENDS TokenManager, TLC

Interchangeable == Permutations(Callers) \cup Permutations(Names)
=============================================================================
