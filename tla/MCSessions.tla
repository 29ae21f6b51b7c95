----------------------------- MODULE MCSessions -----------------------------
(***************************************************************************)
(* An instance of Sessions for TLC: a second lasts two ticks, so that      *)
(* stored times may lose one; requests are interchangeable.                *)
(***************************************************************************)
EXTENDS Sessions, TLC

Interchangeable == Permutations(Requests)
=============================================================================
