------------------------------ MODULE MCLikes ------------------------------
(***************************************************************************)
(* An instance of Likes for TLC: a post and a comment on it; a second      *)
(* lasts two ticks, so that a stored time may lose one.                    *)
(***************************************************************************)
EXTENDS Likes, TLC

CONSTANTS post, comment

OneThread == [i \in {post, comment} |-> IF i = post THEN {comment} ELSE {}]

Interchangeable == Permutations(Requests) \cup Permutations(Clients)
=============================================================================
