------------------------------ MODULE MCTower -------------------------------
(***************************************************************************)
(* Tower on its own: two cells beside a path of three places, and waves    *)
(* short enough for several to follow each other.                          *)
(***************************************************************************)
EXTENDS Tower

(* What a tower in a cell reaches.                                         *)
Reach == [c \in 1..2 |-> {c - 1, c}]
=============================================================================
