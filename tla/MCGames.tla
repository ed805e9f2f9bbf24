------------------------------ MODULE MCGames -------------------------------
(***************************************************************************)
(* The suite of games on a small instance: what a configuration file has   *)
(* no words for.                                                           *)
(***************************************************************************)
EXTENDS Games

(* Breaker and Breakout.                                                   *)
Bricks == {<<1, 1>>, <<2, 1>>, <<3, 0>>}

(* Tetris: a piece that has two positions, and one that has one.           *)
BarShape(r) == IF r % 2 = 0 THEN {<<1, 0>>, <<1, 1>>, <<1, 2>>}
                            ELSE {<<0, 1>>, <<1, 1>>, <<2, 1>>}
SquareShape == {<<0, 1>>, <<0, 2>>, <<1, 1>>, <<1, 2>>}
Shapes == [I |-> [r \in 0..3 |-> BarShape(r)], O |-> [r \in 0..3 |-> SquareShape]]

(* Platformer: the ground, a low platform and a narrow one above it.       *)
Platforms == <<[x |-> 0, w |-> 5, y |-> 5, h |-> 1],
               [x |-> 1, w |-> 2, y |-> 3, h |-> 0],
               [x |-> 3, w |-> 1, y |-> 2, h |-> 0]>>
Coins == {<<1, 2>>, <<3, 2>>}
Begin == <<1, 4>>
Leftmost == -2
Jump == -3

(* Tower: what a tower in a cell reaches.                                  *)
Reach == [c \in 1..2 |-> {c - 1, c}]

(* Flappy.                                                                 *)
Flap == -2

(* Invaders.                                                               *)
Shield == {<<1, 2>>}
=============================================================================
