------------------------------ MODULE Breakout ------------------------------
(***************************************************************************)
(* The rules of drm-game.c on a court of cells: the ball takes one cell, a *)
(* pass of the main loop takes it one cell on.  Left out: how fast a cell  *)
(* is crossed (the speed grows with bricks and levels), but for the last   *)
(* step of a ball that is lost, which takes it up to DEEP cells further;   *)
(* and score.  The way a brick turns the ball depends on where within the  *)
(* brick it is hit, which cells do not say: either.                        *)
(***************************************************************************)
EXTENDS Integers, FiniteSets

CONSTANTS
    WIDTH, HEIGHT,      \* the court: columns 0.., rows 0.. from the top
    PADDLE_WIDTH, PADDLE_Y,
    BRICKS,             \* the cells of the bricks
    LIVES,              \* 3
    MaxLevel            \* bound: levels in one game

VARIABLE game

DEEP == 2               \* a ball at BALL_MAX_SPEED, in steps of one put back

PaddleXs == 0..(WIDTH - PADDLE_WIDTH)
Sign(n) == IF n < 0 THEN -1 ELSE IF n > 0 THEN 1 ELSE 0

game_reset_bricks(g) == [g EXCEPT !.bricks = BRICKS, !.remaining = Cardinality(BRICKS)]
game_reset_ball(g) == [g EXCEPT !.attached = TRUE, !.vx = 1, !.vy = -1]

OverPaddle(g) == [g EXCEPT !.x = g.paddle + PADDLE_WIDTH \div 2, !.y = PADDLE_Y - 1]

game_init ==
    LET g == [paddle |-> (WIDTH - PADDLE_WIDTH) \div 2,
              x |-> WIDTH \div 2, y |-> PADDLE_Y - 1, vx |-> 1, vy |-> -1,
              bricks |-> {}, remaining |-> 0, lives |-> LIVES, level |-> 1,
              attached |-> TRUE, paused |-> FALSE]
    IN  game_reset_ball(game_reset_bricks(g))

-----------------------------------------------------------------------------
(* input_process; the paddle moves, under a finger or by the keys, whether *)
(* the game is paused or not.                                              *)
MovePaddle(x) == game' = [game EXCEPT !.paddle = x]

Space == /\ game.attached \/ game.paused
         /\ game' = IF game.attached THEN [game EXCEPT !.attached = FALSE]
                    ELSE [game EXCEPT !.paused = FALSE]

Pause == game' = [game EXCEPT !.paused = ~@]

-----------------------------------------------------------------------------
(* game_update, in the order of its parts                                  *)
Walls(g) ==
    LET x == g.x + g.vx
        y == g.y + g.vy
    IN  [g EXCEPT !.x = IF x <= 0 THEN 0 ELSE IF x >= WIDTH - 1 THEN WIDTH - 1 ELSE x,
                  !.vx = IF x <= 0 \/ x >= WIDTH - 1 THEN -@ ELSE @,
                  !.y = IF y <= 0 THEN 0 ELSE y,
                  !.vy = IF y <= 0 THEN -@ ELSE @]

OnPaddle(g) == g.vy > 0 /\ g.y = PADDLE_Y /\ g.x - g.paddle \in 0..(PADDLE_WIDTH - 1)

Paddle(g) ==
    IF OnPaddle(g)
    THEN [g EXCEPT !.vy = -1, !.vx = Sign(2 * (g.x - g.paddle) - (PADDLE_WIDTH - 1))]
    ELSE g

Brick(g) ==
    IF <<g.x, g.y>> \notin g.bricks THEN {g}
    ELSE LET h == [g EXCEPT !.bricks = @ \ {<<g.x, g.y>>}, !.remaining = @ - 1]
         IN  {[h EXCEPT !.vx = -@], [h EXCEPT !.vy = -@]}

(* The last life lost begins a new game.                                   *)
NewGame(g) == game_reset_bricks([g EXCEPT !.lives = LIVES, !.level = 1])

(* The ball stays where it was lost: one that space sends off at once      *)
(* rises from there, and may be lost again before it is back in the court. *)
Bottom(g) ==
    IF g.y < HEIGHT THEN {g}
    ELSE LET h == [g EXCEPT !.lives = @ - 1]
             n == game_reset_ball(IF h.lives <= 0 THEN NewGame(h) ELSE h)
         IN  {[n EXCEPT !.y = y] : y \in IF g.vy > 0 THEN HEIGHT..(HEIGHT + DEEP) ELSE {g.y}}

LevelDone(g) ==
    IF g.remaining > 0 THEN g
    ELSE game_reset_ball(game_reset_bricks([g EXCEPT !.level = @ + 1]))

game_update(g) ==
    IF g.attached THEN {OverPaddle(g)}
    ELSE {LevelDone(b) : b \in UNION {Bottom(h) : h \in Brick(Paddle(Walls(g)))}}

Update == ~game.paused /\ game.level < MaxLevel /\ game' \in game_update(game)

Init == game = game_init
Next == (\E x \in PaddleXs : MovePaddle(x)) \/ Space \/ Pause \/ Update
Spec == Init /\ [][Next]_game

-----------------------------------------------------------------------------
TypeOK ==
    /\ game.paddle \in PaddleXs /\ game.bricks \subseteq BRICKS
    /\ game.vx \in -1..1 /\ game.vy \in {-1, 1} /\ game.level \in 1..MaxLevel

(* A ball in play stays in the court, whatever it meets in one pass: a     *)
(* corner, a brick at the wall, the edge of the paddle.  Only one that was *)
(* lost, and sent off by space before the next update, is below, and it    *)
(* rises.                                                                  *)
BallInCourt ==
    /\ game.x \in 0..(WIDTH - 1)
    /\ ~game.attached => /\ game.y \in 0..(HEIGHT + DEEP)
                         /\ game.y >= HEIGHT => game.vy < 0

(* There is something to play for between passes, however the last ball,   *)
(* the last life and the last brick come together.                         *)
GameGoesOn ==
    /\ game.lives \in 1..LIVES
    /\ game.remaining = Cardinality(game.bricks) /\ game.remaining > 0
=============================================================================
