------------------------------ MODULE Breaker ------------------------------
(***************************************************************************)
(* The rules of drm-breaker.c on a court of cells; the ball takes one cell *)
(* and a pass takes it one cell on.  The paddle sends it left, straight or *)
(* right; which way a brick turns it depends on where within the brick it  *)
(* is hit, which cells do not say: either.  Left out: score, particles.    *)
(***************************************************************************)
EXTENDS Integers, FiniteSets

CONSTANTS
    WIDTH, HEIGHT,      \* columns 0.., rows 0.. from the top
    PADDLE_HALF, PADDLE_Y,
    BRICKS,             \* the cells of the bricks
    MAX_LIVES,
    MaxLevel            \* bound: levels in one game

VARIABLE game

Sign(n) == IF n < 0 THEN -1 ELSE IF n > 0 THEN 1 ELSE 0
Clamp(x) == IF x < PADDLE_HALF THEN PADDLE_HALF
            ELSE IF x > WIDTH - 1 - PADDLE_HALF THEN WIDTH - 1 - PADDLE_HALF ELSE x

init_bricks(g) == [g EXCEPT !.bricks = BRICKS, !.remaining = Cardinality(BRICKS)]

(* The ball lies on the paddle.                                            *)
OnPaddle(g) == [g EXCEPT !.x = g.paddle, !.y = PADDLE_Y - 1]
reset_ball(g) == [OnPaddle(g) EXCEPT !.dx = 0, !.dy = 0, !.launched = FALSE]

game_init ==
    reset_ball(init_bricks(
        [paddle |-> WIDTH \div 2, x |-> 0, y |-> 0, dx |-> 0, dy |-> 0,
         launched |-> FALSE, bricks |-> {}, remaining |-> 0, lives |-> MAX_LIVES,
         level |-> 1, level_complete |-> FALSE, over |-> FALSE]))

-----------------------------------------------------------------------------
(* game_update, in the order of its parts                                  *)
MovePaddle(g, keys) == [g EXCEPT !.paddle = Clamp(@ + keys)]

launch_ball(g, space) ==
    IF space /\ ~g.launched
    THEN {[g EXCEPT !.launched = TRUE, !.dx = dx, !.dy = -1] : dx \in -1..1}
    ELSE {g}

Walls(g) ==
    LET x == g.x + g.dx
        y == g.y + g.dy
    IN  [g EXCEPT !.x = IF x <= 0 THEN 0 ELSE IF x >= WIDTH - 1 THEN WIDTH - 1 ELSE x,
                  !.dx = IF x <= 0 \/ x >= WIDTH - 1 THEN -@ ELSE @,
                  !.y = IF y <= 0 THEN 0 ELSE y,
                  !.dy = IF y <= 0 THEN -@ ELSE @]

Lost(g) == IF g.lives <= 1 THEN [g EXCEPT !.lives = 0, !.over = TRUE]
           ELSE reset_ball([g EXCEPT !.lives = @ - 1])

Paddle(g) ==
    IF g.dy > 0 /\ g.y = PADDLE_Y /\ g.x - g.paddle \in -PADDLE_HALF..PADDLE_HALF
    THEN [g EXCEPT !.dx = Sign(g.x - g.paddle), !.dy = -1, !.y = PADDLE_Y - 1]
    ELSE g

Brick(g) ==
    IF <<g.x, g.y>> \notin g.bricks THEN {g}
    ELSE LET h == [g EXCEPT !.bricks = @ \ {<<g.x, g.y>>}, !.remaining = @ - 1]
         IN  {[h EXCEPT !.dx = -@], [h EXCEPT !.dy = -@]}

LevelDone(g) == IF g.remaining > 0 THEN g
                ELSE [g EXCEPT !.level_complete = TRUE, !.level = @ + 1]

Fly(g) ==
    LET h == Walls(g)
    IN  IF h.y > HEIGHT THEN {Lost(h)} ELSE {LevelDone(k) : k \in Brick(Paddle(h))}

game_update(g, keys, space) ==
    IF g.over THEN {g}
    ELSE UNION {IF h.launched THEN Fly(h) ELSE {OnPaddle(h)} :
                   h \in launch_ball(MovePaddle(g, keys), space)}

(* main: what follows game_update and the picture of it.                   *)
NextLevel(g) ==
    IF g.level_complete THEN reset_ball(init_bricks([g EXCEPT !.level_complete = FALSE]))
    ELSE g

(* The arrows held after a poll, none and both alike, and whether space is *)
(* down that was not at the poll before.                                   *)
input_poll == [arrows : -1..1, space : BOOLEAN]

Update == /\ game.level < MaxLevel
          /\ \E keys \in input_poll :
                game' \in {NextLevel(h) : h \in game_update(game, keys.arrows, keys.space)}

Init == game = game_init
Next == Update
Spec == Init /\ [][Next]_game

-----------------------------------------------------------------------------
TypeOK ==
    /\ game.paddle \in PADDLE_HALF..(WIDTH - 1 - PADDLE_HALF)
    /\ game.x \in 0..(WIDTH - 1) /\ game.y \in 0..(HEIGHT + 1)
    /\ game.dx \in -1..1 /\ game.dy \in -1..1 /\ game.bricks \subseteq BRICKS

(* A ball that is not in play is on the paddle at the end of every pass:   *)
(* after a life, after a level and while the paddle moves.                 *)
BallOnPaddle == ~game.launched => game.x = game.paddle /\ game.y = PADDLE_Y - 1

(* A ball in play moves, and there is a brick for it and a life to lose.   *)
GameGoesOn ==
    /\ game.launched => game.dy # 0
    /\ game.remaining = Cardinality(game.bricks) /\ game.remaining > 0
    /\ game.over <=> game.lives = 0
=============================================================================
