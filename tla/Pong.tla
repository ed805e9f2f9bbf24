-------------------------------- MODULE Pong --------------------------------
(***************************************************************************)
(* The rules of drm-pong.c on a court of cells; the ball has no size.  A   *)
(* pass takes it `speed' columns on and one row up, down or none.  Left    *)
(* out: trail, particles and the shaking of the screen.                    *)
(***************************************************************************)
EXTENDS Integers, FiniteSetsExt

CONSTANTS
    WIDTH, HEIGHT,                      \* columns, rows 0..
    PLAYER_X, AI_X, PADDLE_W, PADDLE_H, \* a paddle covers PADDLE_H rows and more
    AI_SPEED, AI_MAX_SPEED,
    AI_RALLY,                           \* 10: strokes that make the AI faster
    BALL_SPEED_INIT, BALL_SPEED_INC, BALL_MAX_SPEED,
    SERVE,                              \* 60: passes before the ball moves
    WIN_SCORE,
    MaxRally                            \* bound: strokes in one rally

VARIABLE game

Sign(n) == IF n < 0 THEN -1 ELSE IF n > 0 THEN 1 ELSE 0
Clamp(y) == IF y < 0 THEN 0 ELSE IF y > HEIGHT - PADDLE_H THEN HEIGHT - PADDLE_H ELSE y
Faster(v) == IF v + BALL_SPEED_INC > BALL_MAX_SPEED THEN BALL_MAX_SPEED ELSE v + BALL_SPEED_INC

reset_ball(g) ==
    {[g EXCEPT !.x = WIDTH \div 2, !.y = HEIGHT \div 2, !.speed = BALL_SPEED_INIT,
               !.dx = dx, !.dy = dy, !.rally = 0, !.serving = TRUE,
               !.serve_timer = SERVE] : dx \in {-1, 1}, dy \in -1..1}

game_init ==
    reset_ball([player |-> (HEIGHT - PADDLE_H) \div 2, ai |-> (HEIGHT - PADDLE_H) \div 2,
                x |-> 0, y |-> 0, dx |-> 0, dy |-> 0, speed |-> 0, rally |-> 0,
                score_p1 |-> 0, score_p2 |-> 0, serving |-> FALSE,
                serve_timer |-> 0, paused |-> FALSE, over |-> FALSE])

-----------------------------------------------------------------------------
(* input_poll                                                              *)
Pause == game' = [game EXCEPT !.paused = ~@]

(* Speed and rally stay those of the last ball of the game before.         *)
Restart == /\ game.over
           /\ game' = [game EXCEPT !.over = FALSE, !.score_p1 = 0, !.score_p2 = 0,
                                   !.serving = TRUE, !.serve_timer = SERVE]

-----------------------------------------------------------------------------
(* game_update, in the order of its parts                                  *)
Serve(g) ==
    IF ~g.serving THEN g
    ELSE [g EXCEPT !.serve_timer = @ - 1, !.serving = (g.serve_timer > 1),
                   !.x = WIDTH \div 2, !.y = HEIGHT \div 2]

(* The keys, or the finger the paddle follows.                             *)
MovePlayer(g, move) == [g EXCEPT !.player = Clamp(@ + move)]

MoveAi(g) ==
    LET diff == g.y - PADDLE_H \div 2 - g.ai
        speed == Min({AI_SPEED + g.rally \div AI_RALLY, AI_MAX_SPEED})
        step == IF diff > speed THEN speed ELSE IF diff < -speed THEN -speed ELSE diff
    IN  [g EXCEPT !.ai = Clamp(@ + step)]

MoveBall(g) ==
    LET y == g.y + g.dy
    IN  [g EXCEPT !.x = @ + g.dx * g.speed,
                  !.y = IF y <= 0 THEN 0 ELSE IF y >= HEIGHT - 1 THEN HEIGHT - 1 ELSE y,
                  !.dy = IF y <= 0 \/ y >= HEIGHT - 1 THEN -@ ELSE @]

(* Where on the paddle the ball is hit says where it goes.                 *)
Angle(g, paddle) == Sign(2 * (g.y - paddle) - PADDLE_H)

Stroke(g, x, dx, paddle) ==
    [g EXCEPT !.x = x, !.dx = dx, !.dy = Angle(g, paddle),
              !.speed = Faster(@), !.rally = @ + 1]

PlayerStroke(g) ==
    IF /\ g.dx < 0 /\ g.x \in PLAYER_X..(PLAYER_X + PADDLE_W)
       /\ g.y \in g.player..(g.player + PADDLE_H)
    THEN Stroke(g, PLAYER_X + PADDLE_W, 1, g.player) ELSE g

AiStroke(g) ==
    IF /\ g.dx > 0 /\ g.x \in AI_X..(AI_X + PADDLE_W)
       /\ g.y \in g.ai..(g.ai + PADDLE_H)
    THEN Stroke(g, AI_X, -1, g.ai) ELSE g

Score(g) ==
    CASE g.x < 0 ->
           LET h == [g EXCEPT !.score_p2 = @ + 1]
           IN  IF h.score_p2 >= WIN_SCORE THEN {[h EXCEPT !.over = TRUE]} ELSE reset_ball(h)
      [] g.x > WIDTH ->
           LET h == [g EXCEPT !.score_p1 = @ + 1]
           IN  IF h.score_p1 >= WIN_SCORE THEN {[h EXCEPT !.over = TRUE]} ELSE reset_ball(h)
      [] OTHER -> {g}

game_update(g, move) ==
    LET h == MoveAi(MovePlayer(Serve(g), move))
    IN  IF h.serving THEN {h} ELSE Score(AiStroke(PlayerStroke(MoveBall(h))))

(* Where the arrows held, or the last touch, send the paddle.              *)
Held == -1..1

Update == /\ ~game.paused /\ ~game.over /\ game.rally < MaxRally
          /\ \E move \in Held : game' \in game_update(game, move)

Init == game \in game_init
input_poll == Pause \/ Restart
Next == input_poll \/ Update
Spec == Init /\ [][Next]_game

-----------------------------------------------------------------------------
TypeOK ==
    /\ {game.player, game.ai} \subseteq 0..(HEIGHT - PADDLE_H)
    /\ game.y \in 0..(HEIGHT - 1) /\ game.dx \in {-1, 1} /\ game.dy \in -1..1
    /\ {game.score_p1, game.score_p2} \subseteq 0..WIN_SCORE

(* The game ends with the point that makes WIN_SCORE, which is one         *)
(* player's alone, and until then the ball is served again after each.     *)
WonByOne ==
    /\ game.over <=> WIN_SCORE \in {game.score_p1, game.score_p2}
    /\ {game.score_p1, game.score_p2} # {WIN_SCORE}
    /\ ~game.over => game.x \in 0..WIDTH \/ game.serving

(* The ball is as fast as its rally is long, up to the greatest speed.     *)
SpeedOfRally ==
    LET v == BALL_SPEED_INIT + game.rally * BALL_SPEED_INC
    IN  game.speed = IF v > BALL_MAX_SPEED THEN BALL_MAX_SPEED ELSE v

(* No ball is too fast to be hit: one that came past a paddle in play did  *)
(* not pass through it.  Seen from the ball: a column of the paddle lies   *)
(* within every step.                                                      *)
BallMeetsPaddle ==
    game.x > PLAYER_X + PADDLE_W /\ game.dx < 0 => game'.x >= PLAYER_X \/ game'.over
NoBallPassesThrough == [][BallMeetsPaddle]_game
=============================================================================
