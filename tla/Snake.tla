------------------------------- MODULE Snake -------------------------------
(***************************************************************************)
(* The rules of drm-snake.c.  A pass of the main loop handles the events   *)
(* that came in (Turn by a key or a swipe, Space, Pause), one by one, then *)
(* updates the game.  Left out: drawing, and where on the screen a swipe   *)
(* began: more than 30 pixels along an axis act like the arrow key.        *)
(***************************************************************************)
EXTENDS Integers, Sequences, FiniteSets

CONSTANTS
    GRID_W, GRID_H,
    SNAKE_MAX_LEN, INITIAL_SNAKE_LEN,
    GAME_SPEED_INITIAL, GAME_SPEED_MIN, \* passes between two moves
    SPEED_UP,                           \* 50: points between two speeds
    MaxScore                            \* bound: points in one game

VARIABLE game

Grid == (0..(GRID_W - 1)) \X (0..(GRID_H - 1))

Dirs == {"up", "down", "left", "right"}
Opposite == [up |-> "down", down |-> "up", left |-> "right", right |-> "left"]
Vector == [up |-> <<0, -1>>, down |-> <<0, 1>>,
           left |-> <<-1, 0>>, right |-> <<1, 0>>]

Body(s) == {s[i] : i \in DOMAIN s}

Centered == [i \in 1..INITIAL_SNAKE_LEN |->
                <<GRID_W \div 2 - (i - 1), GRID_H \div 2>>]

(* place_food: rand() until the cell is in no segment.                     *)
FoodCells(s) == Grid \ Body(s)

game_init(food) ==
    [snake |-> Centered, dir |-> "right", next_dir |-> "right", food |-> food,
     score |-> 0, high_score |-> 0, speed |-> GAME_SPEED_INITIAL,
     frame_counter |-> 0, paused |-> FALSE, over |-> FALSE]

-----------------------------------------------------------------------------
(* input_process                                                           *)
Turn(d) == /\ game.dir # Opposite[d]
           /\ game' = [game EXCEPT !.next_dir = d]

(* The food stays where it is.                                             *)
Restart == /\ game.over
           /\ game' = [game EXCEPT !.over = FALSE, !.score = 0,
                          !.snake = Centered, !.speed = GAME_SPEED_INITIAL,
                          !.dir = "right", !.next_dir = "right"]

Unpause == /\ ~game.over /\ game.paused
           /\ game' = [game EXCEPT !.paused = FALSE]

Pause == ~game.over /\ game' = [game EXCEPT !.paused = ~@]

-----------------------------------------------------------------------------
(* game_update                                                             *)
NewHead(s, d) == <<s[1][1] + Vector[d][1], s[1][2] + Vector[d][2]>>

Hits(s, head) == head \notin Grid \/ head \in Body(s)

Die(g) == [g EXCEPT !.over = TRUE,
                    !.high_score = IF g.score > @ THEN g.score ELSE @]

(* The body follows; the first segment is set last of all.                 *)
Shift(s) == [i \in DOMAIN s |-> IF i = 1 THEN s[1] ELSE s[i - 1]]

Grow(s) == IF Len(s) < SNAKE_MAX_LEN THEN <<s[1]>> \o s ELSE Shift(s)

WithHead(s, head) == [s EXCEPT ![1] = head]

(* The cell of the new food is chosen before the head is in its place.     *)
Eat(g, head) ==
    LET grown == Grow(g.snake)
        score == g.score + 10
    IN  {[g EXCEPT !.snake = WithHead(grown, head), !.score = score,
                   !.speed = IF @ > GAME_SPEED_MIN /\ score % SPEED_UP = 0
                             THEN @ - 1 ELSE @,
                   !.food = f] : f \in FoodCells(grown)}

Step(g) ==
    LET head == NewHead(g.snake, g.dir)
    IN  IF Hits(g.snake, head) THEN {Die(g)}
        ELSE IF head = g.food THEN Eat(g, head)
        ELSE {[g EXCEPT !.snake = WithHead(Shift(@), head)]}

game_update(g) ==
    IF g.paused \/ g.over THEN {g}
    ELSE IF g.frame_counter + 1 < g.speed
    THEN {[g EXCEPT !.frame_counter = @ + 1]}
    ELSE Step([g EXCEPT !.frame_counter = 0, !.dir = g.next_dir])

Update == game.score < MaxScore /\ game' \in game_update(game)

Init == \E f \in FoodCells(Centered) : game = game_init(f)
Next == \/ \E d \in Dirs : Turn(d)
        \/ Restart \/ Unpause \/ Pause \/ Update
Spec == Init /\ [][Next]_game

-----------------------------------------------------------------------------
TypeOK ==
    /\ game.snake \in Seq(Grid) /\ game.food \in Grid
    /\ game.dir \in Dirs /\ game.next_dir \in Dirs
    /\ {game.score, game.high_score, game.speed, game.frame_counter} \subseteq Nat

(* The segments are a path that does not cross itself: moving, growing at  *)
(* and below the longest length, dying and restarting keep them together.  *)
Adjacent(p, q) == (p[1] - q[1]) * (p[1] - q[1]) + (p[2] - q[2]) * (p[2] - q[2]) = 1

BodyIsPath ==
    /\ Cardinality(Body(game.snake)) = Len(game.snake)
    /\ \A i \in 1..Len(game.snake) - 1 : Adjacent(game.snake[i], game.snake[i + 1])

(* Several turns within one move never send the head back into the neck.   *)
NeverReverses == game.next_dir # Opposite[game.dir]

(* Length and speed are those of the points of this game.                  *)
LengthOfScore ==
    LET grown == INITIAL_SNAKE_LEN + game.score \div 10
        speed == GAME_SPEED_INITIAL - game.score \div SPEED_UP
    IN  /\ Len(game.snake) = IF grown < SNAKE_MAX_LEN THEN grown ELSE SNAKE_MAX_LEN
        /\ game.speed = IF speed > GAME_SPEED_MIN THEN speed ELSE GAME_SPEED_MIN
=============================================================================
