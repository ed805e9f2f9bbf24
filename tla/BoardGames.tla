----------------------------- MODULE BoardGames -----------------------------
(***************************************************************************)
(* The display framework of the games and the games in which one thing     *)
(* moves over a court or a board: a ball, a snake, a piece, a cursor.  A   *)
(* process plays one of them.                                              *)
(*                                                                         *)
(* The constants of a game are explained in its module.  Two games share   *)
(* one that means the same, and has the same size in the instances that    *)
(* are checked; the theorems about a game speak of its own constants only. *)
(***************************************************************************)
EXTENDS AtomicFlip, Sequences, FiniteSets

CONSTANTS
    \* Breaker
    WIDTH, HEIGHT, PADDLE_HALF, PADDLE_Y, BRICKS, MAX_LIVES, MaxLevel,
    \* Breakout
    BREAKOUT_HEIGHT, PADDLE_WIDTH, LIVES,
    \* Pong
    PONG_WIDTH, PONG_HEIGHT, PLAYER_X, AI_X, PADDLE_W, PADDLE_H, AI_SPEED,
    AI_RALLY, AI_MAX_SPEED, BALL_SPEED_INIT, BALL_SPEED_INC, BALL_MAX_SPEED,
    SERVE, WIN_SCORE, MaxRally,
    \* Whack
    HOLES, RISE_TIME, MOLE_UP_TIME, STUN_TIME, GAME_TIME, MORE_MOLES, MaxLate,
    \* Snake
    GRID_W, GRID_H, SNAKE_MAX_LEN, INITIAL_SNAKE_LEN, GAME_SPEED_INITIAL,
    GAME_SPEED_MIN, SPEED_UP, MaxScore,
    \* Puzzle
    PUZZLE_W, PUZZLE_H, GEM_TYPES, MIN_MATCH, ANIM_SWAP_FRAMES, MATCH_FRAMES,
    \* Tetris
    BOARD_WIDTH, BOARD_HEIGHT, SHAPES, INITIAL_DROP_FRAMES, MIN_DROP_FRAMES,
    DROP_STEP, LINES_PER_LEVEL, DAS_DELAY, DAS_PERIOD, MaxLines, MaxEvents

VARIABLES game, read

Breaker == INSTANCE Breaker
Breakout == INSTANCE Breakout WITH HEIGHT <- BREAKOUT_HEIGHT
Pong == INSTANCE Pong WITH WIDTH <- PONG_WIDTH, HEIGHT <- PONG_HEIGHT
Whack == INSTANCE Whack
Snake == INSTANCE Snake
Puzzle == INSTANCE Puzzle WITH GRID_W <- PUZZLE_W, GRID_H <- PUZZLE_H
Tetris == INSTANCE Tetris

-----------------------------------------------------------------------------
(* What a game needs of its constants: true of the source's (for Flappy on *)
(* a screen its table has pipes for), and of every instance checked.       *)
BreakerCourt ==
    /\ WIDTH \in Nat /\ HEIGHT \in Nat /\ PADDLE_HALF \in Nat
    /\ 2 * PADDLE_HALF < WIDTH /\ PADDLE_Y \in 1..HEIGHT
    /\ IsFiniteSet(BRICKS) /\ BRICKS # {} /\ MAX_LIVES \in Nat \ {0}

BreakoutCourt ==
    /\ WIDTH \in Nat /\ BREAKOUT_HEIGHT \in Nat /\ PADDLE_WIDTH \in 1..WIDTH /\ PADDLE_Y \in 1..BREAKOUT_HEIGHT
    /\ IsFiniteSet(BRICKS) /\ BRICKS # {} /\ LIVES \in Nat \ {0} /\ MaxLevel \in Nat \ {0}

PongCourt ==
    /\ PONG_WIDTH \in Nat /\ PONG_HEIGHT \in Nat \ {0} /\ PADDLE_H \in 0..PONG_HEIGHT /\ PADDLE_W \in Nat
    /\ PLAYER_X \in Nat /\ AI_X \in Nat /\ PLAYER_X + PADDLE_W < PONG_WIDTH \div 2 /\ PLAYER_X <= AI_X
    /\ AI_SPEED \in Nat /\ AI_MAX_SPEED \in Nat /\ AI_RALLY \in Nat \ {0}
    /\ BALL_SPEED_INIT \in 1..BALL_MAX_SPEED /\ BALL_SPEED_INC \in Nat
    /\ BALL_MAX_SPEED \in 1..(PADDLE_W + 1)
    /\ SERVE \in Nat /\ WIN_SCORE \in Nat \ {0}

WhackField ==
    /\ IsFiniteSet(HOLES) /\ RISE_TIME \in Nat \ {0} /\ MOLE_UP_TIME \in Nat
    /\ STUN_TIME \in Nat /\ GAME_TIME \in Nat /\ MORE_MOLES \in Nat \ {0} /\ MaxLate \in Nat

SnakeGrid ==
    /\ GRID_W \in Nat \ {0} /\ GRID_H \in Nat \ {0} /\ SNAKE_MAX_LEN \in Nat
    /\ INITIAL_SNAKE_LEN \in 1..SNAKE_MAX_LEN /\ INITIAL_SNAKE_LEN <= GRID_W \div 2 + 1
    /\ GAME_SPEED_INITIAL \in Nat /\ GAME_SPEED_MIN \in 0..GAME_SPEED_INITIAL
    /\ SPEED_UP \in Nat \ {0} /\ SPEED_UP % 10 = 0

PuzzleBoard ==
    /\ PUZZLE_W \in Nat /\ PUZZLE_H \in Nat /\ GEM_TYPES \in Nat
    /\ ANIM_SWAP_FRAMES \in Nat /\ MATCH_FRAMES \in Nat

TetrisWell ==
    /\ BOARD_WIDTH \in Nat \ {0} /\ BOARD_HEIGHT \in Nat \ {0}
    /\ INITIAL_DROP_FRAMES \in Nat /\ MIN_DROP_FRAMES \in 0..INITIAL_DROP_FRAMES
    /\ DROP_STEP \in Nat /\ LINES_PER_LEVEL \in Nat \ {0}
    /\ DAS_DELAY \in Nat /\ DAS_PERIOD \in Nat \ {0} /\ MaxEvents \in Nat

(* Every piece has cells, and a new one fits in the empty well.            *)
TetrisShapes ==
    \A t \in Tetris!Types :
       /\ \A r \in 0..3 : /\ SHAPES[t][r] # {} /\ IsFiniteSet(SHAPES[t][r])
                          /\ SHAPES[t][r] \subseteq Nat \X Nat
       /\ \A s \in SHAPES[t][0] : /\ s[1] - 1 < BOARD_HEIGHT
                                  /\ BOARD_WIDTH \div 2 - 2 + s[2] \in Tetris!Cols

ASSUME BoardCourts ==
    /\ BreakerCourt /\ BreakoutCourt /\ PongCourt /\ WhackField
    /\ SnakeGrid /\ PuzzleBoard /\ TetrisWell /\ TetrisShapes
=============================================================================
