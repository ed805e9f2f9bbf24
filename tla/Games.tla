------------------------------- MODULE Games -------------------------------
(***************************************************************************)
(* The suite of the 16 games: the display framework they share, the games  *)
(* of BoardGames, and those that go through a table of objects in every    *)
(* pass.  The first state picks one of GAMES, which is then played: they   *)
(* share no state, and the framework takes what the rules compute as one   *)
(* frame after the other.                                                  *)
(***************************************************************************)
EXTENDS BoardGames

CONSTANTS
    GAMES,  \* the games that can be picked
    \* Catch
    COLUMNS, SCREEN_H, BASKET_ROWS, MAX_FALLING_OBJS, SPEEDS, SPAWN_INTERVAL,
    SPAWN_STEP, SPAWN_MIN, LEVEL_SCORE, MaxFruits,
    \* Racing
    ROAD, LANES, PLAYER_Y, CAR_HEIGHT, MAX_ENEMIES, SCROLL_SPEED_INIT,
    SCROLL_SPEED_MIN, SCROLL_SPEED_MAX, MaxAhead,
    \* Platformer
    PLATFORMS, COINS, START, MIN_X, MAX_X, BOTTOM, GRAVITY, JUMP_FORCE,
    MAX_FALL_SPEED, SLACK,
    \* Asteroids
    MAX_BULLETS, BULLET_LIFE, FIRE_COOLDOWN, MAX_ASTEROIDS, RESPAWN,
    WAVE_BASE, MaxWave,
    \* Ninja
    MAX_FRUITS, FLIGHT, SLICED, FRUIT_SCORE, COMBO_BONUS, NINJA_SPEED_UP,
    MAX_MISSES, NinjaMaxScore,
    \* Shooter
    SHIP_Y, SHOOTER_COOLDOWN, LEVEL_KILLS, MaxKills,
    \* Tower
    CELLS, REACH, PATH_END, MAX_TOWERS, MAX_PROJECTILES, NORMAL_HP, TANK_HP,
    SLOW, FAST, TOWER_COST, ENEMY_REWARD, STARTING_GOLD, STARTING_LIVES,
    FIRST_WAVE, TOWER_WAVE_BASE, WAVE_STEP, PAUSE, TowerMaxLate,
    \* Flappy
    FLAPPY_SCREEN_W, GROUND_Y, BIRD_X_POS, FLAP_VELOCITY, FLAPPY_FALL_SPEED,
    PIPE_WIDTH, PIPE_GAP, PIPE_SPACING, MAX_PIPES, GAPS, FIRST_PIPES, DEATH,
    FlappyMaxScore,
    \* Invaders
    SCREEN_W, SHIP_WIDTH, ALIEN_ROWS, ALIEN_COLS, ALIEN_WIDTH, ALIEN_HEIGHT,
    ALIEN_SPACING_X, ALIEN_SPACING_Y, START_X, START_Y, EDGE,
    ALIEN_MOVE_SPEED, ALIEN_DROP_AMOUNT, ALIEN_INITIAL_DELAY, ALIEN_MIN_DELAY,
    LEVEL_STEP, BULLET_SPEED, ALIEN_BULLET_SPEED, INVADERS_BULLETS,
    MAX_ALIEN_BULLETS, SHIELD, INVADERS_LIVES, InvadersMaxLevel, MaxDrop

VARIABLE sel        \* the game that is played
allVars == <<sel, game, read, vars>>

(* The framework when no call fails, and when no vertical blank is late    *)
(* either.                                                                 *)
Late == INSTANCE AtomicFlip WITH IoctlMayFail <- FALSE
Reliable == INSTANCE AtomicFlip WITH MayTimeOut <- FALSE, IoctlMayFail <- FALSE
Framework == {"flip", "late", "reliable"}
NoGame == [none |-> 0]

Catch == INSTANCE Catch WITH WIDTH <- COLUMNS, HEIGHT <- SCREEN_H
Racing == INSTANCE Racing
Platformer == INSTANCE Platformer
Asteroids == INSTANCE Asteroids
Ninja == INSTANCE Ninja WITH
    SPEED_UP <- NINJA_SPEED_UP, MaxScore <- NinjaMaxScore
Shooter == INSTANCE Shooter WITH
    WIDTH <- COLUMNS, FIRE_COOLDOWN <- SHOOTER_COOLDOWN
Tower == INSTANCE Tower WITH
    MaxLate <- TowerMaxLate, WAVE_BASE <- TOWER_WAVE_BASE
Flappy == INSTANCE Flappy WITH
    SCREEN_W <- FLAPPY_SCREEN_W, MAX_FALL_SPEED <- FLAPPY_FALL_SPEED,
    MaxScore <- FlappyMaxScore
Invaders == INSTANCE Invaders WITH
    LIVES <- INVADERS_LIVES, MAX_BULLETS <- INVADERS_BULLETS,
    MaxLevel <- InvadersMaxLevel

-----------------------------------------------------------------------------
(* What a game needs of its constants, as in BoardGames.                   *)
CatchCourt ==
    /\ COLUMNS \in Nat \ {0} /\ SCREEN_H \in Nat /\ MAX_FALLING_OBJS \in Nat
    /\ SPEEDS \subseteq Nat /\ SPAWN_INTERVAL \in Nat /\ LEVEL_SCORE \in Nat \ {0}
    /\ MAX_LIVES \in Nat \ {0} /\ MaxLate \in Nat

RacingCourt ==
    /\ ROAD \in Nat \ {0} /\ LANES \subseteq Int /\ SCREEN_H \in Nat /\ CAR_HEIGHT \in Nat
    /\ MAX_ENEMIES \in Nat /\ LIVES \in Nat \ {0} /\ MaxAhead \in Nat /\ PLAYER_Y \in Nat
    /\ SCROLL_SPEED_MIN \in Nat /\ SCROLL_SPEED_MAX \in Nat
    /\ SCROLL_SPEED_INIT \in SCROLL_SPEED_MIN..SCROLL_SPEED_MAX

(* Where a player begins is not inside the ground, and no platform lies    *)
(* where players are lost.                                                 *)
PlatformerTable ==
    /\ PLATFORMS \in Seq([x : Int, w : Nat, y : Int, h : Nat]) /\ Len(PLATFORMS) > 0
    /\ \A i \in DOMAIN PLATFORMS : PLATFORMS[i].y <= BOTTOM
    /\ START[2] <= PLATFORMS[1].y

PlatformerCourt ==
    /\ PlatformerTable
    /\ MIN_X \in Int /\ MAX_X \in Int /\ BOTTOM \in Int /\ GRAVITY \in Nat /\ SLACK \in Nat
    /\ START[1] \in MIN_X..MAX_X /\ START[2] \in Int
    /\ JUMP_FORCE \in Int /\ JUMP_FORCE <= 0 /\ MAX_FALL_SPEED \in Nat /\ LIVES \in Nat \ {0}

AsteroidsCourt ==
    /\ MAX_BULLETS \in Nat /\ BULLET_LIFE \in Nat /\ FIRE_COOLDOWN \in Nat
    /\ MAX_ASTEROIDS \in Nat /\ MAX_ASTEROIDS > 1 /\ RESPAWN \in Nat \ {0}
    /\ LIVES \in Nat \ {0} /\ WAVE_BASE \in Nat /\ MaxWave \in Nat \ {0}

NinjaCourt ==
    /\ MAX_FRUITS \in Nat /\ FLIGHT \in Nat /\ SLICED \in Nat /\ MAX_MISSES \in Nat \ {0}
    /\ SPAWN_INTERVAL \in Nat /\ SPAWN_MIN \in 0..SPAWN_INTERVAL
    /\ FRUIT_SCORE \in Nat /\ COMBO_BONUS \in Nat /\ NINJA_SPEED_UP \in Nat \ {0}

ShooterCourt ==
    /\ COLUMNS \in Nat \ {0} /\ SCREEN_H \in Nat /\ SHIP_Y \in Nat /\ MAX_BULLETS \in Nat
    /\ MAX_ENEMIES \in Nat /\ SPEEDS \subseteq Nat /\ LEVEL_KILLS \in Nat \ {0}
    /\ MAX_LIVES \in Nat \ {0}

TowerCourt ==
    /\ PATH_END \in Nat \ {0} /\ MAX_ENEMIES \in Nat /\ MAX_TOWERS \in Nat
    /\ MAX_PROJECTILES \in Nat /\ NORMAL_HP \in Int /\ TANK_HP \in Int
    /\ SLOW \in Nat /\ FAST \in Nat /\ TOWER_COST \in Nat /\ ENEMY_REWARD \in Nat
    /\ STARTING_GOLD \in Nat /\ STARTING_LIVES \in Nat \ {0}
    /\ FIRST_WAVE \in Nat /\ TOWER_WAVE_BASE \in Nat /\ WAVE_STEP \in Nat

(* The table has room for the pipes of a screen: the source's 8 pipes, 200 *)
(* apart and 50 wide, have it on a screen of up to 1500 pixels.             *)
FlappyScreen ==
    /\ FLAPPY_SCREEN_W \in Nat /\ GROUND_Y \in Nat /\ BIRD_X_POS \in 0..FLAPPY_SCREEN_W
    /\ GRAVITY \in Nat /\ FLAP_VELOCITY \in Int /\ FLAPPY_FALL_SPEED \in Nat /\ FLAP_VELOCITY <= 0
    /\ PIPE_WIDTH \in 1..PIPE_SPACING /\ PIPE_SPACING \in 1..FLAPPY_SCREEN_W
    /\ MAX_PIPES \in Nat /\ PIPE_SPACING * MAX_PIPES >= FLAPPY_SCREEN_W + 2 * PIPE_WIDTH
    /\ FIRST_PIPES \in 1..MAX_PIPES /\ GAPS \subseteq Int /\ DEATH \in Nat

InvadersScreen ==
    /\ SCREEN_W \in Nat /\ SCREEN_H \in Int /\ SHIP_WIDTH \in 0..SCREEN_W /\ SHIP_Y \in Int
    /\ ALIEN_ROWS \in Nat \ {0} /\ ALIEN_COLS \in Nat \ {0}
    /\ ALIEN_WIDTH \in Nat /\ ALIEN_HEIGHT \in Nat
    /\ ALIEN_SPACING_X \in Nat /\ ALIEN_SPACING_Y \in Nat
    /\ START_X \in Nat /\ START_Y \in Int
    /\ START_X + (ALIEN_COLS - 1) * ALIEN_SPACING_X + ALIEN_WIDTH <= SCREEN_W
    /\ EDGE \in Nat /\ ALIEN_MOVE_SPEED \in 0..(EDGE + 1) /\ ALIEN_DROP_AMOUNT \in Int
    /\ ALIEN_INITIAL_DELAY \in Nat /\ ALIEN_MIN_DELAY \in 0..ALIEN_INITIAL_DELAY
    /\ LEVEL_STEP \in Nat /\ BULLET_SPEED \in Int /\ ALIEN_BULLET_SPEED \in Int
    /\ INVADERS_BULLETS \in Nat /\ MAX_ALIEN_BULLETS \in Nat /\ INVADERS_LIVES \in Nat \ {0}

ASSUME TableCourts ==
    /\ CatchCourt /\ RacingCourt /\ PlatformerCourt /\ AsteroidsCourt
    /\ NinjaCourt /\ ShooterCourt /\ TowerCourt /\ FlappyScreen
    /\ InvadersScreen

-----------------------------------------------------------------------------
GamesInit ==
    /\ Init
    /\ sel \in GAMES
    /\ \/ sel = "breaker" /\ Breaker!Init
       \/ sel = "breakout" /\ Breakout!Init
       \/ sel = "pong" /\ Pong!Init
       \/ sel = "whack" /\ Whack!Init
       \/ sel = "snake" /\ Snake!Init
       \/ sel = "puzzle" /\ Puzzle!Init
       \/ sel = "tetris" /\ Tetris!Init
       \/ sel = "catch" /\ Catch!Init
       \/ sel = "racing" /\ Racing!Init
       \/ sel = "platformer" /\ Platformer!Init
       \/ sel = "asteroids" /\ Asteroids!Init
       \/ sel = "ninja" /\ Ninja!Init
       \/ sel = "shooter" /\ Shooter!Init
       \/ sel = "tower" /\ Tower!Init
       \/ sel = "flappy" /\ Flappy!Init
       \/ sel = "invaders" /\ Invaders!Init
       \/ sel \in Framework /\ game = NoGame
    /\ sel # "tetris" => read = 0

PlayTetris == sel = "tetris" /\ Tetris!Next /\ UNCHANGED <<sel, vars>>

Play ==
    /\ \/ sel = "whack" /\ Whack!Next
       \/ sel = "snake" /\ Snake!Next
       \/ sel = "invaders" /\ Invaders!Next
       \/ sel = "puzzle" /\ Puzzle!Next
       \/ sel = "asteroids" /\ Asteroids!Next
       \/ sel = "breaker" /\ Breaker!Next
       \/ sel = "breakout" /\ Breakout!Next
       \/ sel = "catch" /\ Catch!Next
       \/ sel = "flappy" /\ Flappy!Next
       \/ sel = "ninja" /\ Ninja!Next
       \/ sel = "pong" /\ Pong!Next
       \/ sel = "racing" /\ Racing!Next
       \/ sel = "shooter" /\ Shooter!Next
       \/ sel = "tower" /\ Tower!Next
       \/ sel = "platformer" /\ Platformer!Next
    /\ UNCHANGED <<sel, read, vars>>

ShowFrames ==
    /\ \/ sel = "flip" /\ Next
       \/ sel = "late" /\ Late!Next
       \/ sel = "reliable" /\ Reliable!Next
    /\ UNCHANGED <<sel, game, read>>

GamesNext == PlayTetris \/ Play \/ ShowFrames
GamesSpec == GamesInit /\ [][GamesNext]_allVars

(* The fairness of FairSpec, for the framework without failures.           *)
Loop ==
    /\ \/ sel = "late" /\ Late!App
       \/ sel = "reliable" /\ Reliable!App
    /\ UNCHANGED <<sel, game, read>>
Blanking == sel \in {"late", "reliable"} /\ VBlank /\ UNCHANGED <<sel, game, read>>
FairGamesSpec == GamesSpec /\ WF_allVars(Loop) /\ WF_allVars(Blanking)

-----------------------------------------------------------------------------
(* Every program keeps its state in the ranges its tables have room for.   *)
GamesTypeOK ==
    /\ sel = "whack" => Whack!TypeOK
    /\ sel = "tetris" => Tetris!TypeOK
    /\ sel = "snake" => Snake!TypeOK
    /\ sel = "invaders" => Invaders!TypeOK
    /\ sel = "puzzle" => Puzzle!TypeOK
    /\ sel = "asteroids" => Asteroids!TypeOK
    /\ sel = "breaker" => Breaker!TypeOK
    /\ sel = "breakout" => Breakout!TypeOK
    /\ sel = "catch" => Catch!TypeOK
    /\ sel = "flappy" => Flappy!TypeOK
    /\ sel = "ninja" => Ninja!TypeOK
    /\ sel = "pong" => Pong!TypeOK
    /\ sel = "racing" => Racing!TypeOK
    /\ sel = "shooter" => Shooter!TypeOK
    /\ sel = "tower" => Tower!TypeOK
    /\ sel = "platformer" => Platformer!TypeOK
    /\ TypeOK

(* What lies on the board stays whole through every order of keys, falls   *)
(* and matches: the piece of Tetris on free cells and its locked cells     *)
(* accounted for, the gems settled when it is the player's turn, the snake *)
(* a path that does not cross itself, the invaders inside the screen.      *)
BoardsWhole ==
    /\ sel = "tetris" => Tetris!PieceFits /\ Tetris!BoardAccount
    /\ sel = "puzzle" => Puzzle!BoardSettled /\ Puzzle!SelectionStill
    /\ sel = "snake" => Snake!BodyIsPath /\ Snake!NeverReverses
    /\ sel = "invaders" => Invaders!FormationInside

(* Scores, levels, speeds and gold are those of what happened in this game:*)
(* nothing is counted twice or lost when several things happen in one pass *)
(* (game_update of each game).                                             *)
ScoresTrue ==
    /\ sel = "whack" => Whack!HitOncePerAppearance
    /\ sel = "tetris" => Tetris!SpeedOfLevel
    /\ sel = "snake" => Snake!LengthOfScore
    /\ sel = "catch" => Catch!LevelOfFruits
    /\ sel = "flappy" => Flappy!CountedOnce
    /\ sel = "ninja" => Ninja!ComboCounted
    /\ sel = "pong" => Pong!SpeedOfRally
    /\ sel = "shooter" => Shooter!LevelOfKills
    /\ sel = "tower" => Tower!GoldAccount
    /\ sel = "platformer" => Platformer!CoinsOnce

(* A game ends when and only when its rules say so, also when the last     *)
(* life and the last opponent go in one pass, and one that goes on always  *)
(* has something left to play for.                                         *)
EndsRightly ==
    /\ sel = "invaders" => Invaders!EndExplained
    /\ sel = "asteroids" => Asteroids!ShipAccounted /\ Asteroids!WaveGoesOn
    /\ sel = "breaker" => Breaker!GameGoesOn
    /\ sel = "breakout" => Breakout!GameGoesOn
    /\ sel = "catch" => Catch!EndsWithLives
    /\ sel = "ninja" => Ninja!EndsWithMisses
    /\ sel = "pong" => Pong!WonByOne
    /\ sel = "racing" => Racing!OverWithLives
    /\ sel = "tower" => Tower!WaveAccount

(* What meets in a pass is seen in that pass, however fast things move and *)
(* in whatever order the tables are walked, and what should come comes;    *)
(* no step is so long that the ball passes through a paddle in play, or    *)
(* the player through the ground.                                          *)
Seen ==
    /\ sel = "whack" => Whack!MolesBounded
    /\ sel = "breaker" => Breaker!BallOnPaddle
    /\ sel = "breakout" => Breakout!BallInCourt
    /\ sel = "catch" => Catch!NothingFallsThrough
    /\ sel = "flappy" => Flappy!PipesEven
    /\ sel = "shooter" => Shooter!NoHitMissed
    /\ sel = "platformer" => Platformer!StandsOnSomething

NothingMissed ==
    [][/\ Seen /\ Seen'
       /\ sel = "pong" => Pong!BallMeetsPaddle
       /\ sel = "platformer" => Platformer!GroundHolds]_game

(* When no call fails and blanks come in time, every frame gets to the     *)
(* screen while the game goes on (drm_atomic_flip, drm_wait_flip).         *)
ReliableFrameShown == sel = "reliable" => Reliable!EveryFrameShown

(* When no call fails, a request to quit ends the program and leaves the   *)
(* screen as it was found, however late the blanks come: drm_cleanup may   *)
(* begin with a commit still pending and events unread.                    *)
QuitRestores ==
    /\ sel = "late" => Late!QuitTerminates /\ []Late!ScreenRestored
    /\ sel = "reliable" => Reliable!QuitTerminates /\ []Reliable!ScreenRestored
=============================================================================
