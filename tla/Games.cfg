SPECIFICATION FairGamesSpec
CONSTANTS
  GAMES = {"whack", "tetris", "snake", "invaders", "puzzle", "asteroids", "breaker", "breakout",
           "catch", "flappy", "ninja", "pong", "racing", "shooter", "tower", "platformer",
           "flip", "late", "reliable"}
  NUM_BUFFERS = 3
  MaxFrames = 6
  MayTimeOut = TRUE
  IoctlMayFail = TRUE
  \* Breaker
  WIDTH = 4  HEIGHT = 4  PADDLE_HALF = 1  PADDLE_Y = 3  BRICKS <- Bricks  MAX_LIVES = 2
  MaxLevel = 3
  \* Breakout
  BREAKOUT_HEIGHT = 5  PADDLE_WIDTH = 2  LIVES = 2
  \* Pong
  PONG_WIDTH = 6  PONG_HEIGHT = 3  PLAYER_X = 1  AI_X = 5  PADDLE_W = 1  PADDLE_H = 1
  AI_SPEED = 1  AI_RALLY = 2  AI_MAX_SPEED = 2  BALL_SPEED_INIT = 1  BALL_SPEED_INC = 1
  BALL_MAX_SPEED = 2  SERVE = 1  WIN_SCORE = 2  MaxRally = 4
  \* Whack
  HOLES = {1, 2}  RISE_TIME = 2  MOLE_UP_TIME = 2  STUN_TIME = 1  GAME_TIME = 9
  MORE_MOLES = 3  MaxLate = 2
  \* Snake
  GRID_W = 4  GRID_H = 3  SNAKE_MAX_LEN = 4  INITIAL_SNAKE_LEN = 2  GAME_SPEED_INITIAL = 2
  GAME_SPEED_MIN = 1  SPEED_UP = 20  MaxScore = 30
  \* Puzzle
  PUZZLE_W = 3  PUZZLE_H = 3  GEM_TYPES = 2  MIN_MATCH = 3  ANIM_SWAP_FRAMES = 1
  MATCH_FRAMES = 1
  \* Tetris
  BOARD_WIDTH = 4  BOARD_HEIGHT = 3  SHAPES <- Shapes  INITIAL_DROP_FRAMES = 2
  MIN_DROP_FRAMES = 1  DROP_STEP = 1  LINES_PER_LEVEL = 1  DAS_DELAY = 1  DAS_PERIOD = 1
  MaxLines = 2  MaxEvents = 2
  \* Catch
  COLUMNS = 2  SCREEN_H = 4  BASKET_ROWS = {2, 3}  MAX_FALLING_OBJS = 2  SPEEDS = {1, 2}
  SPAWN_INTERVAL = 2  SPAWN_STEP = 1  SPAWN_MIN = 1  LEVEL_SCORE = 2  MaxFruits = 4
  \* Racing
  ROAD = 3  LANES = {0, 2}  PLAYER_Y = 3  CAR_HEIGHT = 1  MAX_ENEMIES = 2
  SCROLL_SPEED_INIT = 2  SCROLL_SPEED_MIN = 1  SCROLL_SPEED_MAX = 3  MaxAhead = 2
  \* Platformer
  PLATFORMS <- Platforms  COINS <- Coins  START <- Begin  MIN_X <- Leftmost  MAX_X = 4
  BOTTOM = 7  GRAVITY = 1  JUMP_FORCE <- Jump  MAX_FALL_SPEED = 2  SLACK = 0
  \* Asteroids
  MAX_BULLETS = 2  BULLET_LIFE = 2  FIRE_COOLDOWN = 1  MAX_ASTEROIDS = 4  RESPAWN = 2
  WAVE_BASE = 0  MaxWave = 3
  \* Ninja
  MAX_FRUITS = 2  FLIGHT = 2  SLICED = 1  FRUIT_SCORE = 2  COMBO_BONUS = 1
  NINJA_SPEED_UP = 4  MAX_MISSES = 3  NinjaMaxScore = 9
  \* Shooter
  SHIP_Y = 3  SHOOTER_COOLDOWN = 2  LEVEL_KILLS = 2  MaxKills = 3
  \* Tower
  CELLS = {1, 2}  REACH <- Reach  PATH_END = 3  MAX_TOWERS = 2  MAX_PROJECTILES = 2
  NORMAL_HP = 1  TANK_HP = 0  SLOW = 1  FAST = 2  TOWER_COST = 2  ENEMY_REWARD = 1
  STARTING_GOLD = 3  STARTING_LIVES = 2  FIRST_WAVE = 2  TOWER_WAVE_BASE = 1  WAVE_STEP = 1
  PAUSE = 3  TowerMaxLate = 1
  \* Flappy
  FLAPPY_SCREEN_W = 5  GROUND_Y = 5  BIRD_X_POS = 2  FLAP_VELOCITY <- Flap
  FLAPPY_FALL_SPEED = 1  PIPE_WIDTH = 1  PIPE_GAP = 2  PIPE_SPACING = 3  MAX_PIPES = 4
  GAPS = {2, 3}  FIRST_PIPES = 3  DEATH = 1  FlappyMaxScore = 3
  \* Invaders
  SCREEN_W = 4  SHIP_WIDTH = 1  ALIEN_ROWS = 1  ALIEN_COLS = 2  ALIEN_WIDTH = 1
  ALIEN_HEIGHT = 1  ALIEN_SPACING_X = 1  ALIEN_SPACING_Y = 1  START_X = 0  START_Y = 0
  EDGE = 0  ALIEN_MOVE_SPEED = 1  ALIEN_DROP_AMOUNT = 1  ALIEN_INITIAL_DELAY = 3
  ALIEN_MIN_DELAY = 1  LEVEL_STEP = 1  BULLET_SPEED = 1  ALIEN_BULLET_SPEED = 1
  INVADERS_BULLETS = 1  MAX_ALIEN_BULLETS = 2  SHIELD <- Shield  INVADERS_LIVES = 1
  InvadersMaxLevel = 2  MaxDrop = 4
INVARIANTS
  GamesTypeOK
  BoardsWhole
  ScoresTrue
  EndsRightly
  BackBuffersFree
  PlanesInStep
  SkipsOnlyIfLate
PROPERTIES
  NothingMissed
  ScreenForward
  ReliableFrameShown
  QuitRestores
\* Several games stop for good when they are over.
CHECK_DEADLOCK FALSE
