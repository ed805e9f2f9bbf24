SPECIFICATION Spec
CONSTANTS
  CELLS = {1, 2}  REACH <- Reach  PATH_END = 3  MAX_ENEMIES = 2  MAX_TOWERS = 2
  MAX_PROJECTILES = 2  NORMAL_HP = 1  TANK_HP = 0  SLOW = 1  FAST = 2  TOWER_COST = 2
  ENEMY_REWARD = 1  STARTING_GOLD = 3  STARTING_LIVES = 2  FIRST_WAVE = 2  WAVE_BASE = 1
  WAVE_STEP = 1  SPAWN_INTERVAL = 2  SPAWN_STEP = 1  SPAWN_MIN = 1  PAUSE = 3
  MaxWave = 3  MaxLate = 1
PROPERTY PauseBetweenWaves
CHECK_DEADLOCK FALSE
