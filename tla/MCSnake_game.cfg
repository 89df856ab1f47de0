SPECIFICATION SnakeSpec
CONSTANTS
    GAME_WIDTH = 6
    GAME_HEIGHT = 5
    MAX_SNAKE = 12
    INPUT_TICK_MS = 2
    INITIAL_SPEED = 3
    LEAST_SPEED = 2
    SPEED_STEP = 1
    MaxStrokes = 2
INVARIANTS BodyIsPath PictureAgrees
PROPERTIES NoReversal
CHECK_DEADLOCK FALSE
