SPECIFICATION DSpec
CONSTANTS
    FS_MAX_FILES = 6
    FS_MAX_DATA = 3
    WHOLE_DATA = 1
    FS_MAX_PATH = 13
    FS_MAX_NAME = 11
    MaxFaults = 1
    Strings <- MCStrings
    UserPaths <- MCPaths
    Scraps <- MCScraps
    Texts <- MCTexts
    Events = {"shutdown", "power_loss", "write_error"}
INVARIANTS
    Durable
    MoveKeeps
