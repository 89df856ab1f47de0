SPECIFICATION SSpec
CONSTANTS
    FS_MAX_FILES = 7
    FS_MAX_DATA = 3
    WHOLE_DATA = 1
    FS_MAX_PATH = 9
    FS_MAX_NAME = 4
    MAX_PARTS = 3
    Strings <- MCStrings
    UserPaths = {}
    Scraps = {}
    Texts <- MCTexts
    Events = {"write_error"}
    Args <- MCArgs
    Pairs <- MCPairs
    Typed <- MCTyped
    MaxFailures = 1
INVARIANTS
    CompletionLeads
    TreeShowsAll
    OkIsDone
PROPERTIES
    PathsCompose
CHECK_DEADLOCK FALSE
