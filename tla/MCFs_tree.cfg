SPECIFICATION SteadySpec
CONSTANTS
    FS_MAX_FILES = 8
    FS_MAX_DATA = 2
    WHOLE_DATA = 1
    FS_MAX_PATH = 11
    FS_MAX_NAME = 11
    Strings <- MCStrings
    UserPaths <- MCPaths
    Scraps = {}
    Texts <- MCTexts
    Events = {}
INVARIANTS
    TableIsTree
PROPERTIES
    ImplementsFileTree
