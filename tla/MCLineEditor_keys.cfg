SPECIFICATION Spec
CONSTANTS
    Width = 5
    Height = 3
    Printable <- MCPrintable
    INPUT_SIZE = 5
    HISTORY_SIZE = 2
    Letters <- MCLetters
    Prompt <- MCPrompt
    Builtins <- MCBuiltins
    Names <- MCNames
    Outputs <- MCOutputs
    MaxKeys = 7
INVARIANTS
    DisplayMatches
PROPERTIES
    LineFits
    TailKept
