SPECIFICATION Spec
CONSTANTS
    Width = 4
    Height = 3
    Printable <- MCPrintable
    Texts <- MCTexts
    Base = 5
    LeftZone = 2
    LeftText <- MCLeft
    RightColumn = 2
    RightZone = 2
    RightText <- MCRight
    MaxCalls = 3
INVARIANTS
    HardwareCursor
    StaysOnScreen
PROPERTIES
    ImplementsDisplay
    BannerKept
