SPECIFICATION StartSpec
CONSTANTS
    PAGE_SIZE = 2
    NB_PAGES = 9
    ENTRIES = 4
    Heaps <- MCHeaps
    WordBits = 6
    Firsts <- MCFirsts
    Seconds <- MCSeconds
    Second = 6
    Bytes = 11
    Formats <- MCFormats
    Arguments <- MCArguments
    Dividends <- MCDoubles
    Divisors <- MCDivisors
    Procs = {"p1", "p2"}
    BootTexts <- MCBootTexts
    Texts <- MCTexts
    PRINTF_BUFMAX = 3
INVARIANTS
    PagesOnce
    InterruptsReady
    StringsAnswer
    NumbersExact
    LinesWhole
CHECK_DEADLOCK FALSE
