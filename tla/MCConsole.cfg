\* A screen of 4 x 3 cells; functions with up to two numbers.
SPECIFICATION Spec
CONSTANTS
    COLUMNS = 4
    LINES = 3
    MEMORY = 16
    TAB = 2
    CODE_7 = 2
    CODE_8 = 3
    NPAR = 2
    BLANK = " "
    SCREEN <- FirstScreen
    CUR_POS = 9
    PRINT_TAB = 2
    PRINTED = {"p", "LF", "TAB"}
    GLYPHS = {"n"}
    DIGITS = {"1", "2", "9"}
    MAX_PAR = 9
    KEYS <- SomeKeys
    MAX_KEYS = 3
INVARIANTS
    TypeOK
    StaysOnScreen
PROPERTIES
    CursorKeysPrintNothing
    ImplementsTerminal
