INIT Init
NEXT Next
CONSTANTS
    Letters = {"echo", "a", "b", "x", "y", "z", "c", "f", "E", "IFS", "HOME", "if", "then", "else", "fi", "while", "until", "do", "done", "for", "in", "case", "esac"}
    SpecialBuiltins = {}
    HighBytes = {}
    Width = 8
    NoHome <- MCNoHome
    Output <- MCOutput
    Home <- MCHome
    CharOrder <- MCOrder
    Body <- MCBody
    BothSides <- MCBothSides
    Families = {"subredir"}
INVARIANT RedirsMean
CHECK_DEADLOCK FALSE
