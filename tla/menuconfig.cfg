SPECIFICATION Spec
CONSTANTS
    SymType <- MCSymType
    Literals <- MCLiterals
    Number <- MCNumber
    NaN <- MCNaN
    Rank <- MCRank
    Calc <- CalcSymbol
    Text <- MCText
    Plain <- MCPlain
    Chars <- MCChars
    Trees <- MCTrees
    Parse <- ConfParse
    Starts <- MCStarts
    HalfWord = 64
    ModulesSym = "MODULES"
    None = None
    Absent = Absent
    AllSymbols <- MCAllSymbols
    Auto = {}
    AllNoY = {}
    FrontEnds = {"mconf", "nconf"}
    Typed = {"", "2", "12", "0x4", "c"}
    Alternates = {"other"}
    MaxScreens = 1
    MaxChanges = 2
INVARIANTS
    CacheFresh
    AcceptedTakes
    ValuesAllowed
    MenusAsWritten
    NoSilentLoss
    NextStartAgrees
