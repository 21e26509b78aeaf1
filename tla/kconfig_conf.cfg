SPECIFICATION Spec
CONSTANTS
    SymType <- MCSymType
    Literals <- MCLiterals
    Number <- MCNumber
    NaN <- MCNaN
    Rank <- MCRank
    Calc <- CalcSymbol
    Text <- MCText
    Plain <- MCPlain
    Chars <- MCChars
    Trees <- MCTrees
    Parse <- Finalize
    Starts <- MCFiles
    HalfWord = 64
    ModulesSym = "MODULES"
    None = None
    Absent = Absent
    AllSymbols <- MCAllSymbols
    Auto = {}
    AllNoY = {}
    Defconfigs <- MCDefconfigs
    Modes = {"oldaskconfig", "oldconfig", "syncconfig", "listnewconfig", "olddefconfig",
             "savedefconfig", "defconfig", "allyesconfig", "allmodconfig", "allnoconfig",
             "alldefconfig", "randconfig"}
    Typed = {"", "2", "12", "0x4", "c"}
    Picks <- MCPicks
    Packages = {"A", "M1", "N"}
    MaxRuns = 2
    MaxFaults = 1
    MayFill = TRUE
    Lists <- ListedFor
    TristateSymbols <- TristateDeclared
INVARIANTS
    ConfigSurvives
    AutoConfSound
    RoundTrip
    ModesDeliver
PROPERTIES
    ImplementsOutput
