SPECIFICATION HostSpec
CONSTANTS
    None = None
    Plain = Plain
    Keep = Keep
    Blank = Blank
    Stranger = "nobody"
    Users = {"root", "disk"}
    UnsafeWords = {"/usr/include"}
    CommandLines <- MCCommandLines
    Builds <- MCBuilds
    Fixed <- MCFixed
    Tables <- MCTables
    Trees <- MCTrees
    Above <- MCAbove
INVARIANTS
    ArgsFit
    CompatibleOptions
    UnsafeNotSilent
    EveryLineDone
    OnlyWhatIsNamed
    CapabilityOnItsFile
CHECK_DEADLOCK FALSE
