SPECIFICATION Spec
CONSTANTS
    SymType <- MCSymType
    Literals <- MCLiterals
    Number <- MCNumber
    NaN <- MCNaN
    Rank <- MCRank
    ModulesSym = "MODULES"
    HalfWord <- MCHalfWord
    Exprs <- MCExprs
    Parents <- MCParents
    Valuations <- MCValuations
INVARIANTS
    RewritesRight
    ComparisonsRight
    TextRight
