SPECIFICATION FairSpec
CONSTANTS
    eboot = eboot
    eboot2 = eboot2
    boot = boot
    prx = prx
    s1 = s1
    s2 = s2
    s3 = s3
    None = None
    Modules <- MCModules
    Units <- MCModules
    Rank <- MCRank
    Name <- MCName
    Magics <- MCMagics
    Images <- MCImages
    Limit <- MCLimit
    Grain <- MCGrain
    First <- MCFirst
    Backends <- MCBackends
    Kinds <- MCKinds
    Contents <- MCContents
    MaxBytes <- MCMaxBytes
    Symbols <- MCSymbols
    Imports <- MCImports
    Exports <- MCExports
    Known <- MCKnown
    Named <- MCNamed
INVARIANTS
    TypeOK
    SecondariesKeepClear
    EveryModuleAccounted
PROPERTIES
    FirstFit
    AnalysisEnds
CHECK_DEADLOCK FALSE
