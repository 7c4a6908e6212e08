SPECIFICATION Spec
CONSTANTS
    None = None
    ByteBits <- MCByteBits
    JumpBits <- MCJumpBits
    Ceiling <- MCCeiling
    Commands <- MCCommands
    Halves <- MCHalves
    Words <- MCWords
    LoadAddresses <- MCLoadAddresses
    Files <- MCFiles
INVARIANTS
    TypeOK
    AllOrNothing
    PairsMoveTogether
    PointersMeetMetadata
CHECK_DEADLOCK FALSE
