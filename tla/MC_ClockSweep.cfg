\* ClockEvictor and Replacer over three frames.
CONSTANTS
    PoolSize <- ThreeFrames
    Policies <- BothPolicies
    MaxPins = 1
    NoVictim = NoVictim
SPECIFICATION FairSpec
INVARIANTS
    TypeOK
    VictimIsUnpinned
    NoneMeansAllWerePinned
    CleanFirst
PROPERTIES
    IdleFrameIsReclaimed
