SPECIFICATION AlgorithmsSpec
CONSTANTS
    MAX_RAIN_E2 = 25
    MaxReference = 22
    contractA = contractA
    contractB = contractB
    net1 = net1
    net2 = net2
    hashA = hashA
    hashB = hashB
    MaxAlterations = 3
    Base = 2
    Half = 2
    XdrBytes = 5
    MAX_PAGE_SIZE = 3
    U32_MAX = 15
    MaxIndex = 15
INVARIANT TracksYieldResponse
INVARIANT EndsExact
INVARIANT DigestBindsEverything
INVARIANT WordsMatchEvmSlots
INVARIANT WalkIsExact
PROPERTY WetterNeverPaysMore
PROPERTY WalkCompletes
CHECK_DEADLOCK FALSE
