SPECIFICATION FairSpec
CONSTANTS
    Width = 30
    BasisPoints = 10000
    alice = alice
    bob = bob
    shop = shop
    federal = federal
    kAlice = kAlice
    kBob = kBob
    kBob2 = kBob2
    kShop = kShop
    kFederal = kFederal
    kVal = kVal
    AccountIDs = {alice, bob, shop, federal}
    Keys = {kAlice, kBob, kBob2, kShop, kFederal, kVal}
    NoKey = NoKey
    ValidatorKeys = {kVal}
    ValidatorKey = kVal
    Unspecified = Unspecified
    DefaultTreasury = federal
    AllowedTaxAccounts = {federal}
    TaxSplit <- MCTaxSplit
    Genesis <- MCGenesis
    GenesisKeystore <- MCKeystore
    PaymentRequests <- CrashPayments
    CreateRequests <- CrashCreates
    CloseRequests <- CrashCloses
    Torn = Torn
    MaxTxsPerBlock = 2
    MaxFaults = 2
INVARIANTS
    SavedStateIsReplay
    MemoryIsReplay
    StartsAgain
    ExecutedOnce
PROPERTIES
    AdmittedGetsIncluded
CHECK_DEADLOCK FALSE
