SPECIFICATION Spec
CONSTANTS
    Width = 30
    BasisPoints = 10000
    alice = alice
    bob = bob
    shop = shop
    federal = federal
    kAlice = kAlice
    kBob = kBob
    kBob2 = kBob2
    kShop = kShop
    kFederal = kFederal
    kVal = kVal
    AccountIDs = {alice, bob, shop, federal}
    Keys = {kAlice, kBob, kBob2, kShop, kFederal, kVal}
    NoKey = NoKey
    ValidatorKeys = {kVal}
    ValidatorKey = kVal
    Unspecified = Unspecified
    DefaultTreasury = federal
    AllowedTaxAccounts = {federal}
    TaxSplit <- MCTaxSplit
    Genesis <- MCGenesis
    GenesisKeystore <- MCKeystore
    PaymentRequests <- BusyPayments
    CreateRequests <- BusyCreates
    CloseRequests <- BusyCloses
    Torn = Torn
    MaxTxsPerBlock = 2
    MaxFaults = 1
INVARIANTS
    TypeOK
    ReservedIsExact
    PendingIsAffordable
    ProducedBlockIsValid
PROPERTIES
    AdmittedIsKept
CHECK_DEADLOCK FALSE
