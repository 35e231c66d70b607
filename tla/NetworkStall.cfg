SPECIFICATION FairSpec
CONSTANTS
    Width = 30
    BasisPoints = 10000
    n1 = n1
    n2 = n2
    alice = alice
    bob = bob
    shop = shop
    federal = federal
    kAlice = kAlice
    kBob = kBob
    kShop = kShop
    kFederal = kFederal
    kVal = kVal
    AccountIDs = {alice, bob, shop, federal}
    Keys = {kAlice, kBob, kShop, kFederal, kVal}
    NoKey = NoKey
    ValidatorKeys = {kVal}
    Unspecified = Unspecified
    DefaultTreasury = federal
    AllowedTaxAccounts = {federal}
    TaxSplit <- MCTaxSplit
    Genesis <- MCGenesis
    GenesisKeystore <- MCKeystore
    Nodes = {n1, n2}
    Dials <- OneDials
    KeystoreOf <- OneFile
    Validators <- TwoValidators
    Transactions <- SaleAtN1
    MaxTxsPerBlock = 1
    MaxFaults = 0
PROPERTIES
    SubmittedGetsIncluded
CHECK_DEADLOCK FALSE
