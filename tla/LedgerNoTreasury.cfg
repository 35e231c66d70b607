SPECIFICATION Spec
CONSTANTS
    Width = 17
    BasisPoints = 10000
    alice = alice
    bob = bob
    shop = shop
    kiosk = kiosk
    federal = federal
    city = city
    kAlice = kAlice
    kBob = kBob
    kShop = kShop
    kKiosk = kKiosk
    kFederal = kFederal
    kCity = kCity
    kNew = kNew
    kVal = kVal
    AccountIDs = {alice, bob, shop, kiosk, federal, city}
    Keys = {kAlice, kBob, kShop, kKiosk, kFederal, kCity, kNew, kVal}
    NoKey = NoKey
    ValidatorKeys = {kVal}
    Unspecified = Unspecified
    DefaultTreasury = federal
    AllowedTaxAccounts = {federal, city}
    TaxSplit <- MCTaxSplit
    Genesis <- MCStateOfTest
    Payments <- MCPayments
    Creates <- MCCreates
    Closes <- MCCloses
INVARIANTS
    PersonsCanClose
CHECK_DEADLOCK FALSE
