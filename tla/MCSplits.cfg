SPECIFICATION Spec
CONSTANTS
    Width = 6
    BasisPoints = 4
    fed = fed
    sp = sp
    other = other
    TaxSplit <- MCTaxSplit
    AllowedTaxAccounts = {fed, sp}
    Amounts = {0, 3, 22}
    MaxItems = 3
    AccountIDs = {fed, sp, other}
    Lines <- MCLines
INVARIANTS
    NothingLostInRounding
    SplitsStayWithinTheLines
CHECK_DEADLOCK FALSE
