SPECIFICATION BSpec
CONSTANTS
    alice = alice
    bob = bob
    proton = proton
    n1 = n1
    n2 = n2
    n3 = n3
    m1 = m1
    m2 = m2
    b11 = b11
    b12 = b12
    b13 = b13
    b21 = b21
    b22 = b22
    b23 = b23
    NullAddr = NullAddr
    Nfts = {n1, n2}
    Contracts = {proton}
    Accounts = {alice, b11, b12}
    ContractOf <- OneContract
    Operators <- NoOperators
    Kinds = {"release", "breakBond"}
    MaxBlock = 2
    LockNfts = {n1}
    PermContracts = {}
    OperatorChoices = {}
    PermChoices = {}
    UnlockChoices = {2}
    TempLockChoices = {}
    Managers = {m1}
    ManagerIds = {"generic.B"}
    AnyManager = AnyManager
    InitialRules <- BondableRules
    FlagChoices = {}
    IdChoices = {}
    LimitChoices = {}
    MaxNftsChoices = {}
    CapChoices = {}
    InvalidityChoices = {}
    PauseChoices = {}
    BasketOf <- BasketAccounts
    MaxUint = 3
    BondAmounts = {1}
    StrayNfts = {n2}
    StrayBaskets = {n1}
INVARIANTS
    BondsTypeOK
PROPERTIES
    BondsHold
    HSpec
