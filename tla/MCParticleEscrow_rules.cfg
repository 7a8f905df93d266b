SPECIFICATION ESpec
CONSTANTS
    alice = alice
    bob = bob
    proton = proton
    n1 = n1
    n2 = n2
    m1 = m1
    m2 = m2
    NullAddr = NullAddr
    Nfts = {n1}
    Contracts = {proton}
    Accounts = {alice}
    ContractOf <- OneContract
    Operators <- NoOperators
    Kinds = {"release"}
    MaxBlock = 1
    LockNfts = {n1}
    PermContracts = {}
    OperatorChoices = {}
    PermChoices = {}
    UnlockChoices = {}
    TempLockChoices = {}
    Managers = {m1, m2}
    ManagerIds = {"generic"}
    AnyManager = AnyManager
    InitialRules <- OpenRules
    FlagChoices = {}
    IdChoices = {}
    LimitChoices = {}
    MaxNftsChoices = {}
    CapChoices = {1}
    InvalidityChoices = {TRUE}
    PauseChoices = {m1}
    PERCENTAGE_SCALE = 2
    InitialCash = 3
    AmountChoices = {1, 2}
    FeeChoices = {1}
    GiftChoices = {}
    SplitterChoices = {1}
    RescueChoices = {1}
    MaxDrawn = 1
INVARIANTS
    Conservation
PROPERTIES
    FrozenWalletsKeepFunds
