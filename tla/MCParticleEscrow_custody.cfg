SPECIFICATION ESpec
CONSTANTS
    alice = alice
    bob = bob
    proton = proton
    n1 = n1
    n2 = n2
    m1 = m1
    m2 = m2
    NullAddr = NullAddr
    Nfts = {n1}
    Contracts = {proton}
    Accounts = {alice, bob}
    ContractOf <- OneContract
    Operators <- NoOperators
    Kinds = {"release"}
    MaxBlock = 2
    LockNfts = {n1}
    PermContracts = {}
    OperatorChoices = {}
    PermChoices = {}
    UnlockChoices = {2}
    TempLockChoices = {}
    Managers = {m1}
    ManagerIds = {"generic"}
    AnyManager = AnyManager
    InitialRules <- OpenRules
    FlagChoices = {}
    IdChoices = {}
    LimitChoices <- OneAtMost
    MaxNftsChoices = {}
    CapChoices = {}
    InvalidityChoices = {}
    PauseChoices = {}
    PERCENTAGE_SCALE = 2
    InitialCash = 1
    AmountChoices = {1}
    FeeChoices = {}
    GiftChoices = {1}
    SplitterChoices = {1}
    RescueChoices = {1}
    MaxDrawn = 1
INVARIANTS
    EscrowTypeOK
    Backed
PROPERTIES
    LockedFundsStay
    HSpec
