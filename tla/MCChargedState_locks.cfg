SPECIFICATION HSpec
CONSTANTS
    alice = alice
    bob = bob
    carol = carol
    proton = proton
    n1 = n1
    NullAddr = NullAddr
    Nfts = {n1}
    Contracts = {proton}
    Accounts = {alice, bob}
    ContractOf <- OneContract
    Operators <- NoOperators
    Kinds = {"discharge", "release"}
    MaxBlock = 3
    LockNfts = {n1}
    PermContracts = {proton}
    OperatorChoices = {}
    PermChoices = {}
    UnlockChoices = {0, 3}
    TempLockChoices = {1}
INVARIANTS
    HTypeOK
    CommitmentsStand
    NoOrphanLock
