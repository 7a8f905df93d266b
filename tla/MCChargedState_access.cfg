SPECIFICATION HSpec
CONSTANTS
    alice = alice
    bob = bob
    carol = carol
    proton = proton
    n1 = n1
    NullAddr = NullAddr
    Nfts = {n1}
    Contracts = {proton}
    Accounts = {alice, bob, carol}
    ContractOf <- OneContract
    Operators <- CarolTrustsBob
    Kinds = {"release"}
    MaxBlock = 2
    LockNfts = {n1}
    PermContracts = {proton}
    OperatorChoices = {bob}
    PermChoices = {"allowRelease"}
    UnlockChoices = {2}
    TempLockChoices = {}
INVARIANTS
    WithdrawalsRespectCommitments
    WithdrawalsByConsent
