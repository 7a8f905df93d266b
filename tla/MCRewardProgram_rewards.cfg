SPECIFICATION Spec
CONSTANTS
    aave = aave
    generic = generic
    dai = dai
    silver = silver
    silver2 = silver2
    gold = gold
    n1 = n1
    Nfts = {n1}
    Assets = {dai}
    Managers = {aave, generic}
    WholeReporters = {generic}
    Leptons = {silver, silver2, gold}
    MultiplierNft = MultiplierNft
    MultiplierOf <- MCMultiplierOf
    Unit <- MCUnit
    BaseMultiplier = 10000
    NoManager = NoManager
    NoToken = NoToken
    Interests = {0, 10}
    Amounts = {1}
    MaxBlock = 3
    MaxPrincipal <- MCMaxPrincipal
    MaxClaim = 10
    MaxFund = 15
    Fundings = {15}
INVARIANTS
    TypeOK
    MultipliersComeFromBonds
    MultipliersOnlyAdd
    DepositsCanLeave
PROPERTIES
    RewardsAreSettled
SYMMETRY Symmetry
