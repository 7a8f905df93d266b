SPECIFICATION Spec
CONSTANTS
    Assets = {"dai"}
    PERCENTAGE_SCALE = 2
    RAY = 1000
    HasCreator = TRUE
    PctChoices = {0, 1}
    AmountChoices = {1, 2, 4}
    ExecuteChoices = {1, 2}
    MaxDeposit = 3
    MaxAccrued = 8
INVARIANTS
    TypeOK
    Conservation
    PrincipalCovered
    DepositsBelongToOwner
    CreatorNeverOverpaid
PROPERTIES
    DischargeKeepsPrincipal
    AdvanceStaysCovered
