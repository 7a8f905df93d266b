SPECIFICATION Spec
CONSTANTS
    Assets = {"dai", "usdc"}
    PERCENTAGE_SCALE = 2
    RAY = 1000
    HasCreator = TRUE
    PctChoices = {1}
    AmountChoices = {1, 4}
    ExecuteChoices = {}
    MaxDeposit = 1
    MaxAccrued = 8
INVARIANTS
    CreatorNeverOverpaid
