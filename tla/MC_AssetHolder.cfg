CONSTANTS
    C1 = C1
    C2 = C2
    Channel <- MC_Channel
    Part <- MC_Part
    MaxDeposit = 1
    MaxOutcome = 2
    WithdrawBeforeSettle = FALSE

SPECIFICATION AHSpec

INVARIANT AHTypeOK
INVARIANT Solvency
INVARIANT FairSettlement
