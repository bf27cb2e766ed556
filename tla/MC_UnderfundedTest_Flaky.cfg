\* The ETH suite; the block must pass in every schedule.
CONSTANTS
    U = U
    Channel <- MC_Channel
    Part <- MC_Part
    FinalBalance <- MC_FinalBalance
    Wallet0 = 2
    ERC20 = FALSE
    MaxDeposit = 1
    MaxOutcome = 2
    WithdrawBeforeSettle = FALSE

SPECIFICATION UTSpec

INVARIANT UnderfundedBlockPasses
