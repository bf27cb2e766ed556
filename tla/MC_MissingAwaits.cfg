\* The underfunded block with the ERC20 deposit (approve + deposit), and
\* the progress block with the suite's timeout of 60 seconds.
CONSTANTS
    U = U
    Channel <- MC_Channel
    Part <- MC_Part
    FinalBalance <- MC_FinalBalance
    Wallet0 = 2
    ERC20 = TRUE
    MaxDeposit = 1
    MaxOutcome = 2
    WithdrawBeforeSettle = FALSE
    C = C
    Different = Different
    Timeout = 60

SPECIFICATION MASpec

INVARIANT DepositAndSettlementCommute
INVARIANT AwaitedScheduleReportsNoFailure
INVARIANT AwaitedRegistrationsReportNoFailure
