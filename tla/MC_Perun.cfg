CONSTANTS
    L = L
    S0 = S0
    Channel <- MC_Channel
    Funded <- MC_Funded
    Part <- MC_Part
    HasApp <- MC_HasApp
    Signed <- MC_Signed
    ChallengeDuration = 1
    MaxVersion = 1
    MaxBal = 2
    MaxDeposit = 2
    MaxOutcome = 2
    WithdrawBeforeSettle = FALSE

SPECIFICATION PerunSpec

INVARIANT SettledOutcomeIsConcludedOutcome
PROPERTY FundedEventuallySettled
