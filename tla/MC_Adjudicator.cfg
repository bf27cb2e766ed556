CONSTANTS
    L = L
    S0 = S0
    S1 = S1
    Channel <- MC_Channel
    Part <- MC_Part
    HasApp <- MC_HasApp
    Signed <- MC_Signed
    ChallengeDuration = 1
    MaxVersion = 2
    MaxBal = 2

SPECIFICATION AdjSpec

INVARIANT TypeOK
INVARIANT SubtreeConcluded
PROPERTY CommittedVersionIncreases
PROPERTY NoConclusionInResponseWindow
PROPERTY RegisteredEventuallyConcluded
PROPERTY AdjImplementsAbstract
