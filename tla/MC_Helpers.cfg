\* A node returning the bare recovery id, as sign() assumes; amounts with
\* two fraction digits; versions 2^e + k and 2^e - 1 up to e = 53.
CONSTANTS
    A = A
    B = B
    St = St
    Auth = Auth
    Accounts <- MC_Accounts
    Data <- MC_Data
    ProviderBase = 0
    Decimals = 2
    MaxWei = 120
    Exps = {44, 45, 46, 47, 48, 49, 50, 51, 52, 53}
    Offsets = {0, 1, 2, 3, 4, 5, 6, 7, 8, 9}

SPECIFICATION HelpersSpec

INVARIANT SignaturesRecoverSigner
INVARIANT Wei2EthMatchesReference
INVARIANT IncrementVersionExact
