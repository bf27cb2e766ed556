\* A node that already returns v = 27 or 28 (as go-ethereum does).
CONSTANTS
    A = A
    B = B
    St = St
    Auth = Auth
    Accounts <- MC_Accounts
    Data <- MC_Data
    ProviderBase = 27

SPECIFICATION SigSpec

INVARIANT SignaturesRecoverSigner
