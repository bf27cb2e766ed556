\* Versions around 2^53, 2^54 and the top of the uint64 range.
CONSTANTS
    Exps = {52, 53, 54, 63, 64}
    Offsets = {0, 1, 2, 3}

SPECIFICATION VersionSpec

INVARIANT IncrementVersionIsSuccessor
