\* Does a failing itWithBlockRevert test leave its effects behind?
CONSTANTS
    Suite <- MC_Suite

SPECIFICATION TCSpec

PROPERTY WrappedTestLeavesNoTrace
