\* Two failed transactions and one --reset for the migration; two describe
\* blocks, [plain, wrapped (2 steps), wrapped] and [wrapped, plain], for
\* the test harness.
CONSTANTS
    MaxFailures = 2
    MaxResets = 1
    Suite <- MC_Suite

SPECIFICATION HSpec

INVARIANT MigTypeOK
INVARIANT SavedSuiteConsistent
INVARIANT DescribeRestoresChain
PROPERTY MigrationCompletes
