SPECIFICATION FairSpec
CONSTANTS
    MaxSeqLens = {0, 2}
    Advertised = 3
    Pools = {1, 4}
    FailingReads = {"models"}
    MaxGens = 3
    MaxRebuilds = 2
INVARIANTS ContextOfThisEngine RebuildIsLearned MismatchIsReported
PROPERTIES ContextIsPublished
CHECK_DEADLOCK FALSE
