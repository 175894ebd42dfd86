SPECIFICATION PipelineSpec
CONSTANTS
    Events = {e1, e2}
    Publishers = {w1, w2}
    Consumers = {w1, w2}
    BatchSize = 2
    ReadCount = 2
    MaxRetries = 2
    MaxFaults = 1
    MaxFailures = 1
SYMMETRY Symmetry
INVARIANTS
    TypeOK AckedIsEvaluated LossIsBounded
    DuplicatesExplained NoZombieRow
PROPERTIES KeepsPromise
CHECK_DEADLOCK FALSE
