SPECIFICATION FairPipelineSpec
CONSTANTS
    Events = {e1, e2}
    Publishers = {w1}
    Consumers = {w2}
    BatchSize = 1
    ReadCount = 1
    MaxRetries = 2
    MaxFaults = 1
    MaxFailures = 0
PROPERTIES EveryFillEvaluated EveryEventSettled
CHECK_DEADLOCK FALSE
