SPECIFICATION FairPipelineSpec
CONSTANTS
    Events = {e1}
    Publishers = {w1}
    Consumers = {w1}
    BatchSize = 1
    ReadCount = 1
    MaxRetries = 2
    MaxFaults = 0
    MaxFailures = 0
PROPERTIES ReadIsNonBlocking
CHECK_DEADLOCK FALSE
