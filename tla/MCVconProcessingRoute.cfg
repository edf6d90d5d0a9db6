CONSTANTS
    u1 = u1
    u2 = u2
    r1 = r1
    r2 = r2
    Uuid = {u1, u2}
    Request = {r1}
    Processors <- TwoProcessors
    MaxVersions = 2
    MaxVcons <- MCMaxVcons
SPECIFICATION ProcessingSpec
INVARIANT
    RequestedProcessorRuns
