CONSTANTS
    u1 = u1
    u2 = u2
    r1 = r1
    r2 = r2
    Uuid = {u1, u2}
    Request = {r1, r2}
    Processors <- OneProcessor
    MaxVersions = 2
    MaxVcons <- MCMaxVcons
SPECIFICATION ProcessingSpec
SYMMETRY Symmetry
INVARIANTS
    FormsAgree
    ReadonlyIsNeverSaved
    AnswerIsWhatWasSaved
PROPERTIES
    ImplementsStore
