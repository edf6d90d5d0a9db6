CONSTANTS
    q1 = q1
    q2 = q2
    s1 = s1
    s2 = s2
    QueueName <- MCQueueName
    ServerKey <- MCServerKey
    MaxPushes = 3
    MaxRequeues = 2
SPECIFICATION Spec
SYMMETRY Symmetry
INVARIANTS
    TypeOK
    NoJobLost
    NoJobDuplicated
    FreshJobsInOrder
PROPERTIES
    ImplementsLedger
