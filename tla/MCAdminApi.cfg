CONSTANTS
    q1 = q1
    q2 = q2
    s1 = s1
    QueueName <- MCQueueName
    ServerKey <- MCServerKey
    MaxPushes = 2
    MaxRequeues = 2
SPECIFICATION ApiSpec
SYMMETRY Symmetry
PROPERTIES
    ImplementsQueue
    RepeatedRequestIsHarmless
    ReturnedJobsAreGone
