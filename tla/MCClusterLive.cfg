CONSTANTS
    q1 = q1
    a1 = a1
    a2 = a2
    o1 = o1
    o2 = o2
    QueueName = {q1}
    Address = {a1, a2}
    Operator = {o1}
    ServerKey <- MCServerKey
    NUM_WORKERS = 2
    MaxStarts = 2
    MaxPushes = 1
    MaxRequeues = 2
SPECIFICATION ClusterSpec
PROPERTIES
    AbandonedJobIsRequeued
    StaleServerIsRemoved
