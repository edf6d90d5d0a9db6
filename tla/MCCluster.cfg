CONSTANTS
    q1 = q1
    a1 = a1
    a2 = a2
    o1 = o1
    o2 = o2
    QueueName = {q1}
    Address = {a1}
    Operator = {o1, o2}
    ServerKey <- MCServerKey
    NUM_WORKERS = 2
    MaxStarts = 3
    MaxPushes = 2
    MaxRequeues = 4
SPECIFICATION ClusterSpec
SYMMETRY Symmetry
INVARIANTS
    LiveWorkIsHeld
    LiveServerIsRegistered
    DeadWorkIsListed
