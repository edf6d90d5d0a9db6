CONSTANTS
    p1 = p1
    p2 = p2
    p3 = p3
    none = none
    s1 = s1
    a1 = a1
    k1 = k1
    theirs = theirs
    a = a
    b = b
    c = c
    d = d
    e = e
    f = f
    pipe1 = pipe1
    pipe2 = pipe2
    host = host
    Vcon = {p1, p2, p3}
    Uuid <- MCUuid
    NoUuid = none
    Subject = {s1}
    NoSubject = none
    Authority = {a1}
    KeyPair = {k1}
    Foreign <- MCForeign
    MaxDumps = 7
    Path = {a, b, c, d, e, f}
    Pipe = {pipe1, pipe2}
    Scenario <- MCScenario
    FileBefore <- MCFileBefore
    Host = host
    Began = 999850
    Grain = 150
    MaxClock = 3
\* A shell session ends.
CHECK_DEADLOCK FALSE
SPECIFICATION CliSpec
INVARIANTS
    VerifiedOutputWasSigned
    OneVconPerProcess
    NewOnlyFromNothing
    FilesAreWhole
    UuidsSortByTime
PROPERTIES
    LifeSpec
    EveryProcessEnds
