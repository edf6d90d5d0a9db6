CONSTANTS
    Absent = Absent
    Address <- MCAddress
    Within <- MCWithin
    Message <- MCMessage
    Loaded <- MCLoaded
    ZoomDirectory <- MCZoomDirectory
    MeetRecording <- MCMeetRecording
    MachineZone <- MCMachineZone
    MaxParties = 5
    MaxDialogs = 10
    MaxImports = 2
SPECIFICATION ImportsSpec
INVARIANTS
    ChatsAreWhole
    OneSenderOneParty
    ChatTimeIsKnown
    RefusedOverMidnight
\* Nobody has to import anything.
CHECK_DEADLOCK FALSE
