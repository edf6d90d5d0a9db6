CONSTANTS
    Absent = Absent
    All = All
    Address <- MCAddress
    Invited <- MCInvited
    Within <- MCWithin
    Message <- MCMessage
    Lists <- MCLists
    Outputs <- MCOutputs
    Texts = {"plain"}
    Recordings = {"audio", "silent", "other", "none"}
    Keyed = {"deepgram", "completion"}
    MaxParties = 3
    MaxDialogs = 2
    MaxAnalyses = 3
SPECIFICATION FiltersSpec
INVARIANTS
    ReferencesExist
    ParticipantsAreParties
    TranscribedOnce
    ReturnedMeansDone
    SummaryRestsOnItsDialogs
CHECK_DEADLOCK FALSE
