SPECIFICATION Spec
CONSTANTS
    MeetingIds = {m1}
    StartTimes <- MCStartTimes
    StartsSoonOffset = 2
    StartsNowLateWindow = 1
    SnoozeDuration = 1
    Orders = {"SaveFirst", "ShowFirst"}
    Faults = {"close", "rename", "open"}
    Missing = Missing
    Torn = Torn
    MaxSnoozes = 1
    MaxCrashes = 2
    Horizon = 4
INVARIANTS
    TypeOK
    NoDuplicateAfterRestart
    OneRepeatPerRestart
    RecordedMeansShown
PROPERTIES
    DismissalSurvives
