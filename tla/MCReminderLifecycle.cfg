SPECIFICATION Spec
CONSTANTS
    MeetingIds = {m1}
    StartTimes <- MCStartTimes
    StartsSoonOffset = 2
    StartsNowLateWindow = 1
    PollInterval = 2
    SnoozeDuration = 2
    Callers = {TRUE, FALSE}
    MaxSnoozes = 2
    MaxAlerts = 3
    Horizon = 7
INVARIANTS
    TypeOK
    NoDuplicateAlert
    NoMissedWindow
    SnoozeNotOverdue
    OneReminderAtATime
PROPERTIES
    DismissedStaysSilent
    SnoozeHolds
