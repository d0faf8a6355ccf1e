SPECIFICATION Spec
CONSTANTS
    Analysts = {ana}
    Admins = {adm}
    SuperAdmins = {adm}
    NoUser = NoUser
    MaxEvents = 6
INVARIANTS
    TypeOK
    TimersFitState
    TimelineEndsAtState
PROPERTY CancelledLeavesByUncancel
CHECK_DEADLOCK FALSE
