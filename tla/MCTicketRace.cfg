SPECIFICATION Spec
CONSTANTS
    Analysts = {ana}
    Admins = {adm}
    SuperAdmins = {adm}
    NoUser = NoUser
    MaxEvents = 6
PROPERTY StateFollowsGraph
CHECK_DEADLOCK FALSE
