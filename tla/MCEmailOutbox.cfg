SPECIFICATION FairSpec
CONSTANTS
    Tickets = {t1}
    Ticks = {d1, d2}
    Scans = {s1}
    MaxBreaches = 2
    MaxAttempts = 2
    Limit = 1
    MaxFaults = 1
INVARIANTS
    TypeOK
    SentWasAccepted
    SendsBounded
    OneBreachMailPerTicket
PROPERTIES
    FinalStays
    EveryMailSettles
    LateTicketIsReported
CHECK_DEADLOCK FALSE
