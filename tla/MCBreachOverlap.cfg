SPECIFICATION Spec
CONSTANTS
    Tickets = {t1}
    Ticks = {d1}
    Scans = {s1, s2}
    MaxBreaches = 2
    MaxAttempts = 2
    Limit = 2
    MaxFaults = 0
INVARIANT OneBreachMailPerTicket
CHECK_DEADLOCK FALSE
