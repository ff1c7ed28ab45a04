SPECIFICATION FairSpec
CONSTANTS
    NULL = NULL
    Refreshers = {refresher}
    Pollers = {poller}
    Timers = {}
    Reapers = {}
    Mains = {main}
    Clients = {client}
    Checked = TRUE
    MaxChanges = 1
    MaxFaults = 1
INVARIANTS TypeOK StateWasTrue
PROPERTIES Recovers Notices
CHECK_DEADLOCK FALSE
