SPECIFICATION Spec
CONSTANTS
    NULL = NULL
    Refreshers = {}
    Pollers = {}
    Timers = {timer}
    Reapers = {}
    Mains = {main}
    Clients = {client}
    Checked = TRUE
    MaxChanges = 1
    MaxFaults = 0
INVARIANT NoForeignImport
