SPECIFICATION FairSpec
CONSTANTS
    NULL = NULL
    out = out  in = in  c1 = c1  c2 = c2
    Hashes = {out}
    Calls = {c1, c2}
    HashOf <- MCHashOf
    Invoices = {}
    Stages <- MCStages
    MaxFaults = 0
PROPERTIES SettledIsAnnounced
CHECK_DEADLOCK FALSE
