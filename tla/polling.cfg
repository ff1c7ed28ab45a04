SPECIFICATION FairSpec
CONSTANTS
    NULL = NULL
    out = out  in = in  c1 = c1  c2 = c2
    Hashes = {out, in}
    Calls = {c1, c2}
    HashOf <- MCHashOf
    Invoices = {in}
    Stages <- MCStages
    MaxFaults = 1
INVARIANTS TypeOK SettledOnceAndLast TerminalAnnounced
PROPERTIES LogsMoves SettlementAnnounced NothingSilentAfterBaseline
CHECK_DEADLOCK FALSE
