SPECIFICATION Spec
CONSTANTS
    NULL = NULL
    r1 = r1  r2 = r2  s1 = s1  s2 = s2  s3 = s3  a1 = a1  a2 = a2  tx = tx  gift = gift
    Receives = {}
    Sends = {s1, s2}
    Assets = {a1, a2}
    Txids = {tx}
    AssetOf <- MCAssetOf
    TxOf <- MCTxOf
    Agnostic = {}
    Donations = {}
    Refreshers = {}
    Reapers = {}
    Timers = {timer}
    Reconcilers = {}
    Operators = {}
    Issues = {}
    Stages = {"WaitingConfirmations"}
    Broken = {}
    MaxFaults = 0
INVARIANT OneRowPerLeg
