SPECIFICATION FairSpec
CONSTANTS
    NULL = NULL
    r1 = r1  r2 = r2  s1 = s1  s2 = s2  s3 = s3  a1 = a1  a2 = a2  tx = tx  gift = gift
    Receives = {r1}
    Sends = {}
    Assets = {a1}
    Txids = {}
    AssetOf <- MCAssetOf
    TxOf <- MCTxOf
    Agnostic = {r1}
    Donations = {}
    Refreshers = {refresher}
    Reapers = {reaper}
    Timers = {timer}
    Reconcilers = {}
    Operators = {}
    Issues = {}
    Stages = {"WaitingConfirmations"}
    Broken = {}
    MaxFaults = 2
PROPERTIES ReceiveReported EventuallyMirrored ExpiredReaped
