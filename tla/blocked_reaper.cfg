SPECIFICATION FairSpec
CONSTANTS
    NULL = NULL
    r1 = r1  r2 = r2  s1 = s1  s2 = s2  s3 = s3  a1 = a1  a2 = a2  tx = tx  gift = gift
    Receives = {r1, r2}
    Sends = {}
    Assets = {a1}
    Txids = {}
    AssetOf <- MCAssetOf
    TxOf <- MCTxOf
    Agnostic = {}
    Donations = {}
    Refreshers = {refresher}
    Reapers = {reaper}
    Timers = {}
    Reconcilers = {}
    Operators = {}
    Issues = {}
    Stages = {"WaitingConfirmations"}
    Broken = {r1}
    MaxFaults = 0
PROPERTIES ExpiredReaped
