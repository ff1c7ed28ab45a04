SPECIFICATION FairSpec
CONSTANTS
    NULL = NULL
    Text = {"none", "", "companion.sqlite", "other.sqlite", "token", "s"}
    client = client
    operator = operator
    Requests = {client, operator}
    Asks <- MCAsks
    Files <- MCFiles
    CommandLines <- MCCommandLines
    Replies <- MCReplies
    Background = background
    Encoded <- MCEncoded
    Backslashed <- MCBackslashed
    Reading <- MCReading
    MaxFaults = 1
INVARIANTS TypeOK SoundBeforeStart NeverBypassed HookMatchesAnswer Guarded NothingLeftBehind HealthWasTrue
PROPERTIES Answered
CHECK_DEADLOCK FALSE
