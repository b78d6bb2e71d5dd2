CONSTANTS
    i1 = i1
    i2 = i2
    Instance = {i1, i2}
    MaxLog = 2
    Hostless <- FirstLog
    Limit = 2
    MaxMail = 2
    MaxLost = 1
SPECIFICATION FairMailSpec
INVARIANTS MailTypeOK MarkedIsTold EachTellsOnce
PROPERTY OverdueIsTold
CHECK_DEADLOCK FALSE
