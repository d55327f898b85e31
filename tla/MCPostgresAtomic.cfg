SPECIFICATION Spec
CONSTANTS
    Sessions = {s1, s2}
    Commands = {c1, c2}
    Buckets = {1, 2}
    Intents <- MCIntents
    Singles <- MCSingles
    LockOf <- MCLockOf
    Limit <- MCLimit
    Period <- MCPeriod
    Rate = 1
    Second = 1
    Behind = 1
    Ahead = 0
    MaxTime = 3
SYMMETRY Renamings
INVARIANTS BooksBalance AnswersAgree KeyNeverHit NoWaitCycle DecidedFromCurrent
PROPERTIES LedgerSpec
