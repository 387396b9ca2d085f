\* Two library threads over every kind of deferred call; two waiters and two
\* senders of an event; the clock; two queries and a writer; three
\* cards that sleep and wake; a frame of each driver.
CONSTANTS
    Thread = {t1, t2}
    Func = func
    Kinds = {"worklet", "work", "delayed", "oldDelayed", "tasklet", "timer", "urb"}
    MaxOff = 2
    Waiter = {w1, w2}
    Sender = {s1, s2}
    Sec <- MCSec
    Usec <- MCUsec
    MaxGap = 2000
    Reader = {r1, r2}
    Writer = {p1}
    Changes = 1
    Card = {k1, k2, k3}
SPECIFICATION PartsSpec
INVARIANTS
    FaultsExplained
    QuietAfterKill
    NoMissedWakeup
    LostNeedsRace
    DownoutBounds
    LoneQueryRight
    SleepTold
    FramesMeetTheirDevice
PROPERTIES
    ScheduledRuns
CHECK_DEADLOCK FALSE
