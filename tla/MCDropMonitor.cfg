SPECIFICATION FairSpec
CONSTANTS
    MaxAlerts = 3
    MaxErrors = 2
    QueueLimit = 2
    MaxCount = 1
INVARIANTS
    TypeOK
    DropsConserved
    ListenerStarted
    ServesDeprivileged
    ListensDeprivileged
PROPERTIES
    ScrapedTotalsMonotone
    AlertsDrained
