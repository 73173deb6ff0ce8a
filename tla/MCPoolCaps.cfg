SPECIFICATION Spec
CONSTANTS
    MaxAlerts = 3
    MaxErrors = 2
    QueueLimit = 2
    MaxCount = 1
INVARIANT PoolDeprivileged
