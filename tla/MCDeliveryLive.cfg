\* Two lines, a syslog message and a crash, for liveness; batches of two fill or tick.
SPECIFICATION FairSpec
CONSTANTS
    NumLines = 2
    NumSyslog = 1
    AlertsOf <- MCAlertsOf
    InCap = 1
    MaxBatch = 2
    MaxAttempts = 2
    PipeCap = 1
    MaxAlerts = 2
    MaxHandlers = 2
    MaxCrashes = 1
PROPERTY BackpressureReleased
CHECK_DEADLOCK FALSE
