SPECIFICATION FairScheduleSpec
CONSTANTS
    Lifetime = 6
    Every = 2
    MinPolicy = 2
    Margin = 3
    Budget = 1
    MaxTime = 9
    MaxRestarts = 1
INVARIANTS ScheduleInv
PROPERTIES NoRetryStorm DueRefreshHappens ExpiredSecretsLeaveDisk
