SPECIFICATION ScheduleSpec
CONSTANTS
    Lifetime = 6
    Every = 6
    MinPolicy = 2
    Margin = 3
    Budget = 1
    MaxTime = 9
    MaxRestarts = 1
INVARIANTS ServedSessionIsScheduled
