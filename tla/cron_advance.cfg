SPECIFICATION CronSpec
CONSTANTS
    Minutes = 2
    Hours = 3
    Days = 3
    Months = 2
    Week = 2
    Short = 2
    Crons <- MCCrons
    Zones <- Shifting
    Goals = {"next"}
    Starts = {34, 35, 36, 37}
    MaxGap = 0
    MaxGuard = 25
    NoTime = NoTime
INVARIANTS
    OccurrencesAdvance
CHECK_DEADLOCK FALSE
