SPECIFICATION FairSpec
CONSTANTS
    MAX_TASKS = 3
    TickMod = 6
    Naps = {1, 4}
    MaxLate = 1
PROPERTIES NeverEarly OvertakenOnce SleepersWake
