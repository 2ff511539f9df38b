SPECIFICATION TimeFairSpec
CONSTANTS
    Word = 2
    DayHi = 1
    DayLo = 1
    OvfMod = 2
    Hours = 2
    Minutes = 2
    Seconds = 2
    Tries = 2
    Polls = 2
    MaxDays = 3
INVARIANTS
    MidnightsAddUp NotTorn
PROPERTY
    EndsIfGood
