\* Two reloads over seven files, under every environment and set of flags; the
\* clock runs over several intervals of the longest of them.
CONSTANTS
    Default <- MCDefault
    Files <- MCFiles
    Envs <- MCEnvs
    FlagSets <- MCFlagSets
    Bad = Bad
    Start = 3
    MaxClock = 9
    MaxReloads = 2
SPECIFICATION Spec
INVARIANTS SettledIsWanted TTLsTakeEffect
PROPERTIES OnlyStalePurged
CHECK_DEADLOCK FALSE
