SPECIFICATION FairSpec
CONSTANTS
    Addrs = {1, 2}
    MaxTimers = 2
    MaxTime = 2
    Intervals = {0, 1}
    MaxQueue = 1
    MaxSetBacks = 1
INVARIANTS TimerSetsSound
PROPERTIES OnlyCancelledTimersVanish TimersFire
