\* Start and stop with two clients and two signals.
CONSTANTS
    Tasks = {"PidCheck", "TempPage", "TimeCtrl"}
    MaxSignal = 2
    MaxClient = 2
SPECIFICATION FairSpec
CHECK_DEADLOCK FALSE
INVARIANTS TypeOK ServesWhenStarted AbortExplained
PROPERTIES StartEnds StopEnds
