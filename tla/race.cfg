SPECIFICATION Spec
CONSTANTS
    Laps = 7
    RivalTimes <- MCRivalTimes
    Grain = 2
    Entries <- MCEntries
    SectorTimes <- MCSectorTimes
    WearPerLap <- MCWearPerLap
    LockUpLaps <- MCLockUpLaps
    TrackTemp = 50
    Streams <- MCStreams
INVARIANTS
    TypeOK
    SafetyCarsShared
    TimesAddUp
    StintsTold
    StopsInTime
    TimelineTellsLead
    HeatmapsAgree
    ChartsAgree
    StrategiesFit
CHECK_DEADLOCK FALSE
