SPECIFICATION Spec
CONSTANTS
    None = None
    Retention = 6
    RawRetention = 1
    BucketWidth = 4
    MaxPoints = 3
    MinMaxPoints = 3
    GapLimit = 1
    Width = 1
    HistoryCapacity = 3
    CpuMetric = "cpu.total_usage"
    TemperatureMetric = "gpu.temperature"
    Rules <- MCRules
    DefaultThreshold <- MCDefaultThreshold
    Devices <- MCDevices
    Uuids <- MCUuids
    Answers <- MCAnswers
    Adjustments <- MCAdjustments
    Start = 3
    MaxSamples = 5
    MaxDisturbances = 1
INVARIANTS
    ExtremaSurvive
    LinesNeverBridge
    StaleIsLastLive
    AlertsAgreeWithCards
PROPERTIES
    AlertsAreEarned
CHECK_DEADLOCK FALSE
