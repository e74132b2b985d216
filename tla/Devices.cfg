SPECIFICATION SuiteSpec
CONSTANTS
    None = None
    Celsius = {0, 1, 2, 3, 4}
    Hysteresis = 1
    SensorConfig <- SmallSensor
    Offset = 0
    SampleBufLen = 2
    EventRoom = 2
    MaxSensorChanges = 3
    FanConfig <- SmallFan
    MinRpm = 1
    MaxRpm = 5
    HostRpms = {0, 2}
    MaxFanChanges = 2
    Threshold = 3
    ShortPress = 4
    Timeout = 8
    Cols = {1, 2}
    Rows = {1, 2}
    Deghost = TRUE
    Bounces = 1
    QueueDepth = 2
    RollOver = RollOver
    Undefined = Undefined
    MaxKeyChanges = 4
    Batteries = {1, 2}
    Retries = 2
    FailureLimit = 0
    Asked = {"bst", "bix"}
    MaxBatteryChanges = 3
INVARIANTS
    SensorHonest
    SpeedObeys
    ButtonHonest
    KeyboardHonest
    BatteryHonest
PROPERTIES
    DevicesSettle
CHECK_DEADLOCK FALSE
