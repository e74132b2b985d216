SPECIFICATION SuiteSpec
CONSTANTS
    None = None
    Units = {"mctp"}
    Callers = {c1, c2, c3}
    Receivers = {r1, r2}
    only = r1
    IdCount = 8
    MaxInvocations = 4
    Users = {u1, u2, u3}
    BufferLen = 3
    e1 = e1  e2 = e2  e3 = e3  e4 = e4
    g1 = g1  g2 = g2  g3 = g3  g4 = g4
    oem0 = oem0  oem1 = oem1  power = power
    oemList = oemList  powerList = powerList
    Senders = {s1}
    Endpoints = {e1, e2, e3, e4}
    Registrars = {g1, g2, g3, g4}
    IdOf <- SmallIdOf
    ListOf <- SmallListOf
    Plans <- SmallPlans
    Script <- ManyScript
    Invalid = Invalid
    MaxFrames = 3
    Implicit = FALSE
    MaxOutput = 2
    Frames <- HidFrames
    MaxReports = 2
    MaxResets = 1
    HidDevices = 2
    Descriptors <- SmallDescriptors
    ReportCount = 3
    StackDepth = 2
    MaxBits = 40
    MaxSteps = 2
    CommandReg = 5
    DataReg = 6
    PassDevices = {1}
    Served = 1
    HostBuffer = 128
    Messages <- HidMessages
    QueueSize = 2
    Calls <- HostCalls
    FrameSize = 2
    RingFrames = 2
    LogSizes = {1, 3}
    MaxLogs = 3
    MaxPolls = 3
    AddressSpace = 8
    BlockSize = 2
    Manifests <- DiskManifests
    Arguments = {0, 1, 2, 4, 7}
    MaxAccesses = 2
    MaxFailures = 1
INVARIANT MultiplePackets
CHECK_DEADLOCK FALSE
