SPECIFICATION Spec
CONSTANTS
    Instances = {i1, i2}
    Strangers = {s1}
    Recorder = i1
    Models = {m1, m2}
    Files <- HostFiles
    Overrides <- HostOverrides
    NoModel = NoModel
    DefaultPort = 2
    DefaultMeshPort = 3
    DefaultBasePort = 6
    DefaultSlots = 4
    m1 = m1
    m2 = m2
INVARIANTS ConfigIsSound ChargedToThisHost
PROPERTIES PortHandsOver CardIsReleased
CHECK_DEADLOCK FALSE
