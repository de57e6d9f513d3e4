SPECIFICATION Spec
CONSTANTS
    SourceFiles = {f1}
    TestFiles = {}
    ChannelSize = 1
    MaxEdits = 2
    MaxRequests = 1
    Failures = {"scan", "load", "store"}
    ToolModes = {1, 2}
    Scanners = {"poll", "initial"}
    NoProgram = NoProgram
INVARIANTS
    TypeOK
    DropsAreCovered
