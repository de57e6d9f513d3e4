SPECIFICATION FairSpec
CONSTANTS
    SourceFiles = {f1}
    TestFiles = {}
    ChannelSize = 1
    MaxEdits = 2
    MaxRequests = 1
    Failures = {"scan", "load"}
    ToolModes = {}
    Scanners = {"poll"}
    NoProgram = NoProgram
PROPERTIES
    ChangeIsRequested
    StopEndsWatcher
    IndexedIfUncached
\* After Stop the watcher and the rebuild loop may come to rest.
CHECK_DEADLOCK FALSE
