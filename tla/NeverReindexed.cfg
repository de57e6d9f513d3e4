SPECIFICATION FairSpec
CONSTANTS
    SourceFiles = {f1}
    TestFiles = {}
    ChannelSize = 1
    MaxEdits = 2
    MaxRequests = 1
    Failures = {}
    ToolModes = {}
    Scanners = {"poll"}
    NoProgram = NoProgram
PROPERTY
    EditIsIndexed
\* After Stop the watcher and the rebuild loop may come to rest.
CHECK_DEADLOCK FALSE
