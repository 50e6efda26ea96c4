SPECIFICATION MCSpec
CONSTANTS
    NoTar = NoTar
    Torn = Torn
    NoFile = NoFile
    MaxId = 2
    MaxVersion = 2
    Notes = {n1}
    MaxBackups = 1
    Compress = {TRUE, FALSE}
    VerifyIntegrity = TRUE
    MaxSecond = 3
    MaxData = 3
    MaxKey = 3
    Encryptors = {e1, e2}
    Wrap = 3
    MaxStores = 5
    Processes = {p1, p2}
    Plugins = {f1}
    Names = {n1}
    MaxText = 2
    MaxClicks = 2
    MaxKeys = 3
    Second = 2
    MaxLogFiles = 2
    LogLimit = 0
    TextLengths = {1, 3}
    MaxTime = 3
    MaxEntries = 4
    Writers = {p1, p2}
    Readers = {Reader}
    Paths = {x1, x2}
    MaxStamp = 3
    NoPath = Nil
INVARIANTS BackupsAreRestorable NoncesUnique BackupsReadable ApprovalsHold InputIsBounded LogStaysInOrder CreatedIsKept SearchesAreComplete
SYMMETRY Symmetry
CHECK_DEADLOCK FALSE
