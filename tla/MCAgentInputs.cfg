SPECIFICATION Spec
CONSTANTS
    Address = 137
    Fields <- SmallFields
    Modes = {0, 1}
    Noise = {0, 1, 2, 3, 4, 5, 6, 7, 8, 9, 10, 11, 54, 251, 255}
    MaxUnread = 12
    crc16 <- CRC16
    Contents <- SmallContents
    Existing <- FewFiles
    Listed <- OneOfEach
    Links <- SomeLinks
    MaxChanges = 1
\* A start ends with the configuration.
CHECK_DEADLOCK FALSE
INVARIANTS
    TypeOK
    AnswersTruly
    DisturbedInData
    OneSource
    Usable
    ReportedWasSo
    QuietReportIsTrue
