SPECIFICATION InspectionsSpec
CONSTANTS
    Settings <- MCSettings
    Size <- MCSize
    MaxDrain = 2
    MaxSessions = 3
    Fields <- MCFields
    Kind <- MCKind
    MaxAttempts = 2
    MaxBuffer = 9
    MaxStale = 4
    MaxPiece = 5
    KeyOrder <- MCKeyOrder
    Records <- MCRecords
    Extra <- MCExtra
    MaxVarbinds = 4
    MaxSteps = 5
    Retries = 1
    Attributes <- MCAttributes
    FocusGroups <- MCFocusGroups
    AttributeKind <- MCAttributeKind
    Advertisable = {"marker-names", "media-col-ready"}
    Sensitive = {"uuid"}
    Markers = {"black"}
    Formats = {"pdf", "pwg"}
    FormatLists <- MCFormatLists
    MaxFormats = 2
    MaxFocused = 1
    CodecLimits <- MCCodecLimits
    Entries <- MCEntries
    MaxEntries = 7
    AttributeNames <- MCAttributeNames
    Announcements <- MCAnnouncements
    MaxHeard = 3
    MaximumServices = 3
INVARIANTS
    OwnAnswers
    LeavesSettingsMode
    OwnValues
    ReadsAreTruthful
    WriteIsTruthful
    SnapshotIsFaithful
    RedactedHidesSensitive
    CodecAgrees
    LatestOfEach
PROPERTY
    InspectionsEnd
CHECK_DEADLOCK FALSE
