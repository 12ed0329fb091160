CONSTANTS
    Kinds <- AllKinds
    Lengths <- SomeLengths
    Sizes = {0, 1, 9}
    Capacity = 40
    MaxPrograms = 7
    Tables <- SomeTables
    Payloads = {5, 8, 25, 50}
    Says = {0, 20}
    Tree <- SmallTree
    DVBTexts <- SomeDVBTexts
    FreesatTexts <- FreesatWords
    ATSCTexts <- SomeATSCTexts
    XmlTexts <- SomeXmlTexts
    TextRoom = 6
    Decompressed = 6
    XmlRoom = 9
    Changer = {t1, t2}
    PropertyName = {1, 2}
    MaxDepth = 2
    MaxNodes = 3
    MaxBeside = 3
    TypedLines <- SomeLines
    MAX_ARGS = 2
    CommandNames <- SomeCommands
    Asked <- SomeNames
    ContextCommands <- RemoteCommands
    FileLines <- SomeFiles
    LineRoom = 5
    MaxSent = 3
SPECIFICATION MCSpec
INVARIANT GeneratedIsCarried
INVARIANT StaysInside
INVARIANT TextsDecoded
INVARIANT PropertiesKept
INVARIANT CommandsUnderstood
SYMMETRY SameChangers
