\* Three operations over every choice of three components, cyclic ones included.
SPECIFICATION FairSpec
CONSTANTS
    p1 = p1
    p2 = p2
    p3 = p3
    Pointer = {p1, p2, p3}
    Document <- MCDocuments
    Name <- MCName
    Credentials <- MCCredentials
    Dangling = Dangling
    None = None
    LowerCase <- MCLowerCase
    DefaultMaxTools = 3
    OutputSchema = TRUE
    MaxOutputDefs = 2
    MaxDepth = 4
INVARIANTS
    TypeOK
    ToolNamesUnique
    SchemasStandAlone
    InputsLostOnlyByClash
    UrlComplete
    CredentialsWin
    PayloadArrivesWhole
PROPERTY ConversionEnds
CHECK_DEADLOCK FALSE
