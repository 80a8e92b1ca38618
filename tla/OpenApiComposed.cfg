\* Components that declare properties beside their allOf.
SPECIFICATION Spec
CONSTANTS
    p1 = p1
    p2 = p2
    p3 = p3
    Pointer = {p1, p2, p3}
    Document <- MCComposed
    Name <- MCName
    Credentials <- MCCredentials
    Dangling = Dangling
    None = None
    LowerCase <- MCLowerCase
    DefaultMaxTools = 3
    OutputSchema = TRUE
    MaxOutputDefs = 2
    MaxDepth = 4
INVARIANT EveryInputHasAnArgument
CHECK_DEADLOCK FALSE
