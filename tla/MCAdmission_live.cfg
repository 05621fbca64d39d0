\* Offers are delivered in time; every item fits.
SPECIFICATION LiveSpec
CONSTANTS
    Items = {1, 2}
    Home <- TwoHomes
    Class <- OneClass
    Deadline <- FarDeadlines
    Fits = {1, 2}
    Cancellable = {}
    GlobalLimit = 1
    WorkspaceLimit = 1
    ClassLimit = 1
    ResourceLimit = 1
    Slots = 1
    GrantTTL = 2
    MaxGeneration = 2
    MaxTime = 2
    Exactness = {TRUE}
    MaxRevision = 3
    MaxFaults = 1
PROPERTIES
    
    GrantsEnd
CHECK_DEADLOCK FALSE
