SPECIFICATION FairSpec
CONSTANTS
    r1 = r1
    r2 = r2
    Requests = {r1, r2}
    Tags = 3
    Limit <- OneAndTwo
    MaxStops = 1
INVARIANTS ResultsAccounted 
PROPERTIES TestsEnd
CHECK_DEADLOCK FALSE
