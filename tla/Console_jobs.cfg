SPECIFICATION Spec
CONSTANTS
    Calls = {c1}
    MaxRows = 3
    MaxFlights = 1
INVARIANT TypeOK
 
INVARIANT RefusedOnlyIfOutdated
 
PROPERTY FormOutlivesAnswers
PROPERTY ShownCatchesUp
CHECK_DEADLOCK FALSE
