\* Three results of two providers: the last may connect two groups that do
\* not match, be of unknown type, or bring what the others lack.
CONSTANTS
    near = near
    mid = mid
    far = far
    high = high
    low = low
    None = None
    Contributors = {high, low}
    Types = {tv, movie}
    Titles = {near, mid, far}
    Similar <- MCSimilar
    Priority <- MCPriority
    ResponseTime <- MCResponseTime
    Images = {"none", "broken", "valid"}
    Length = 3
SPECIFICATION Grouping
INVARIANTS
    PartsStayApart
    GroupsAreClasses
    DefaultOrderPrefers
PROPERTY LaterSourcesNeverHurt
CHECK_DEADLOCK FALSE
