\* Files of up to three items, of which a macro's body is read one deep.  Every
\* file is full in the end: no deadlock.
CONSTANTS
    Items <- MCItems
    MaxItems = 3
    SimMarkers <- Markers
    MaxDepth = 1
SPECIFICATION Spec
PROPERTIES SitesAreRight
CHECK_DEADLOCK FALSE
